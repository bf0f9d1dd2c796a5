---------------------------- MODULE MCFsMonitor ----------------------------
EXTENDS FsMonitor

CONSTANTS path1, path2, here, there, file1, file2, none

PlaceOf == [p \in Paths |-> IF p = path1 THEN here ELSE there]
Masks == {{"modify"}, {"modify", "gone"}}
=============================================================================
