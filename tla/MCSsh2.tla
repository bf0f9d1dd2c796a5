------------------------------- MODULE MCSsh2 -------------------------------
EXTENDS Ssh2, TLC

CONSTANTS t1, t2

Symmetry == Permutations(Callers)
=============================================================================
