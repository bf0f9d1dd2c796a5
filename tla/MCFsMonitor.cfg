SPECIFICATION Spec
CONSTANTS
  path1 = path1
  path2 = path2
  here = here
  there = there
  file1 = file1
  file2 = file2
  none = none
  Paths = {path1, path2}
  NoPath = none
  Places = {here, there}
  Place <- PlaceOf
  Files = {file1, file2}
  NoFile = none
  Asked <- Masks
  MaxWds = 3
  MaxQueue = 1
CHECK_DEADLOCK FALSE
INVARIANTS
  WatchersAreAwake
  NoStrayWatch
PROPERTIES
  DeafIsRestored
