SPECIFICATION SshSpec
CONSTANTS
  t1 = t1
  t2 = t2
  Callers = {t1, t2}
  MaxUsers = 3
SYMMETRY Symmetry
CHECK_DEADLOCK FALSE
INVARIANTS
  HoldsWhatItUses
  ReturnsRelease
  LibraryIsUp
