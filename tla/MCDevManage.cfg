SPECIFICATION Spec
CONSTANTS
  Devices = {d1, d2}
  Default = d1
  Lists <- NoneOrTwo
  d1 = d1
  d2 = d2
  Blank = Blank
  None = None
  Jobs = {"query", "add", "del"}
  Threads = {t1, t2}
SYMMETRY Symmetry
INVARIANTS
  TypeOK
  ButtonsAreOwed
  LoneQueryIsListed
  CertainTargetIsDeleted
