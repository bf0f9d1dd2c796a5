SPECIFICATION Spec
CONSTANTS
  Gateways = {g1, g2}
  Blank = Blank
  MaxTicks = 1
  MaxCopies = 1
  Kinds = {"mqtt", "wifi", "ntp", "shell"}
  Results = {"ok", "error", "garbled"}
  MaxReplies = 1
SYMMETRY Symmetry
INVARIANTS
  TypeOK
  ShownIsOfAsked
  OnlyScanMovesTarget
PROPERTIES
  IsScan
  ListStaysUnderDialog
CHECK_DEADLOCK FALSE
