SPECIFICATION FairSpec
CONSTANTS
  Gateways = {g1, g2, g3}
  Blank = Blank
  MaxTicks = 2
  MaxCopies = 2
INVARIANTS
  ButtonTellsIdle
  ListIsRight
PROPERTIES
  RowsOnlyMoveDown
  ClickStartsScan
  ButtonComesBack
  AnswerIsShown
CHECK_DEADLOCK FALSE
