SPECIFICATION FairSpec
CONSTANTS
  Gateways = {g1}
  Blank = Blank
  MaxTicks = 1
  MaxCopies = 1
  Kinds = {"mqtt", "wan"}
  Results = {"ok", "error"}
  MaxReplies = 1
PROPERTIES
  ExchangeEnds
  ButtonComesBack
CHECK_DEADLOCK FALSE
