SPECIFICATION Spec
CONSTANTS
  F <- RoundF
  Letters <- LettersOf
  Longest <- Lengths
  Endings = {125, 200}
  Keys <- TwoKeys
  Trees <- Ways
  ArgvLens = {1, 3}
  Bytes1 = {0, 1, 128, 254}
  Pieces = {1, 7, 56, 63, 64, 65, 129}
  Chunks <- SomeChunks
  MaxFed <- PieceBounds
  CountWraps = 1024
  CopyWraps = 8
  Data = {d1, d2}
  NoData = NoData
  Items = {i1, i2, i3}
  NULL = NULL
  Size = 2
  MaxInput = 3
INVARIANTS
  CommandsSurvive
  ConversionsAgree
  StreamsAreWhole
  ListIsWhole
  IoTellsTruth
PROPERTIES
  IsDeque
  IoReturns
CHECK_DEADLOCK FALSE
