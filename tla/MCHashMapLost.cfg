SPECIFICATION Spec
CONSTANTS
  k1 = k1
  k2 = k2
  k3 = k3
  k4 = k4
  k5 = k5
  Keys <- Neighbours
  Hash <- Spread
  Data = {d1}
  NULL = NULL
  HASHMAP_SIZE_MIN = 32
  HASHMAP_SIZE_DEFAULT = 256
  InitialSize = 20
  MaxSize = 64
  MaxLost = 1
  Calls = {"put", "remove"}
  ForeachReach = "own"
INVARIANT
  RemovalKeepsOthers
CHECK_DEADLOCK FALSE
