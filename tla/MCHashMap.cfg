SPECIFICATION Spec
CONSTANTS
  k1 = k1
  k2 = k2
  k3 = k3
  k4 = k4
  k5 = k5
  Keys = {k1, k2, k3, k4, k5}
  Hash <- Crowded
  Data = {d1, NULL}
  NULL = NULL
  HASHMAP_SIZE_MIN = 4
  HASHMAP_SIZE_DEFAULT = 8
  InitialSize = 1
  MaxSize = 16
  MaxLost = 1
  Calls = {"put", "remove", "clear", "reset", "destroy", "iter", "foreach"}
  ForeachReach = "own"
INVARIANTS
  TableIsSound
  GetFindsWhatWasPut
  NothingIsSkipped
CHECK_DEADLOCK FALSE
