\* One key, one slot to spare, and any allocation may fail.
SPECIFICATION ArrayOnly
CONSTANTS
  Keys = {k1}
  EvenKey = k1
  Values = {v1, v2}
  Addrs = {1, 2, 3, 4}
  Malloc <- LowestFree
  KVS_ARRAY_SIZE = 2
  KeySum <- MCKeySum
  MAX_TABLE_SIZE = 2
  MallocMayFail = TRUE
  NULL = NULL
INVARIANT SetIsStored
CHECK_DEADLOCK FALSE
