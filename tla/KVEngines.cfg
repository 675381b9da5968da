\* Four keys, three of them colliding in a hash table of two slots; an array of
\* three slots with addresses for all copies; and any allocation may fail.
SPECIFICATION Spec
CONSTANTS
  Keys = {k1, k2, k3, k4}
  EvenKey = k4
  Values = {v1, v2}
  Addrs = {1, 2, 3, 4, 5, 6, 7, 8}
  Malloc <- LowestFree
  KVS_ARRAY_SIZE = 3
  KeySum <- MCKeySum
  MAX_TABLE_SIZE = 2
  MallocMayFail = TRUE
  NULL = NULL
VIEW Tables
SYMMETRY Symmetry
INVARIANTS ArrayTypeOK SlotsOwnStrings HashTypeOK ChainsPartitionNodes
PROPERTIES ArrayImplementsMap HashImplementsMap
\* the process may have died for want of memory
CHECK_DEADLOCK FALSE
