\* One client sets its key to a longer and to a shorter value, and reads it.
SPECIFICATION Spec
CONSTANTS
  a = a
  b = b
  Peers = {a}
  FDs = {4}
  Requests <- ShortRequests
  Spelling <- MCSpelling
  Listen = 3
  None = None
  Leftover <- MCLeftover
  Lost = Lost
  MemoryFails = FALSE
  SP = SP
  NUL = NUL
  BUFFER_LENGTH = 7
  KVS_ARRAY_SIZE = 2
INVARIANT SetAckedIsStored
CHECK_DEADLOCK FALSE
