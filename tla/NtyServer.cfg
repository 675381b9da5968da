\* Two clients, one of which may take over the descriptor of the other.
SPECIFICATION FairSpec
CONSTANTS
  a = a
  b = b
  Coroutines = {0, 1, 2, 3, 4}
  FDs = {3, 4, 5}
  RENICE = 5
  NULL = NULL
  Peers = {a, b}
  Requests <- MCRequests
  Listen = 3
  MaxFailed = 2
  Spelling <- MCSpelling
  SP = SP
  NUL = NUL
  BUFFER_LENGTH = 7
  KVS_ARRAY_SIZE = 2
  MemoryFails = TRUE
  Lost = Lost
INVARIANTS TypeOK OneReaderEach AssertionNeedsTwoFailures
PROPERTIES RequestsAreAnswered ImplementsService
\* the process may end, and waits when the clients are gone
CHECK_DEADLOCK FALSE
