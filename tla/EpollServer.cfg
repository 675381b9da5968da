\* Two clients, one of which may take over the descriptor of the other.
SPECIFICATION FairSpec
CONSTANTS
  a = a
  b = b
  Peers = {a, b}
  FDs = {4, 5}
  Requests <- MCRequests
  Spelling <- MCSpelling
  Listen = 3
  None = None
  Leftover <- MCLeftover
  Lost = Lost
  MemoryFails = TRUE
  SP = SP
  NUL = NUL
  BUFFER_LENGTH = 7
  KVS_ARRAY_SIZE = 2
INVARIANTS TypeOK BuffersArePrivate NoCallbackBlocks
PROPERTY RequestsAreAnswered
\* the server waits when the clients are gone
CHECK_DEADLOCK FALSE
