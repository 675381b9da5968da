\* Two to four peers at every server; the processes of the last one are two.
CONSTANTS
  a = a
  b = b
  c = c
  d = d
  e = e
  Peers = {a, b, c, d, e}
  Msgs <- MCMsgs
  Leavers = {a, c}
  FDs = {0, 1, 2, 3, 4, 5, 6, 7, 8}
  Sock = 3
  Procs = {1, 2}
  cpu_size = 32
  SelfIds <- MCSelfIds
  BUFFER_LENGTH = 1
  Clients <- MCClients
  Requests <- MCRequests
  Blank <- MCBlank
SPECIFICATION FairSpec
INVARIANTS TypeOK RepliesMatch 
PROPERTIES ClosesOnlyLeft PendingAreAccepted InputIsTaken PagesFollow
CHECK_DEADLOCK FALSE
