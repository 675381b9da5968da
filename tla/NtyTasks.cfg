\* Two coroutines, whose addresses are used again, one of which may stray, and
\* two descriptors: a datagram socket and a connection.
SPECIFICATION FairSpec
CONSTANTS
  c1 = c1
  c2 = c2
  Coroutines = {c1, c2}
  FDs = {3, 4}
  RENICE = 2
  NULL = NULL
  Initial <- MCInitial
  TaskCalls <- MCCalls
  Usecs = {1}
  MaxTime = 2
  Streams = {4}
  Strayers = {c1}
  LEN = 2
INVARIANTS QueuedOnce EventsHaveWaiters SchedulerSurvives
PROPERTIES SendIsWhole ReadyAreResumed SleepersAreResumed WaitersAreResumed
CHECK_DEADLOCK FALSE
