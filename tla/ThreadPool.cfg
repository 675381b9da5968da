\* Two workers and the owner, three task addresses that malloc reuses; every
\* thread may post and terminate.
SPECIFICATION FairSpec
CONSTANTS
  ThreadsCount = 2
  Tasks = {a, b, c}
  Terminators = {0, 1, 2}
  NULL = NULL
  HeadCell = HeadCell
INVARIANTS TypeOK QueueIsFifo TaskOwnership NoUseAfterFree ExitOnlyAfterQuit
PROPERTY WaitdoneReturnsUnlessStuck
\* the pool is gone in the end, or its joins hang
CHECK_DEADLOCK FALSE
