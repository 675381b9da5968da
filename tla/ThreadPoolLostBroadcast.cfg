\* One worker, and the owner terminates the pool.
SPECIFICATION FairSpec
CONSTANTS
  ThreadsCount = 1
  Tasks = {a}
  Terminators = {0}
  NULL = NULL
  HeadCell = HeadCell
PROPERTY WaitdoneReturns
CHECK_DEADLOCK FALSE
