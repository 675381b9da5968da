\* Three workers, one of whose handlers terminates the pool, as in test_thread_pool.c.
SPECIFICATION FairSpec
CONSTANTS
  ThreadsCount = 3
  Tasks = {a}
  Terminators = {1}
  NULL = NULL
  HeadCell = HeadCell
PROPERTY WaitdoneReturnsUnlessLost
CHECK_DEADLOCK FALSE
