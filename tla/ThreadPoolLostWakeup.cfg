\* One worker, one task, nobody terminates.
SPECIFICATION FairSpec
CONSTANTS
  ThreadsCount = 1
  Tasks = {a}
  Terminators = {}
  NULL = NULL
  HeadCell = HeadCell
PROPERTY QueuedTaskIsTaken
CHECK_DEADLOCK FALSE
