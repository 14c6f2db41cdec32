CONSTANTS
  Workers <- OneWorker
  Threads <- MCThreads
  Files <- MCFiles
  Names <- MCNames
  SegSize = 2
  BlockSizes = {1}
  MaxTasks = 2
SPECIFICATION Spec
CHECK_DEADLOCK FALSE
INVARIANT TypeOK
INVARIANT NoLostWakeup
INVARIANT CompletedAtMostOnce

PROPERTY EveryTaskCompleted
