CONSTANTS
  Workers <- OneWorker
  Threads <- MCThreads
  Files <- MCFiles
  Names <- MCNames
  SegSize = 2
  BlockSizes = {1}
  MaxTasks = 1
SPECIFICATION Spec
CHECK_DEADLOCK FALSE
INVARIANT StatTasksCountsTasks
