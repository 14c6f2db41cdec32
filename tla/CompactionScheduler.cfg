CONSTANTS
  DBs <- MCDBs
  Callers <- MCCallers
  MaxTasks = 5
SPECIFICATION Spec
CHECK_DEADLOCK FALSE
INVARIANT TypeOK
PROPERTY ImplementsCompactionQueue
