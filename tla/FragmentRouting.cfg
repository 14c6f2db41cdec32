CONSTANTS
  IdxBits = 3
  MaxFrags = 4
  RangeSizes = {1, 2}
  NumStoCs = 3
  MaxReplicas = 3
SPECIFICATION Spec
CHECK_DEADLOCK FALSE
INVARIANT TypeOK
INVARIANT HomeFragmentCorrect
INVARIANT ReplicaPlacementOK
PROPERTY SearchTerminates
INVARIANT ParseNumberOfDatabasesOK
