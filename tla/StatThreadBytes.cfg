CONSTANTS
  W32 = 2
  W64 = 4
  CounterBits = 4
  ReadSizes = {1, 3}
  MaxPerInterval = 3
  MaxPolls = 3
SPECIFICATION Spec
CHECK_DEADLOCK FALSE
INVARIANT ByteDeltaExact
