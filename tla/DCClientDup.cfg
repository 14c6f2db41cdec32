CONSTANTS
  IdBits = 2
  MaxRequests = 2
  MaxOutstanding = 1
  Duplicates = TRUE
  IdLapping = FALSE
SPECIFICATION Spec
CHECK_DEADLOCK FALSE
INVARIANT NoAssertFailure
