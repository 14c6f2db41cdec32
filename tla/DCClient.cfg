CONSTANTS
  IdBits = 2
  MaxRequests = 4
  MaxOutstanding = 2
  Duplicates = FALSE
  IdLapping = FALSE
SPECIFICATION Spec
CHECK_DEADLOCK FALSE
INVARIANT TypeOK
INVARIANT NoAssertFailure
INVARIANT ResponseMatchesRequest
PROPERTY EveryRequestCompletes
