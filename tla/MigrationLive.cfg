CONSTANTS
  Senders <- MCSenders
  DbIds <- MCDbIds
  Parts <- MCParts
  SemInit = 2
SPECIFICATION Spec
CHECK_DEADLOCK FALSE
PROPERTY EveryReceivedDbReady
