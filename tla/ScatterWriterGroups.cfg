CONSTANTS
  StoCs <- MCStoCs
  Scatter = 3
  MaxBlocks = 2
  BlockSizes = {1}
  Trailer = 1
  MaxBase = 0
  FilterLen = 1
  IndexLen = 1
  NewIndexLen = 2
  AllocSlack = 2
SPECIFICATION Spec
INVARIANT GroupsAsSpecified
