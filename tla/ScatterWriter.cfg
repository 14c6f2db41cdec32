CONSTANTS
  StoCs <- MCStoCs
  Scatter = 2
  MaxBlocks = 4
  BlockSizes = {1, 2}
  Trailer = 1
  MaxBase = 1
  FilterLen = 1
  IndexLen = 1
  NewIndexLen = 2
  AllocSlack = 2
SPECIFICATION Spec
INVARIANT TypeOK
INVARIANT ReadReturnsBlock
INVARIANT GroupHandlesCoverData
INVARIANT MetaBlobSelfConsistent
INVARIANT BufferReadReturnsAppended
