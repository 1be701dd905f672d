SPECIFICATION Spec
CONSTANTS
  RatePairs <- UnusualPairs
  StageLimits = {3}
  Filters <- NormalFilter
  BUFFERSIZE = 32768
  BlockSizes = {32768}
  MaxBlocks = 3
INVARIANTS
  OutputsFit
CHECK_DEADLOCK FALSE
