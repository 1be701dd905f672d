SPECIFICATION Spec
CONSTANTS
  RatePairs <- CommonPairs
  StageLimits = {1, 2, 3, 4, 5, 6, 7, 8, 9, 10}
  Filters <- BuiltInFilters
  BUFFERSIZE = 32768
  BlockSizes = {32768, 32767, 1}
  MaxBlocks = 3
INVARIANTS
  SearchSucceeds
  BandSurvives
  OutputsFit
  CascadeIsTransparent
  DurationKept
  AssertionsHold
CHECK_DEADLOCK FALSE
