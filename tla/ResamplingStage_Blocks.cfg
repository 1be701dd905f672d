SPECIFICATION Spec
CONSTANTS
  Length = 7
  NumVec = 1
  Factors <- AllFactors
  BlockSizes = {0, 1, 2, 3}
  MaxFed = 12
INVARIANTS
  OutputCount
  BlocksAreTransparent
CHECK_DEADLOCK FALSE
