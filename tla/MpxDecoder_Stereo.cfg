SPECIFICATION FairSpecMpx
CONSTANTS
  Length = 5
  NumVec = 4
  Samples = {zero, a}
  Zero = zero
  Levels <- PilotLevels
  NoPeak <- NoPilotPeak
  pilotMaxGain = 14
  pilotStableLow <- StableLow
  pilotStableHigh = 2
  increaseRate = 3
  decreaseRate = 1
INVARIANTS
  VectorReadsInBounds
  VectorDropsTail
  MonoMeetsCentreTap
PROPERTIES
  ImplementsDelayLine
  DecidedOnce
  Decided
