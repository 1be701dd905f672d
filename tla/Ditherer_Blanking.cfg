SPECIFICATION Spec
CONSTANTS
  FIRLength = 3
  FullScale = 40
  autoBlankTimeThreshold = 2
  autoBlankDecayFactor = 60
  autoBlankDecayCutoff = 10
  Adjustments = {50, 90}
  MaxSamples = 8
  MaxPasses = 4
INVARIANTS
  SoundIsDithered
  BlankingFollowsSilence
  RepetitionIsTheSame
CHECK_DEADLOCK FALSE
