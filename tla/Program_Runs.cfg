SPECIFICATION FairProgram
CONSTANTS
  Lines <- MCLines
  Extension <- MCExtension
  Converted <- MCConverted
  Contents <- MCContents
  Major <- MCMajor
  subFormats <- MCsubFormats
  defaultSubFormats <- MCdefaultSubFormats
  Accepts <- MCAccepts
  Unseekable <- MCUnseekable
  Number <- MCNumber
  TooLarge = {"1e99"}
  Spelling <- MCSpelling
  Hyphenated <- MCHyphenated
  LargeFiles = {"long.wav"}
  LastMajor = "xi"
  Scale = 220
  Signals = {0, 3, 10, 11, 17, 40}
  Gains = {50, 100, 230}
  Unity = 100
  Limit = 10
  OutputKinds = {"sndfile", "unseekable", "csv"}
  DitherPeaks = {0, 1, 2}
  Effects = {50, 100, 200}
  CutPeaks = {0, 6}
  MaxAttempts = 3
INVARIANTS
  FreshStart
  ConversionsInOutput
  WithinLimit
  LoudAsAllowed
  OptionsInAnyOrder
  SuccessMeansDone
  PilotIsRemoved
  StagesInDiscreteSteps
PROPERTIES
  Exits
CHECK_DEADLOCK FALSE
