SPECIFICATION FairSpec
CONSTANTS
  nChannels = 3
  L = 2
  M = 3
  BUFFERSIZE = 4
  FileLengths = {3, 4, 6, 9, 13}
  Settings <- DelaysOrFades
  ProgressSettings = {0, 10}
INVARIANTS
  BuffersAreOurs
  FadesInPlace
PROPERTIES
  ImplementsSerialPass
CHECK_DEADLOCK FALSE
