SPECIFICATION Spec
CONSTANTS
  nChannels = 2
  L = 2
  M = 3
  BUFFERSIZE = 3
  FileLengths = {3, 4, 6}
  Settings <- DelayAndStereo
  ProgressSettings = {10}
INVARIANTS
  DelayIsTrimmed
CHECK_DEADLOCK FALSE
