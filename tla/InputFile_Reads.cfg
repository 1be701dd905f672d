SPECIFICATION Spec
CONSTANTS
  DsfFiles <- AllDsfFiles
  DffFiles <- AllDffFiles
  IQFiles <- AllIQFiles
  ModulationTypes = {"AM", "NFM", "WFM"}
  BlockSize <- SmallBlock
  ReadSizes = {2, 7, 48}
  MaxSeeks = 2
INVARIANTS
  EndAsAnnounced
  ChunksInStep
PROPERTIES
  ImplementsSampleStream
CHECK_DEADLOCK FALSE
