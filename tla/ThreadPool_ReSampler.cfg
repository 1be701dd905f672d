SPECIFICATION FairSpec
CONSTANTS
  Tasks = {t1, t2, t3}
  Workers = {w1, w2}
  InitialSizes = {1, 2}
  Ops <- ReSamplerOps
  MaxSpurious = 1
  NoTask = NoTask
  NoWorker = NoWorker
INVARIANTS
  DestructorWaits
  NoUseAfterDestroy
PROPERTIES
  CallsReturn
  ImplementsFairTaskPool
CHECK_DEADLOCK FALSE
