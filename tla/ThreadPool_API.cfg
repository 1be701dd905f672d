SPECIFICATION Spec
CONSTANTS
  Tasks = {t1, t2, t3}
  Workers = {w1, w2, w3}
  InitialSizes = {1}
  Ops <- AllOps
  MaxSpurious = 1
  NoTask = NoTask
  NoWorker = NoWorker
SYMMETRY Symmetry
INVARIANTS
  OneOwner
  WaitSection
  NoStranded
PROPERTIES
  ImplementsTaskPool
CHECK_DEADLOCK FALSE
