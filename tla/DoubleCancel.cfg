SPECIFICATION FairSpec
CONSTANTS
  j1 = j1
  c1 = c1
  c2 = c2
  Lifespan = Lifespan
  NoJob = NoJob
  Jobs = {j1}
  Cancellers = {c1, c2}
  MaxBatches = 1
  PipeCap = 1
  Faults = {}
  CanShutdown = FALSE
PROPERTIES
  CancelEnds
CHECK_DEADLOCK FALSE
