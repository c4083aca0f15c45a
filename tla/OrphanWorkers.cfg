SPECIFICATION FairSpec
CONSTANTS
  j1 = j1
  Lifespan = Lifespan
  NoJob = NoJob
  Jobs = {j1}
  Cancellers = {}
  MaxBatches = 1
  PipeCap = 1
  Faults = {"spawn", "huge", "crash", "orphans", "partial"}
  CanShutdown = FALSE
PROPERTIES
  DeathsReported
CHECK_DEADLOCK FALSE
