SPECIFICATION FairSpec
CONSTANTS
  j1 = j1
  c1 = c1
  Lifespan = Lifespan
  NoJob = NoJob
  Jobs = {j1}
  Cancellers = {c1}
  MaxBatches = 2
  PipeCap = 2
  Faults = {"spawn", "huge", "crash", "orphans", "partial"}
  CanShutdown = TRUE
PROPERTIES
  JobTerminates
  CancelEnds
  ShutdownEndsScripts
CHECK_DEADLOCK FALSE
