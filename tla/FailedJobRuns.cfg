SPECIFICATION Spec
CONSTANTS
  j1 = j1
  j2 = j2
  c1 = c1
  Lifespan = Lifespan
  NoJob = NoJob
  Jobs = {j1, j2}
  Cancellers = {c1}
  MaxBatches = 1
  PipeCap = 1
  Faults = {"spawn", "huge", "crash", "orphans", "partial"}
  CanShutdown = FALSE
INVARIANTS
  SingleActiveJob
CHECK_DEADLOCK FALSE
