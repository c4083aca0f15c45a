SPECIFICATION Spec
CONSTANTS
  j1 = j1
  c1 = c1
  c2 = c2
  Lifespan = Lifespan
  NoJob = NoJob
  Jobs = {j1}
  Cancellers = {c1, c2}
  MaxBatches = 2
  PipeCap = 2
  Faults = {"spawn", "huge", "crash", "orphans", "partial"}
  CanShutdown = TRUE
SYMMETRY Symmetry
INVARIANTS
  LifecycleInv
  SlotNotLeaked
  VerdictAfterExit
  CompletedIsConfirmed
PROPERTIES
  CancelSilences
CHECK_DEADLOCK FALSE
