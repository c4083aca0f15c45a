SPECIFICATION FairSpec
CONSTANTS
  j1 = j1
  j2 = j2
  NoJob = NoJob
  Jobs = {j1, j2}
  MaxBatches = 0
  MaxRuns = 2
  MaxPolls = 3
  Network = {"socket", "http"}
  Outsiders = TRUE
  Patient = TRUE
INVARIANTS
  ClientInv
  EndsOnlyWithItsJob
  CancelOffered
PROPERTIES
  RunSettles
CHECK_DEADLOCK FALSE
