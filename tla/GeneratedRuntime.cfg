SPECIFICATION FairSpec
CONSTANTS
  Totals = {1, 4, 5}
  BatchSize = 2
  MaxWorkers = 2
  HistogramBins = 2
  Branches = {"plus", "minus"}
  Samples <- MCSamples
  NaN = NaN
  Unit = 60
  RuntimeFaults = {"raise", "broken pool", "overflow"}
INVARIANTS
  RuntimeTypeOK
  TotalsAreExact
  CompleteCoversAll
  VerdictAfterWorkers
PROPERTIES
  ScriptProtocol
  ScriptEnds
CHECK_DEADLOCK FALSE
