SPECIFICATION CompilerSpec
CONSTANTS
  Sources <- MCSources
  TokenStreams <- MCStreams
  MaxFragments = 1
  MaxGrowth = 2
  RecursionLimit = 28
  Scale = 100
  MaxDecimal = 100000
  Tolerance = 1
  MaxIterations = 9
  FloatStep = 10
  FloatMax = 2000
INVARIANT FailuresAre422
CHECK_DEADLOCK FALSE
