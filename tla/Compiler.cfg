SPECIFICATION CompilerSpec
CONSTANTS
  Sources <- MCSources
  TokenStreams <- MCStreams
  MaxFragments = 3
  MaxGrowth = 4
  RecursionLimit = 28
  Scale = 100
  MaxDecimal = 100000
  Tolerance = 1
  MaxIterations = 9
  FloatStep = 10
  FloatMax = 2000
INVARIANTS
  LexerInv PositionsExact SourceCovered LexemesAreTokens RejectsOnlyNonTokens
  StatisticsBracketed AcceptsGrammar PrecedenceHolds SpansSelectNodes
  DomainAlarmsExact NamesResolve BranchesMatch ScriptIsClosed ParametersValid
PROPERTY LexingEnds
CHECK_DEADLOCK FALSE
