SPECIFICATION PartsSpec
CONSTANTS
  Tokens = {a, b}
  Layers = 2
  HeadCount = 4
  HeadCountKv = 2
  MaxContext = 3
  Formats <- MCFormats
  Requests <- MCRequests
  MaxCalls = 4
  MaxFailures = 1
  Callers = {p, q}
  Jobs <- MCJobs
  Counts = {0, 1, 3}
  Cores = 2
  MinWork = 4
  MaxSets = 1
  BlockFormats <- MCBlockFormats
  Fills <- MCFills
  Products <- MCProducts
  Inputs <- MCInputs
  Targets <- MCTargets
  MaxFinite = 3000000
INVARIANTS
  LogitsOfTokens
  ResultIsSequential
  EveryBitIsRead
  RowsAreProducts
PROPERTY CallsReturn
CHECK_DEADLOCK FALSE
