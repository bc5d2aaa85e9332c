\* Words of four base-4 digits: Bottom = 16, Top = 64, Word = 256.
CONSTANTS
  Base = 4
  Bottom = 16
  Digits = 4
  MaxTotal = 16
  TotalLimit = 16
  SymbolLimit = 7
  NumBytes = 2
  Pieces <- MCPieces
  ByteToken <- MCByteToken
  Emits <- MCEmits
  Inputs <- MCInputs
  Models = {0, 1}
  Weights <- MCWeights
  ContextLength = 4
  NCtxArgs = {2}
  Faults = {"inflated"}
  MaxSymbols = 10
  MaxOut = 30
  BenchPieces <- MCBenchPieces
  BenchByteToken <- MCByteToken
  BenchEmits <- MCBenchEmits
  BenchInputs <- MCBenchInputs
  Jobs <- MCJobs
  MaxChanges = 2
  Parts = {"dtlz"}
SPECIFICATION PartsSpec
INVARIANT InflatedLengthFails
CHECK_DEADLOCK FALSE
