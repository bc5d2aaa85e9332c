\* Words of five bits: Bottom = 8, Top = 16, Word = 32.
CONSTANTS
  Base = 2
  Bottom = 8
  Digits = 5
  MaxTotal = 8
  TotalLimit = 8
  SymbolLimit = 4
  Tables <- MCTables
  Payloads <- MCPayloads
  MaxTokens = 3
  MaxOut = 20
  NonFinite = NonFinite
  Logits <- MCLogits
  Tails = {0, 2}
SPECIFICATION PartsSpec
INVARIANTS
  RoundTrip TruncationSeen OnePayloadPerStream PathsAgree
  WideWhenReady PendingFresh CodeIsWindow
CHECK_DEADLOCK FALSE
