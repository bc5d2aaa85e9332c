\* Words of four base-4 digits: Top = 64, Word = 256.
CONSTANTS
  Base = 4
  Bottom = 16
  Digits = 4
  MaxTotal = 8
  MaxSymbols = 3
  MaxOut = 12
SPECIFICATION FairSpec
INVARIANTS IntervalInWord WideWhenReady
PROPERTIES Nested CallsReturn
CHECK_DEADLOCK FALSE
