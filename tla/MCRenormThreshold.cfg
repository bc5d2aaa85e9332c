CONSTANTS
  Base = 2
  Bottom = 64
  Digits = 8
  MaxTotal = 8
  MaxSymbols = 1
  MaxOut = 8
SPECIFICATION Spec
PROPERTIES EmitsBelowDocumentedThreshold
CHECK_DEADLOCK FALSE
