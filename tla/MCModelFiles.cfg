SPECIFICATION PartsSpec
CONSTANTS
  Block = 8
  LenBytes = 2
  Word = 256
  LengthOf <- MCLengthOf
  Pad = 8
  Updates <- MCUpdates
  MaxMessage = 20
  Base = 16
  Magic = 7
  BadChar = 15
  Align = 4
  Types <- MCTypes
  Written <- MCWritten
  Ggufs <- MCGgufs
  Blocks <- MCBlocks
  MaxU32 = 8
  Escapes = 2
  MaxSymbols = 7
  Bytes <- MCBytes
  ByteTokens <- MCByteTokens
  MaxLen = 5
  Ids <- MCIds
  Pieces <- MCPieces
  MergeTables <- MCMergeTables
  Files <- MCFiles
  Inputs <- MCInputs
  None = None
  NonFinite = NonFinite
INVARIANTS
  DigestOfMessage
  DataIsApart
  ReadAsWritten
  ReadingsAgree
  ShapesAreUsable
  TokenizerIsSound
  OutputIsMerged
PROPERTIES
  MergesByRankScan
  TokenizeReturns
CHECK_DEADLOCK FALSE
