\* Long enough for the window to slide three times.
CONSTANTS
  a = a
  b = b
  Empty = Empty
  Tokens = {a, b}
  NCtx = 4
  Overlap = 1
  MaxTokens = 11
  Configs <- MCConfigs
  MaxUsize = 31
  MaxStores = 4
SPECIFICATION PartsSpec
INVARIANTS WindowByPosition CacheIsWindow CacheIsMap
PROPERTIES CodesUnderWindow
