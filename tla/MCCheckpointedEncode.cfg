CONSTANTS
  gguf = gguf
  gguf2 = gguf2
  text = text
  text2 = text2
  a = a
  b = b
  e = e
  p = p
  q = q
  TwoProcs = {p, q}
  Procs = {p}
  Jobs <- MCJobs
  Symbols <- MCSymbols
  Escapes = {e}
  Every = 2
  MaxFaults = 3
SPECIFICATION PartsSpec
INVARIANTS OutputIsUninterrupted CheckpointIsPrefix
PROPERTIES RemovedAfterOutput ProgressKeptAlone CheckpointUsedUp
