CONSTANTS
  Files <- NamingFiles
  CodeLines <- NamingLines
  ManifestLines <- NoLines
  LockLines <- NoLines
  Native <- MCNative
  MaxLines = 4
SPECIFICATION PolicySpec
INVARIANT ImplementationIsScanned
CHECK_DEADLOCK FALSE
