CONSTANTS
  Files <- ListFiles
  CodeLines <- NoLines
  ManifestLines <- ListLines
  LockLines <- NoLines
  Native <- MCNative
  MaxLines = 4
SPECIFICATION PolicySpec
INVARIANT ExternalVersionsAreExact
CHECK_DEADLOCK FALSE
