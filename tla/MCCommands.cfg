SPECIFICATION PartsSpec
CONSTANTS
  Commands <- MCNames
  Texts <- MCTexts
  MaxArgs = 4
  Wrapped <- MCWrapped
  tiny_f32 = tiny_f32
  tiny_qmix = tiny_qmix
  other_label = other_label
  Absent = Absent
  Dumps <- MCDumps
  Perplexities <- MCPerplexities
  Bos = 1
  Trees <- MCTrees
  Labels <- MCLabels
  Files <- MCFiles
  CodeLines <- MCCodeLines
  ManifestLines <- MCManifestLines
  LockLines <- MCLockLines
  Native <- MCNative
  MaxLines = 4
INVARIANTS
  OptionsAreUsable
  VerdictIsSound
  PassedFilesAreClean
CHECK_DEADLOCK FALSE
