SPECIFICATION Spec
CONSTANTS
  Regions = {"ram", "rom"}
  Size <- MCSize
  Windows <- MCWindows
  Readable = {"ram", "rom"}
  Writable = {"ram"}
  Widths = {1, 2}
  WordBytes = 2
  Values = {0, 1}
  InitialByte <- MCInitialByte
  MaxInitializedBytes = 2
  MaxGeneration = 1
  MaxCommits = 2
  Undetermined = Undetermined
INVARIANTS CellsAreSound
PROPERTIES ActsAsPlainMemory
