SPECIFICATION Spec
CONSTANTS
  Regions = {"ram"}
  Size <- MCSize
  Windows <- MCWindows
  Readable = {"ram"}
  Writable = {"ram"}
  Widths = {2}
  WordBytes = 2
  Values = {0, 1}
  InitialByte <- MCInitialByte
  MaxInitializedBytes = 3
  MaxGeneration = 1
  MaxCommits = 12
  Undetermined = Undetermined
  SlotAddresses = {0}
  Capacity = 2
  MaxSequence = 3
  MaxEpoch = 1
  MaxRequests = 3
  ResetCost = 1
  None = None
INVARIANTS CommitCannotFail StreamIsExact PortsAreCurrent
PROPERTIES FetchServed
CHECK_DEADLOCK FALSE
