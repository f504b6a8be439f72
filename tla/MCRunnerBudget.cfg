CONSTANTS
  cpu = cpu
  device = device
  None = None
  Components <- MCComponents
  Payloads = {0, 1}
  Quiet = 0
  MaxRecords = 3
  MaxSequence = 2
  MaxEpoch = 1
SPECIFICATION Spec
INVARIANT FinalRecordsWithinBudget
