SPECIFICATION Spec
CONSTANTS
  MaxCases = 2
  MaxRecords = 2
INVARIANT FinalReport
CHECK_DEADLOCK FALSE
