SPECIFICATION Spec
CONSTANTS
  cpu = cpu
  device = device
  None = None
  Schedule <- MCSchedule
  Items <- MCItems
  BatchSizes <- MCBatchSizes
  MaxSteps = 3
  Quiesces = TRUE
  MaxSamples = 2
INVARIANTS SelectedByItsOccurrence ReleasedOnTime CompleteIsTrue
PROPERTIES TestEnds
