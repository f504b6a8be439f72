SPECIFICATION MCSpec
CONSTANTS
  Cases = 3
  HasDeadline = TRUE
  QueueLines = 2
  OutLines = 2
  InLines = 3
  MaxUnanswered = 2
  MaxRambles = 3
  MaxProcs = 3
INVARIANTS CompletedIsComplete NothingAfterEnd SurvivorsAreNewborn
PROPERTIES SessionEnds StopEnds
CHECK_DEADLOCK FALSE
