SPECIFICATION MCSpec
CONSTANTS
  Old = Old
  New = New
  None = None
  f1 = f1
  f2 = f2
  Files <- MCFiles
  b1 = b1
  b2 = b2
  j1 = j1
  j2 = j2
  j3 = j3
  BuildJobs <- MCBuildJobs
  FuzzJobs <- MCFuzzJobs
  Requires <- MCRequires
  Priority <- MCPriority
  MaxRetries = 2
  MaxCases = 2
  MaxRecords = 2
  ChunkSize = 3
  CacheSize = 1
  ChunkEvents = 2
  MaxRaw = 3
  Sizes = {1, 2, 4}
  Readers = {r1}
  r1 = r1
  MaxEvents = 7
  Idle = Idle
INVARIANTS ReportIsWhole OriginalKept FailureTellsWhere ForeignKept ReportIsAuthoritative CheckpointsComplete NothingIsRetried OpenKeysReported ReadsAreExact ArtifactIsLog
CHECK_DEADLOCK FALSE
