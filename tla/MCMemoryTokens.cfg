SPECIFICATION TokenSpec
CONSTANTS
  p1 = p1
  p2 = p2
  t1 = t1
  t2 = t2
  Pids = {p1, p2}
  Threads = {t1, t2}
  Home <- MCHome
  SoftLimit = 2
  Estimates = {1, 2}
  MaxGrants = 2
  MaxStarts = 2
  MaxHistory = 1
  None = None
INVARIANTS HoldersCovered BooksBalance
PROPERTIES RefusedByTheLiving ActsAsPool
CHECK_DEADLOCK FALSE
