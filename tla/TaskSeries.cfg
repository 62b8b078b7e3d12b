SPECIFICATION SeriesSpec
CONSTANTS
  t1 = t1
  t2 = t2
  t3 = t3
  s1 = s1
  Task = {t1, t2, t3}
  Series = {s1, s2}
  Txn = {x1}
  Board = Board
  None = None
  Horizon = 3
  MaxVersion = 4
  MaxTries = 2
  RequestKind = {"update"}
  RequestStatus = {"NOT_STARTED", "COMPLETED"}
  RequestDue = {1}
  RequestDeps = {{}}
  RequestSchedule = {"keep", "enable", "remove"}
CHECK_DEADLOCK FALSE
INVARIANTS CurrentIsLatest OccurrencesUnique
