SPECIFICATION StartedFairSpec
CONSTANTS
  t1 = t1
  t2 = t2
  t3 = t3
  s1 = s1
  Task = {t1, t2, t3}
  Series = {s1}
  Txn = {x1, x2}
  Board = Board
  None = None
  Horizon = 2
  MaxVersion = 2
  MaxTries = 2
  RequestKind = {"update"}
  RequestStatus = {"NOT_STARTED", "COMPLETED"}
  RequestDue = {1}
  RequestDeps <- OneDep
  RequestSchedule = {"keep"}
CHECK_DEADLOCK FALSE
INVARIANTS TypeOK
PROPERTIES RequestsAnswered
