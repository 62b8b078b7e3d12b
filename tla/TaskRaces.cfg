SPECIFICATION RacingSpec
CONSTANTS
  t1 = t1
  t2 = t2
  t3 = t3
  s1 = s1
  Task = {t1, t2, t3}
  Series = {s1}
  Txn = {x1, x2}
  Board = Board
  None = None
  Horizon = 2
  MaxVersion = 3
  MaxTries = 2
  RequestKind = {"update", "delete"}
  RequestStatus = {"NOT_STARTED", "COMPLETED", "ARCHIVED"}
  RequestDue = {0, 1}
  RequestDeps <- OneDep
  RequestSchedule = {"keep", "enable"}
SYMMETRY Handlers
CHECK_DEADLOCK FALSE
INVARIANTS RecurringTaskHasDueDate ArchivedSeriesPaused FullInv
PROPERTIES GateHonoured CommitsAreOperations
