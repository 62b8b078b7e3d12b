SPECIFICATION Spec
CONSTANTS
  Task = {t1, t2, t3}
  Series = {}
  Txn = {x1, x2}
  Board = Board
  None = None
  Horizon = 0
  MaxVersion = 2
  MaxTries = 2
  RequestKind = {"create", "update", "delete"}
  RequestStatus = {"NOT_STARTED"}
  RequestDue = {0}
  RequestDeps <- SingleDeps
  RequestSchedule = {"keep"}
SYMMETRY Symmetry
CHECK_DEADLOCK FALSE
INVARIANTS DependencyGraphAcyclic DecisionsStillCurrent SequenceDense
PROPERTIES ImplementsLedger
