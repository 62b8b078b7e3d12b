-------------------------- MODULE TaskBoard_proofs ---------------------------
(****************************************************************************)
(* Theorems about TaskBoard for any tasks, schedules, transactions, bounds  *)
(* and inputs that satisfy ConstantsAssumption.                             *)
(****************************************************************************)
EXTENDS TaskBoardInvariant, DependencyGraph_proofs

(* The least element of a set of naturals, which NextOccurrence returns.      *)
LEMMA MinInSet ==
  ASSUME NEW S \in SUBSET Nat, S # {}
  PROVE  Min(S) \in S /\ \A y \in S : Min(S) <= y
BY LeastElement DEF Min

LEMMA TimeIsNat == Time \subseteq Nat /\ Time \cup {0} \subseteq Nat
BY ConstantsAssumption DEF Time

(* recurrence.ts nextOccurrence returns NULL or an instant of the rule later   *)
(* than its argument, and no instant of the rule lies between them.            *)
THEOREM NextOccurrenceIsNext ==
  ASSUME NEW start \in Nat, NEW after \in Nat
  PROVE  LET n == NextOccurrence(start, after) IN
         /\ n \in Time \cup {0}
         /\ n # 0 => n > after /\ n >= start
         /\ \A m \in Time : m >= start /\ m > after => n # 0 /\ n <= m
<1> DEFINE later == {n \in Time : n >= start /\ n > after}
<1>1. later \in SUBSET Nat /\ 0 \notin later
  BY TimeIsNat DEF Time
<1>2. CASE later = {}
  BY <1>2 DEF NextOccurrence
<1>3. CASE later # {}
  <2>1. Min(later) \in later /\ \A y \in later : Min(later) <= y
    BY <1>1, <1>3, MinInSet
  <2>2. NextOccurrence(start, after) = Min(later)
    BY <1>3 DEF NextOccurrence
  <2> QED BY <2>1, <2>2, <1>1
<1> QED BY <1>2, <1>3

-----------------------------------------------------------------------------
(* Type correctness *)

LEMMA RequestType ==
  ASSUME NEW kind \in {"none", "create", "update", "delete"},
         NEW t \in Task \cup {None}, NEW v \in Nat, NEW status \in Status,
         NEW due \in Time \cup {0}, NEW deps \in SUBSET Task,
         NEW sched \in ScheduleInput, now \in 0..Horizon
  PROVE  Request(kind, t, v, status, due, deps, sched) \in Requests
<1>1. due \in Nat /\ Latest(due, now) \in Nat
  BY TimeIsNat, ConstantsAssumption DEF Latest
<1>2. NextOccurrence(due, Latest(due, now)) \in Time \cup {0}
  BY <1>1, NextOccurrenceIsNext
<1> QED BY <1>2 DEF Request, Requests

LEMMA NothingSeenType == NothingSeen \in Reading
BY DEF NothingSeen, Reading, Status, Time

LEMMA NoRequestType == now \in 0..Horizon => NoRequest \in Requests
BY RequestType DEF NoRequest, Status, ScheduleInput

LEMMA NotedType ==
  ASSUME TypeOK, NEW y \in Txn, NEW rows
  PROVE  /\ Noted(y, rows) \in Reading
         /\ Noted(y, rows).run = seen[y].run
         /\ Noted(y, rows).id = seen[y].id
         /\ Noted(y, rows).at = seen[y].at
<1>1. seen[y] \in Reading /\ rows \cap req[y].deps \in SUBSET Task
  BY DEF TypeOK, TransactionsTypeOK, Requests
<1> DEFINE more == seen[y].touched \cup (rows \cap req[y].deps)
<1>2. more \in SUBSET Task
  BY <1>1 DEF Reading
<1> HIDE DEF more
<1>3. [seen[y] EXCEPT !.touched = more] \in Reading
  BY <1>1, <1>2 DEF Reading
<1>4. Noted(y, rows) \in {seen[y], [seen[y] EXCEPT !.touched = more]}
  BY DEF Noted, more
<1> QED BY <1>1, <1>3, <1>4 DEF Reading

LEMMA FinishType ==
  ASSUME TypeOK, NEW x \in Txn, NEW rows, Finish(x, rows)
  PROVE  TransactionsTypeOK' /\ TargetsOK'
<1> USE DEF TypeOK, TransactionsTypeOK, TargetsOK
<1>1. \A y \in Txn : /\ Noted(y, rows) \in Reading
                     /\ Noted(y, rows).run = seen[y].run
                     /\ Noted(y, rows).id = seen[y].id
                     /\ Noted(y, rows).at = seen[y].at
  BY NotedType
<1>2. TransactionsTypeOK'
  BY <1>1, NothingSeenType, NoRequestType, ConstantsAssumption DEF Finish, Released, Goto, Labels
<1>3. TargetsOK'
  BY <1>1 DEF Finish, Goto, WorksOnTask, NothingSeen
<1> QED BY <1>2, <1>3

LEMMA AnswerType ==
  ASSUME TypeOK, NEW x \in Txn, Answer(x)
  PROVE  TypeOK'
<1>1. TransactionsTypeOK' /\ TargetsOK'
  BY FinishType DEF Answer
<1>2. TablesTypeOK'
  BY DEF Answer, TypeOK, TablesTypeOK, tables
<1> QED BY <1>1, <1>2 DEF TypeOK

(* A statement that writes no table: it moves on, having read or locked.       *)
LEMMA ProceedType ==
  ASSUME TypeOK, NEW x \in Txn, NEW label \in Labels, Proceed(x, label),
         NEW s \in Reading, seen' = [seen EXCEPT ![x] = s],
         NEW h \in SUBSET (Task \cup {Board}), held' = [held EXCEPT ![x] = h],
         label \in WorksOnTask => req[x].task \in Task,
         label = "insert" => s.id \in Task,
         s.run = "next" => s.id \in Task /\ s.at # 0
  PROVE  TypeOK'
<1> USE DEF TypeOK
<1>1. TablesTypeOK'
  BY DEF Proceed, TablesTypeOK, tables
<1>2. TransactionsTypeOK'
  BY DEF Proceed, TransactionsTypeOK, Goto
<1>3. TargetsOK'
  BY DEF Proceed, TargetsOK, TransactionsTypeOK, Goto
<1> QED BY <1>1, <1>2, <1>3

(* The same when nothing new was read and no lock taken.                       *)
LEMMA ContinueType ==
  ASSUME TypeOK, NEW x \in Txn, NEW label \in Labels, Proceed(x, label),
         UNCHANGED <<seen, held>>, label # "insert",
         label \in WorksOnTask => req[x].task \in Task
  PROVE  TypeOK'
<1>1. seen[x] \in Reading /\ held[x] \in SUBSET (Task \cup {Board})
  BY DEF TypeOK, TransactionsTypeOK
<1>2. seen' = [seen EXCEPT ![x] = seen[x]] /\ held' = [held EXCEPT ![x] = held[x]]
  BY DEF TypeOK, TransactionsTypeOK
<1>3. seen[x].run = "next" => seen[x].id \in Task /\ seen[x].at # 0
  BY DEF TypeOK, TargetsOK
<1> QED BY <1>1, <1>2, <1>3, ProceedType

LEMMA SubmitType ==
  ASSUME TypeOK, NEW x \in Txn, NEW r \in Requests,
         NEW first \in {"check", "read", "visible"},
         first # "check" => r.task \in Task, Submit(x, r, first)
  PROVE  TypeOK'
<1> USE DEF TypeOK
<1>1. TablesTypeOK'
  BY DEF Submit, TablesTypeOK, tables
<1>2. TransactionsTypeOK'
  BY DEF Submit, TransactionsTypeOK, Labels
<1>3. TargetsOK'
  BY DEF Submit, TransactionsTypeOK, TargetsOK, WorksOnTask
<1> QED BY <1>1, <1>2, <1>3

LEMMA TypeInit == Init => TypeOK
<1> SUFFICES ASSUME Init PROVE TypeOK
  OBVIOUS
<1>1. TablesTypeOK
  BY DEF Init, TablesTypeOK, Row, Schedule, NewTask, Status, Time
<1>2. TransactionsTypeOK
  BY NothingSeenType, NoRequestType, ConstantsAssumption
  DEF Init, TransactionsTypeOK, Labels
<1>3. TargetsOK
  BY DEF Init, TargetsOK, WorksOnTask, NothingSeen
<1> QED BY <1>1, <1>2, <1>3 DEF TypeOK

LEMMA CommitCreateType ==
  ASSUME TypeOK, NEW x \in Txn, CommitCreate(x)
  PROVE  TypeOK'
<1> DEFINE r == req[x]
           t == seen[x].id
<1>1. /\ r \in Requests /\ seen[x] \in Reading /\ t \in Task
      /\ pc[x] = "insert" /\ Finish(x, {t})
  BY DEF CommitCreate, TypeOK, TransactionsTypeOK, TargetsOK
<1>2. TransactionsTypeOK' /\ TargetsOK'
  BY <1>1, FinishType
<1>3. task' \in [Task -> Row]
  <2>1. NewTask(r.status, r.due, seen[x].seq) \in Row
    BY <1>1 DEF NewTask, Row, Requests, Reading
  <2> QED BY <2>1 DEF CommitCreate, TypeOK, TablesTypeOK
<1>4. edges' \subseteq Task \X Task
  BY <1>1 DEF CommitCreate, TypeOK, TablesTypeOK, Requests
<1>5. nextSeq' \in Nat \ {0}
  BY <1>1 DEF CommitCreate, Reading
<1>6. series' \in [Series -> Schedule]
  <2>1. CASE UNCHANGED series
    BY <2>1 DEF TypeOK, TablesTypeOK
  <2>2. CASE ~UNCHANGED series
    <3> DEFINE row == [task |-> t, start |-> r.due, next |-> r.next,
                       enabled |-> r.sched = "enable"]
    <3>1. row \in Schedule
      BY <1>1 DEF Schedule, Requests
    <3>2. PICK s \in Unused : series' = [series EXCEPT ![s] = row]
      BY <2>2 DEF CommitCreate
    <3> QED BY <3>1, <3>2 DEF TypeOK, TablesTypeOK, Unused
  <2> QED BY <2>1, <2>2
<1>7. occurrences' = occurrences
  BY DEF CommitCreate
<1> QED BY <1>2, <1>3, <1>4, <1>5, <1>6, <1>7 DEF TypeOK, TablesTypeOK

LEMMA ScheduleRowType ==
  ASSUME TypeOK, NEW x \in Txn, req[x].task \in Task, NEW s \in Series
  PROVE  EditedRow(x, s) \in Schedule /\ CommittedRow(x, s) \in Schedule
<1>1. req[x] \in Requests /\ seen[x] \in Reading /\ series[s] \in Schedule
  BY DEF TypeOK, TransactionsTypeOK, TablesTypeOK
<1>2. EditedRow(x, s) \in Schedule
  <2>1. CASE req[x].sched = "keep"
    BY <2>1, <1>1 DEF EditedRow
  <2>2. CASE req[x].sched = "remove"
    BY <2>2, <1>1 DEF EditedRow, Schedule, Time
  <2>3. CASE req[x].sched \notin {"keep", "remove"}
    BY <2>3, <1>1 DEF EditedRow, Schedule, Requests
  <2> QED BY <2>1, <2>2, <2>3
<1> DEFINE row  == EditedRow(x, s)
           next == NextOccurrence(row.start, seen[x].at)
<1>3. next \in Time \cup {0}
  <2>1. row.start \in Time \cup {0} /\ seen[x].at \in Time \cup {0}
    BY <1>1, <1>2 DEF Schedule, Reading
  <2> QED BY <2>1, TimeIsNat, NextOccurrenceIsNext
<1>4. CommittedRow(x, s) \in
        {row, [row EXCEPT !.next = 0, !.enabled = FALSE],
         [row EXCEPT !.task = seen[x].id, !.next = next, !.enabled = next # 0]}
  BY DEF CommittedRow, HandedOver
<1>5. [row EXCEPT !.next = 0, !.enabled = FALSE] \in Schedule
  BY <1>2 DEF Schedule
<1>6. [row EXCEPT !.task = seen[x].id, !.next = next, !.enabled = next # 0] \in Schedule
  BY <1>1, <1>2, <1>3 DEF Schedule, Reading
<1> QED BY <1>2, <1>4, <1>5, <1>6

LEMMA ScheduleRowsType ==
  ASSUME TypeOK, NEW x \in Txn
  PROVE  ScheduleRows(x) \subseteq Series \cup {None}
BY DEF ScheduleRows, AttachedTo, Unused

LEMMA ScheduledAtType ==
  ASSUME TypeOK, NEW x \in Txn, req[x].task \in Task, NEW s \in Series
  PROVE  ScheduledAt(x, s) \in Time \cup {0}
<1> DEFINE row     == EditedRow(x, s)
           at      == Occurred(s, req[x].task)
           current == IF at # {} THEN Min(at) ELSE row.next
<1>1. row.start \in Time \cup {0} /\ row.next \in Time \cup {0}
  BY ScheduleRowType DEF Schedule
<1>2. at \subseteq Time
  BY DEF Occurred, TypeOK, TablesTypeOK
<1>3. current \in Time \cup {0}
  BY <1>1, <1>2, TimeIsNat, MinInSet
<1>4. NextOccurrence(row.start, Latest(current, now)) \in Time \cup {0}
  <2> HIDE DEF row, current
  <2>1. row.start \in Nat /\ current \in Nat
    BY <1>1, <1>3, TimeIsNat
  <2>3. now \in Nat
    BY ConstantsAssumption DEF TypeOK, TransactionsTypeOK
  <2>2. Latest(current, now) \in Nat
    BY <2>1, <2>3 DEF Latest
  <2> QED BY <2>1, <2>2, NextOccurrenceIsNext
<1> HIDE DEF current
<1>5. ScheduledAt(x, s) \in {current, NextOccurrence(row.start, Latest(current, now))}
  BY DEF ScheduledAt, Anchor, current
<1> QED BY <1>3, <1>4, <1>5

LEMMA CommitUpdateType ==
  ASSUME TypeOK, NEW x \in Txn, CommitUpdate(x), RecurInv(x)
  PROVE  TypeOK'
<1> DEFINE r == req[x]
           t == req[x].task
           edited == [task EXCEPT ![t].status = r.status, ![t].due = r.due,
                                  ![t].version = @ + 1]
<1>1. /\ r \in Requests /\ seen[x] \in Reading /\ t \in Task
      /\ pc[x] = "apply" /\ Finish(x, {t})
      /\ seen[x].run = "next" => seen[x].id \in Task /\ seen[x].at # 0
  BY DEF CommitUpdate, TypeOK, TransactionsTypeOK, TargetsOK, WorksOnTask
<1>2. TransactionsTypeOK' /\ TargetsOK'
  BY <1>1, FinishType
<1>3. edited \in [Task -> Row]
  <2> DEFINE v == task[t].version + 1
  <2>1. task \in [Task -> Row] /\ task[t] \in Row
    BY <1>1 DEF TypeOK, TablesTypeOK
  <2>2. v \in Nat /\ r.status \in Status /\ r.due \in Time \cup {0}
    BY <1>1, <2>1 DEF Row, Requests
  <2>3. edited = [task EXCEPT ![t] =
                    [task[t] EXCEPT !.status = r.status, !.due = r.due, !.version = v]]
    BY <1>1, <2>1
  <2> HIDE DEF v
  <2>4. [task[t] EXCEPT !.status = r.status, !.due = r.due, !.version = v] \in Row
    BY <2>1, <2>2 DEF Row
  <2> QED BY <2>1, <2>3, <2>4
<1>4. edges' \subseteq Task \X Task
  BY <1>1 DEF CommitUpdate, Rewired, TypeOK, TablesTypeOK, Requests
<1>5. PICK s \in ScheduleRows(x) :
        /\ series' = IF s = None THEN series
                     ELSE [series EXCEPT ![s] = CommittedRow(x, s)]
        /\ IF seen[x].run = "next"
             THEN /\ task' = [edited EXCEPT ![seen[x].id] =
                                NewTask("NOT_STARTED", seen[x].at, seen[x].seq)]
                  /\ nextSeq' = seen[x].seq + 1
                  /\ occurrences' = occurrences \cup
                       {[series |-> s, at |-> seen[x].at, task |-> seen[x].id]}
             ELSE task' = edited /\ UNCHANGED <<nextSeq, occurrences>>
  BY DEF CommitUpdate
<1>6. series' \in [Series -> Schedule]
  <2>1. CASE s = None
    BY <2>1, <1>5 DEF TypeOK, TablesTypeOK
  <2>2. CASE s # None
    <3>1. s \in Series
      BY <2>2, ScheduleRowsType
    <3>2. CommittedRow(x, s) \in Schedule
      BY <1>1, <3>1, ScheduleRowType
    <3> QED BY <2>2, <3>1, <3>2, <1>5 DEF TypeOK, TablesTypeOK
  <2> QED BY <2>1, <2>2
<1>7. CASE seen[x].run = "next"
  <2>1. NewTask("NOT_STARTED", seen[x].at, seen[x].seq) \in Row
    BY <1>1 DEF NewTask, Row, Status, Reading
  <2>2. task' \in [Task -> Row]
    BY <1>3, <1>5, <1>7, <2>1
  <2>3. nextSeq' \in Nat \ {0}
    BY <1>1, <1>5, <1>7 DEF Reading
  <2>4. s \in Series
    <3>1. None \notin ScheduleRows(x)
      BY <1>7, ConstantsAssumption DEF RecurInv, ScheduleRows, AttachedTo, Unused
    <3> QED BY <3>1, <1>5, ScheduleRowsType
  <2>5. occurrences' \subseteq [series : Series, at : Time, task : Task]
    BY <1>1, <1>5, <1>7, <2>4 DEF TypeOK, TablesTypeOK, Reading
  <2> QED BY <1>2, <1>4, <1>6, <2>2, <2>3, <2>5 DEF TypeOK, TablesTypeOK
<1>8. CASE seen[x].run # "next"
  BY <1>2, <1>3, <1>4, <1>5, <1>6, <1>8 DEF TypeOK, TablesTypeOK
<1> QED BY <1>7, <1>8

LEMMA SubmitsType ==
  ASSUME TypeOK, NEW x \in Txn,
         SubmitCreate(x) \/ SubmitUpdate(x) \/ SubmitDelete(x)
  PROVE  TypeOK'
<1>1. now \in 0..Horizon
  BY DEF TypeOK, TransactionsTypeOK
<1>2. CASE SubmitCreate(x)
  <2>1. PICK status \in RequestStatus \ {"ARCHIVED"}, due \in RequestDue,
             deps \in RequestDeps, sched \in RequestSchedule :
          Submit(x, Request("create", None, 0, status, due, deps, sched), "check")
    BY <1>2 DEF SubmitCreate
  <2>2. Request("create", None, 0, status, due, deps, sched) \in Requests
    BY <1>1, ConstantsAssumption, RequestType
  <2> QED BY <2>1, <2>2, SubmitType
<1>3. CASE SubmitUpdate(x)
  <2>1. PICK t \in Task, status \in RequestStatus, due \in RequestDue,
             deps \in RequestDeps, sched \in RequestSchedule :
          \E v \in 1..task[t].version :
            Submit(x, Request("update", t, v, status, due, deps, sched), "read")
    BY <1>3 DEF SubmitUpdate
  <2>2. PICK v \in 1..task[t].version :
          Submit(x, Request("update", t, v, status, due, deps, sched), "read")
    BY <2>1
  <2>3. v \in Nat
    BY DEF TypeOK, TablesTypeOK, Row
  <2>4. Request("update", t, v, status, due, deps, sched) \in Requests
    BY <1>1, <2>3, ConstantsAssumption, RequestType
  <2>5. Request("update", t, v, status, due, deps, sched).task = t
    BY DEF Request
  <2> QED BY <2>2, <2>4, <2>5, SubmitType
<1>4. CASE SubmitDelete(x)
  <2>1. PICK t \in Task : \E v \in 1..task[t].version :
          Submit(x, Request("delete", t, v, "NOT_STARTED", 0, {}, "keep"), "visible")
    BY <1>4 DEF SubmitDelete
  <2>2. PICK v \in 1..task[t].version :
          Submit(x, Request("delete", t, v, "NOT_STARTED", 0, {}, "keep"), "visible")
    BY <2>1
  <2>3. v \in Nat
    BY DEF TypeOK, TablesTypeOK, Row
  <2>4. Request("delete", t, v, "NOT_STARTED", 0, {}, "keep") \in Requests
    BY <1>1, <2>3, RequestType DEF Status, ScheduleInput
  <2>5. Request("delete", t, v, "NOT_STARTED", 0, {}, "keep").task = t
    BY DEF Request
  <2> QED BY <2>2, <2>4, <2>5, SubmitType
<1> QED BY <1>2, <1>3, <1>4

(* The statements of an update or a create before its commit.                 *)
LEMMA StatementType ==
  ASSUME TypeOK, NEW x \in Txn,
         \/ CheckCreate(x) \/ TakeSequence(x) \/ ReadExisting(x) \/ ReadEdges(x)
         \/ LockBoardGraph(x) \/ CheckCycle(x) \/ CheckGate(x) \/ WriteTask(x)
         \/ ReadVisible(x)
  PROVE  TypeOK'
<1> DEFINE t == req[x].task
<1>1. /\ seen[x] \in Reading /\ held[x] \in SUBSET (Task \cup {Board})
      /\ held' = held => held' = [held EXCEPT ![x] = held[x]]
      /\ seen' = seen => seen' = [seen EXCEPT ![x] = seen[x]]
      /\ pc[x] \in WorksOnTask => t \in Task
      /\ seen[x].run = "next" => seen[x].id \in Task /\ seen[x].at # 0
  BY DEF TypeOK, TransactionsTypeOK, TargetsOK
<1>2. CASE Answer(x)
  BY <1>2, AnswerType
<1>3. CASE CheckCreate(x) /\ ~Answer(x)
  BY <1>3, ContinueType DEF CheckCreate, Labels, WorksOnTask
<1>4. CASE TakeSequence(x)
  <2>1. PICK g \in Task : seen' = [seen EXCEPT ![x].seq = nextSeq, ![x].id = g]
    BY <1>4 DEF TakeSequence
  <2> DEFINE s == [seen[x] EXCEPT !.seq = nextSeq, !.id = g]
  <2>2. seen' = [seen EXCEPT ![x] = s]
    BY <2>1
  <2>3. s \in Reading /\ s.id = g /\ s.run = seen[x].run /\ s.at = seen[x].at
    BY <1>1 DEF Reading, TypeOK, TablesTypeOK
  <2> HIDE DEF s
  <2>4. Proceed(x, "insert") /\ held' = [held EXCEPT ![x] = held[x] \cup {Board}]
    BY <1>4 DEF TakeSequence, TakeBoard
  <2>5. "insert" \in Labels /\ "insert" \notin WorksOnTask
    BY DEF Labels, WorksOnTask
  <2>6. held[x] \cup {Board} \in SUBSET (Task \cup {Board})
    BY <1>1
  <2> QED BY <1>1, <2>2, <2>3, <2>4, <2>5, <2>6, ProceedType
<1>5. CASE ReadExisting(x) /\ ~Answer(x)
  <2>1. t \in Task
    BY <1>1, <1>5 DEF ReadExisting, WorksOnTask
  <2> DEFINE s == [seen[x] EXCEPT !.status = task[t].status, !.version = task[t].version]
  <2>2. seen' = [seen EXCEPT ![x] = s]
    BY <1>5 DEF ReadExisting
  <2>3. s \in Reading /\ s.id = seen[x].id /\ s.run = seen[x].run /\ s.at = seen[x].at
    BY <1>1, <2>1 DEF Reading, TypeOK, TablesTypeOK, Row
  <2> HIDE DEF s
  <2>4. Proceed(x, "edges") /\ held' = [held EXCEPT ![x] = held[x]]
    BY <1>1, <1>5 DEF ReadExisting
  <2> QED BY <1>1, <2>1, <2>2, <2>3, <2>4, ProceedType DEF Labels
<1>6. CASE ReadEdges(x) /\ ~Answer(x)
  <2>1. t \in Task
    BY <1>1, <1>6 DEF ReadEdges, WorksOnTask
  <2> DEFINE s == [seen[x] EXCEPT !.deps = Deps(t)]
  <2>2. seen' = [seen EXCEPT ![x] = s]
    BY <1>6 DEF ReadEdges
  <2>3. s \in Reading /\ s.id = seen[x].id /\ s.run = seen[x].run /\ s.at = seen[x].at
    BY <1>1, <2>1 DEF Reading, Deps, Prerequisites
  <2> HIDE DEF s
  <2>4. /\ held' = [held EXCEPT ![x] = held[x]]
        /\ Proceed(x, "gate") \/ Proceed(x, "lock")
    BY <1>1, <1>6 DEF ReadEdges
  <2> QED BY <1>1, <2>1, <2>2, <2>3, <2>4, ProceedType DEF Labels
<1>7. CASE LockBoardGraph(x)
  <2>1. t \in Task
    BY <1>1, <1>7 DEF LockBoardGraph, WorksOnTask
  <2>2. /\ held' = [held EXCEPT ![x] = held[x] \cup {Board}]
        /\ seen' = [seen EXCEPT ![x] = seen[x]]
        /\ Proceed(x, "cycle")
    BY <1>1, <1>7 DEF LockBoardGraph, TakeBoard
  <2>3. held[x] \cup {Board} \in SUBSET (Task \cup {Board})
    BY <1>1
  <2> QED BY <1>1, <2>1, <2>2, <2>3, ProceedType DEF Labels
<1>8. CASE CheckCycle(x) /\ ~Answer(x)
  BY <1>1, <1>8, ContinueType DEF CheckCycle, Labels, WorksOnTask
<1>9. CASE CheckGate(x) /\ ~Answer(x)
  BY <1>1, <1>9, ContinueType DEF CheckGate, Labels, WorksOnTask
<1>10. CASE WriteTask(x) /\ ~Answer(x)
  <2>1. t \in Task
    BY <1>1, <1>10 DEF WriteTask, WorksOnTask
  <2>2. /\ held' = [held EXCEPT ![x] = held[x] \cup {t}]
        /\ seen' = [seen EXCEPT ![x] = seen[x]]
        /\ Proceed(x, "generate") \/ Proceed(x, "apply")
    BY <1>1, <1>10 DEF WriteTask
  <2>3. held[x] \cup {t} \in SUBSET (Task \cup {Board})
    BY <1>1, <2>1
  <2> QED BY <1>1, <2>1, <2>2, <2>3, ProceedType DEF Labels
<1>11. CASE ReadVisible(x) /\ ~Answer(x)
  BY <1>1, <1>11, ContinueType DEF ReadVisible, Labels, WorksOnTask
<1> QED BY <1>2, <1>3, <1>4, <1>5, <1>6, <1>7, <1>8, <1>9, <1>10, <1>11

LEMMA GenerateType ==
  ASSUME TypeOK, NEW x \in Txn, GenerateNextOccurrence(x)
  PROVE  TypeOK'
<1> DEFINE t == req[x].task
           Decision(run, at, g, n) ==
             [seen[x] EXCEPT !.run = run, !.at = at, !.id = g, !.seq = n]
<1>1. /\ seen[x] \in Reading /\ held[x] \in SUBSET (Task \cup {Board})
      /\ held' = held => held' = [held EXCEPT ![x] = held[x]]
      /\ t \in Task /\ Proceed(x, "apply") /\ "apply" \in Labels
  BY DEF TypeOK, TransactionsTypeOK, TargetsOK, GenerateNextOccurrence, WorksOnTask, Labels
<1>2. ASSUME NEW run \in {"none", "end"}, Decide(x, run, 0, None, 0), UNCHANGED held
      PROVE  TypeOK'
  <2> DEFINE d == Decision(run, 0, None, 0)
  <2>1. d \in Reading /\ d.run # "next"
    BY <1>1 DEF Reading
  <2>2. seen' = [seen EXCEPT ![x] = d]
    BY <1>2 DEF Decide
  <2> HIDE DEF d
  <2>3. held' = [held EXCEPT ![x] = held[x]]
    BY <1>1, <1>2
  <2> QED BY <1>1, <2>1, <2>2, <2>3, ProceedType
<1>3. ASSUME NEW s \in ScheduleRows(x), NEW g \in Task, Recurs(x, s),
             ScheduledAt(x, s) # 0, Decide(x, "next", ScheduledAt(x, s), g, nextSeq),
             held' = [held EXCEPT ![x] = held[x] \cup {Board}]
      PROVE  TypeOK'
  <2>1. s \in Series
    BY <1>3, ScheduleRowsType DEF Recurs
  <2>2. ScheduledAt(x, s) \in Time \cup {0}
    BY <1>1, <2>1, ScheduledAtType
  <2> DEFINE d == Decision("next", ScheduledAt(x, s), g, nextSeq)
  <2>3. d \in Reading /\ d.id = g /\ d.at = ScheduledAt(x, s)
    BY <1>1, <2>2 DEF Reading, TypeOK, TablesTypeOK
  <2>4. seen' = [seen EXCEPT ![x] = d]
    BY <1>3 DEF Decide
  <2> HIDE DEF d
  <2>5. held[x] \cup {Board} \in SUBSET (Task \cup {Board})
    BY <1>1
  <2> QED BY <1>1, <1>3, <2>3, <2>4, <2>5, ProceedType
<1> HIDE DEF Decision
<1>4. PICK s \in ScheduleRows(x) :
        \/ Decide(x, "none", 0, None, 0) /\ UNCHANGED held
        \/ Decide(x, "end", 0, None, 0) /\ UNCHANGED held
        \/ /\ Recurs(x, s) /\ ScheduledAt(x, s) # 0
           /\ held' = [held EXCEPT ![x] = @ \cup {Board}]
           /\ \E g \in Task : Decide(x, "next", ScheduledAt(x, s), g, nextSeq)
  BY DEF GenerateNextOccurrence, TakeBoard
<1>5. CASE Decide(x, "none", 0, None, 0) /\ UNCHANGED held
  BY <1>2, <1>5
<1>6. CASE Decide(x, "end", 0, None, 0) /\ UNCHANGED held
  BY <1>2, <1>6
<1>7. CASE /\ Recurs(x, s) /\ ScheduledAt(x, s) # 0
           /\ held' = [held EXCEPT ![x] = @ \cup {Board}]
           /\ \E g \in Task : Decide(x, "next", ScheduledAt(x, s), g, nextSeq)
  BY <1>3, <1>7
<1> QED BY <1>4, <1>5, <1>6, <1>7

LEMMA RetryType ==
  ASSUME TypeOK, NEW x \in Txn, BreakDeadlock(x)
  PROVE  TypeOK'
<1>1. CASE Answer(x)
  BY <1>1, AnswerType
<1>2. CASE ~Answer(x)
  <2>1. /\ pc[x] \in WorksOnTask
        /\ tries[x] < MaxTries /\ tries' = [tries EXCEPT ![x] = @ + 1]
        /\ Goto(x, "read") /\ seen' = [seen EXCEPT ![x] = NothingSeen]
        /\ held' = [held EXCEPT ![x] = {}]
        /\ UNCHANGED <<tables, now, req>>
    BY <1>2 DEF BreakDeadlock, MayRetry, Released, WaitsForBoard, WaitsForRow, WorksOnTask
  <2>2. TablesTypeOK'
    BY <2>1 DEF TypeOK, TablesTypeOK, tables
  <2>3. TransactionsTypeOK'
    BY <2>1, NothingSeenType, ConstantsAssumption
    DEF TypeOK, TransactionsTypeOK, Goto, Labels
  <2>4. TargetsOK'
    BY <2>1 DEF TypeOK, TransactionsTypeOK, TargetsOK, Goto, WorksOnTask, NothingSeen
  <2> QED BY <2>2, <2>3, <2>4 DEF TypeOK
<1> QED BY <1>1, <1>2

(* A write to one row of the task table that leaves the rest of the tables.    *)
LEMMA RemovalType ==
  ASSUME TypeOK, NEW t \in Task, NEW flag \in BOOLEAN,
         task' = [task EXCEPT ![t].deleted = flag, ![t].version = @ + 1],
         UNCHANGED <<edges, nextSeq, series, occurrences>>
  PROVE  TablesTypeOK'
<1> DEFINE v == task[t].version + 1
<1>1. task \in [Task -> Row] /\ task[t] \in Row /\ v \in Nat
  BY DEF TypeOK, TablesTypeOK, Row
<1>2. task' = [task EXCEPT ![t] = [task[t] EXCEPT !.deleted = flag, !.version = v]]
  BY <1>1
<1> HIDE DEF v
<1>3. [task[t] EXCEPT !.deleted = flag, !.version = v] \in Row
  BY <1>1 DEF Row
<1>4. task' \in [Task -> Row]
  BY <1>1, <1>2, <1>3
<1> QED BY <1>4 DEF TypeOK, TablesTypeOK

LEMMA RemoveType ==
  ASSUME TypeOK, NEW x \in Txn, Remove(x)
  PROVE  TypeOK'
<1>1. req[x].task \in Task /\ Finish(x, {req[x].task})
  BY DEF TypeOK, TargetsOK, WorksOnTask, Remove
<1>2. TablesTypeOK'
  BY <1>1, RemovalType DEF Remove
<1> QED BY <1>1, <1>2, FinishType DEF TypeOK

LEMMA RestoreType ==
  ASSUME TypeOK, NEW t \in Task, Restore(t)
  PROVE  TypeOK'
<1>1. TablesTypeOK'
  BY RemovalType DEF Restore
<1>2. \A y \in Txn : /\ Noted(y, {t}) \in Reading
                     /\ Noted(y, {t}).run = seen[y].run
                     /\ Noted(y, {t}).id = seen[y].id
                     /\ Noted(y, {t}).at = seen[y].at
  BY NotedType
<1>3. TransactionsTypeOK'
  BY <1>2 DEF Restore, TypeOK, TransactionsTypeOK
<1>4. TargetsOK'
  BY <1>2 DEF Restore, TypeOK, TargetsOK
<1> QED BY <1>1, <1>3, <1>4 DEF TypeOK

(* Every step keeps the types, given that a transaction under way that decided *)
(* on a successor still has the schedule it decided it from.                    *)
LEMMA TypeNext ==
  ASSUME TypeOK, [Next]_vars, \A x \in Txn : RecurInv(x)
  PROVE  TypeOK'
<1>1. CASE UNCHANGED vars
  BY <1>1 DEF vars, TypeOK, TablesTypeOK, TransactionsTypeOK, TargetsOK
<1>2. CASE Tick
  <2>1. now' \in 0..Horizon
    BY <1>2, ConstantsAssumption DEF Tick, TypeOK, TransactionsTypeOK
  <2> QED BY <1>2, <2>1
          DEF Tick, tables, TypeOK, TablesTypeOK, TransactionsTypeOK, TargetsOK
<1>3. ASSUME NEW t \in Task, Restore(t) PROVE TypeOK'
  BY <1>3, RestoreType
<1>4. ASSUME NEW x \in Txn,
             SubmitCreate(x) \/ SubmitUpdate(x) \/ SubmitDelete(x)
               \/ Step(x) \/ Abandon(x) \/ BreakDeadlock(x)
      PROVE  TypeOK'
  <2>1. CASE SubmitCreate(x) \/ SubmitUpdate(x) \/ SubmitDelete(x)
    BY <2>1, SubmitsType
  <2>2. CASE Abandon(x)
    BY <2>2, AnswerType DEF Abandon
  <2>3. CASE BreakDeadlock(x)
    BY <2>3, RetryType
  <2>4. CASE Step(x)
    BY <1>4, <2>4, StatementType, CommitCreateType, GenerateType, CommitUpdateType,
       RemoveType DEF Step
  <2> QED BY <1>4, <2>1, <2>2, <2>3, <2>4
<1> QED BY <1>1, <1>2, <1>3, <1>4 DEF Next
==============================================================================
