----------------------- MODULE TaskBoardSafety_proofs ------------------------
(****************************************************************************)
(* IInv is inductive, hence the safety properties of TaskBoard hold for any *)
(* number of tasks, schedules and concurrent transactions. Each kind of     *)
(* step is shown to keep what the transactions rely on: its own by what the *)
(* statement just read or locked, the others' by the locks they hold.       *)
(* From IInv it follows that TaskBoard implements TaskLedger.               *)
(****************************************************************************)
EXTENDS TaskBoard_proofs

(* What a step of one transaction leaves alone of another.                    *)
Same(y) ==
  /\ pc'[y] = pc[y] /\ req'[y] = req[y] /\ held'[y] = held[y]
  /\ seen'[y].status = seen[y].status /\ seen'[y].version = seen[y].version
  /\ seen'[y].deps = seen[y].deps /\ seen'[y].seq = seen[y].seq
  /\ seen'[y].id = seen[y].id /\ seen'[y].run = seen[y].run

LEMMA NotedSame ==
  ASSUME TypeOK, NEW y \in Txn, NEW rows
  PROVE  LET s == Noted(y, rows)
         IN  /\ s.status = seen[y].status /\ s.version = seen[y].version
             /\ s.deps = seen[y].deps /\ s.seq = seen[y].seq
             /\ s.id = seen[y].id /\ s.run = seen[y].run
<1>1. seen[y] \in Reading
  BY DEF TypeOK, TransactionsTypeOK
<1> DEFINE more == seen[y].touched \cup (rows \cap req[y].deps)
<1>2. Noted(y, rows) \in {seen[y], [seen[y] EXCEPT !.touched = more]}
  BY DEF Noted
<1> HIDE DEF more
<1> QED BY <1>1, <1>2 DEF Reading

LEMMA FinishSame ==
  ASSUME TypeOK, NEW x \in Txn, NEW rows, Finish(x, rows), NEW y \in Txn, y # x
  PROVE  Same(y)
BY NotedSame DEF Finish, Released, Goto, Same, TypeOK, TransactionsTypeOK

LEMMA IdleInv ==
  ASSUME NEW x \in Txn, pc'[x] = "idle", req'[x].sched = "keep", seen'[x].run # "next"
  PROVE  TxnInv(x)'
BY DEF TxnInv, TargetInv, DepsInv, ReadInv, OwnInv, BoardInv, ReserveInv, ReachInv,
       RecurInv, WorksOnTask, Informed, Decided, Acyclical, Owning, Inserting

LEMMA FinishInv ==
  ASSUME TypeOK, NEW x \in Txn, NEW rows, Finish(x, rows), LocksExclusive
  PROVE  TxnInv(x)' /\ LocksExclusive'
<1>1. pc'[x] = "idle" /\ req'[x].sched = "keep" /\ seen'[x].run # "next"
  BY DEF Finish, Goto, NoRequest, NothingSeen, Request, TypeOK, TransactionsTypeOK
<1>2. LocksExclusive'
  BY DEF Finish, Released, LocksExclusive, TypeOK, TransactionsTypeOK
<1> QED BY <1>1, <1>2, IdleInv

(* Another transaction's statements are undisturbed when no table changes.     *)
LEMMA SameInv ==
  ASSUME NEW y \in Txn, Same(y), UNCHANGED tables, TxnInv(y)
  PROVE  TxnInv(y)'
<1> USE DEF Same, tables, Born
<1>1. TargetInv(y)' /\ DepsInv(y)'
  BY DEF TxnInv, TargetInv, DepsInv
<1>2. ReadInv(y)'
  BY DEF TxnInv, ReadInv, Deps
<1>3. OwnInv(y)'
  BY DEF TxnInv, OwnInv
<1>4. BoardInv(y)' /\ ReserveInv(y)'
  BY DEF TxnInv, BoardInv, ReserveInv, Inserting, Added
<1>5. ReachInv(y)'
  BY DEF TxnInv, ReachInv, Added
<1>6. RecurInv(y)'
  BY DEF TxnInv, RecurInv, AttachedTo, Completing
<1> QED BY <1>1, <1>2, <1>3, <1>4, <1>5, <1>6 DEF TxnInv

LEMMA QuietStep ==
  ASSUME IInv, UNCHANGED tables, TypeOK', LocksExclusive', NEW x \in Txn, TxnInv(x)',
         \A y \in Txn : y # x => Same(y)
  PROVE  IInv'
<1>1. TablesInv'
  BY DEF IInv, TablesInv, tables, EdgesBorn, UnusedDetached, Unused, Born,
         DependencyGraphAcyclic, SequenceDense
<1>2. \A y \in Txn : TxnInv(y)'
  BY SameInv DEF IInv
<1> QED BY <1>1, <1>2 DEF IInv

-----------------------------------------------------------------------------
(* Statements that write no table *)

LEMMA AnswerInv ==
  ASSUME IInv, NEW x \in Txn, Answer(x)
  PROVE  IInv'
<1>1. TypeOK' /\ UNCHANGED tables /\ Finish(x, {})
  BY AnswerType DEF IInv, Answer
<1>2. TxnInv(x)' /\ LocksExclusive'
  BY <1>1, FinishInv DEF IInv
<1>3. \A y \in Txn : y # x => Same(y)
  BY <1>1, FinishSame DEF IInv
<1> QED BY <1>1, <1>2, <1>3, QuietStep

LEMMA SubmitInv ==
  ASSUME IInv, TypeOK', NEW x \in Txn, NEW r, NEW first, Submit(x, r, first),
         first \in {"check", "read", "visible"},
         first # "check" =>
           /\ Born(r.task) /\ r.version <= task[r.task].version /\ r.task \notin r.deps
  PROVE  IInv'
<1>1. /\ pc'[x] = first /\ req'[x] = r /\ UNCHANGED <<tables, seen, held>>
      /\ pc[x] = "idle" /\ Parses(r)
  BY DEF Submit, IInv, TypeOK, TransactionsTypeOK
<1>2. \A y \in Txn : y # x => Same(y)
  BY DEF Submit, Same, IInv, TypeOK, TransactionsTypeOK
<1>3. LocksExclusive'
  BY <1>1 DEF IInv, LocksExclusive
<1>4. TargetInv(x)'
  BY <1>1 DEF TargetInv, WorksOnTask, tables, Born
<1>5. DepsInv(x)' /\ ReadInv(x)' /\ OwnInv(x)' /\ BoardInv(x)' /\ ReserveInv(x)' /\ ReachInv(x)'
  BY <1>1 DEF DepsInv, ReadInv, OwnInv, BoardInv, ReserveInv, ReachInv,
              Informed, Decided, Acyclical, Owning, Inserting
<1>6. RecurInv(x)'
  BY <1>1 DEF RecurInv, Parses, IInv, TxnInv
<1>7. TxnInv(x)'
  BY <1>4, <1>5, <1>6 DEF TxnInv
<1> QED BY <1>1, <1>2, <1>3, <1>7, QuietStep

LEMMA SubmitsInv ==
  ASSUME IInv, TypeOK', NEW x \in Txn,
         SubmitCreate(x) \/ SubmitUpdate(x) \/ SubmitDelete(x)
  PROVE  IInv'
<1>1. CASE SubmitCreate(x)
  BY <1>1, SubmitInv DEF SubmitCreate
<1>2. CASE SubmitUpdate(x)
  <2>1. PICK t \in Task, status \in RequestStatus, due \in RequestDue,
             deps \in RequestDeps, sched \in RequestSchedule :
          /\ Born(t) /\ t \notin deps
          /\ \E v \in 1..task[t].version :
               Submit(x, Request("update", t, v, status, due, deps, sched), "read")
    BY <1>2 DEF SubmitUpdate
  <2>2. PICK v \in 1..task[t].version :
          Submit(x, Request("update", t, v, status, due, deps, sched), "read")
    BY <2>1
  <2> DEFINE r == Request("update", t, v, status, due, deps, sched)
  <2>3. r.task = t /\ r.version = v /\ r.deps = deps
    BY DEF Request
  <2>4. v <= task[t].version
    BY DEF IInv, TypeOK, TablesTypeOK, Row
  <2> HIDE DEF r
  <2> QED BY <2>1, <2>2, <2>3, <2>4, SubmitInv DEF r
<1>3. CASE SubmitDelete(x)
  <2>1. PICK t \in Task :
          /\ Born(t)
          /\ \E v \in 1..task[t].version :
               Submit(x, Request("delete", t, v, "NOT_STARTED", 0, {}, "keep"), "visible")
    BY <1>3 DEF SubmitDelete
  <2>2. PICK v \in 1..task[t].version :
          Submit(x, Request("delete", t, v, "NOT_STARTED", 0, {}, "keep"), "visible")
    BY <2>1
  <2> DEFINE r == Request("delete", t, v, "NOT_STARTED", 0, {}, "keep")
  <2>3. r.task = t /\ r.version = v /\ r.deps = {}
    BY DEF Request
  <2>4. v <= task[t].version
    BY DEF IInv, TypeOK, TablesTypeOK, Row
  <2> HIDE DEF r
  <2> QED BY <2>1, <2>2, <2>3, <2>4, SubmitInv DEF r
<1> QED BY <1>1, <1>2, <1>3

(* The frame of a statement: only its own transaction moves.                   *)
LEMMA ProceedSame ==
  ASSUME TypeOK, NEW x \in Txn, NEW label, Proceed(x, label),
         NEW s, seen' = [seen EXCEPT ![x] = s],
         NEW h, held' = [held EXCEPT ![x] = h]
  PROVE  /\ pc'[x] = label /\ req'[x] = req[x] /\ seen'[x] = s /\ held'[x] = h
         /\ UNCHANGED <<tables, req>>
         /\ \A y \in Txn : y # x => Same(y)
BY DEF Proceed, Goto, Same, TypeOK, TransactionsTypeOK

LEMMA ContinueSame ==
  ASSUME TypeOK, NEW x \in Txn, NEW label, Proceed(x, label), UNCHANGED <<seen, held>>
  PROVE  /\ pc'[x] = label /\ UNCHANGED <<tables, req>>
         /\ \A y \in Txn : y # x => Same(y)
BY DEF Proceed, Goto, Same, TypeOK, TransactionsTypeOK

LEMMA CheckCreateInv ==
  ASSUME IInv, TypeOK', NEW x \in Txn, CheckCreate(x)
  PROVE  IInv'
<1>1. CASE Answer(x)
  BY <1>1, AnswerInv
<1>2. CASE ~Answer(x)
  <2>1. /\ pc[x] = "check" /\ Proceed(x, "sequence") /\ UNCHANGED <<seen, held>>
        /\ \A d \in req[x].deps : Born(d)
    BY <1>2 DEF CheckCreate
  <2>2. /\ pc'[x] = "sequence" /\ UNCHANGED <<tables, req>>
        /\ \A y \in Txn : y # x => Same(y)
    BY <2>1, ContinueSame DEF IInv
  <2>3. LocksExclusive'
    BY <2>1 DEF IInv, LocksExclusive
  <2>4. TxnInv(x)
    BY DEF IInv
  <2>5. DepsInv(x)'
    BY <2>1, <2>2 DEF DepsInv, tables, Born
  <2>6. RecurInv(x)'
    BY <2>1, <2>2, <2>4 DEF TxnInv, RecurInv
  <2>7. TargetInv(x)' /\ ReadInv(x)' /\ OwnInv(x)' /\ BoardInv(x)' /\ ReserveInv(x)' /\ ReachInv(x)'
    BY <2>2 DEF TargetInv, ReadInv, OwnInv, BoardInv, ReserveInv, ReachInv,
                WorksOnTask, Informed, Acyclical, Owning, Inserting
  <2> QED BY <2>2, <2>3, <2>5, <2>6, <2>7, QuietStep DEF TxnInv
<1> QED BY <1>1, <1>2

(* The board lock keeps nextTaskSequence still until the new task is in.       *)
LEMMA TakeSequenceInv ==
  ASSUME IInv, TypeOK', NEW x \in Txn, TakeSequence(x)
  PROVE  IInv'
<1>1. PICK t \in Task : ~Born(t) /\ seen' = [seen EXCEPT ![x].seq = nextSeq, ![x].id = t]
  BY DEF TakeSequence
<1> DEFINE s == [seen[x] EXCEPT !.seq = nextSeq, !.id = t]
<1>2. /\ s.seq = nextSeq /\ s.id = t /\ s.run = seen[x].run
      /\ seen' = [seen EXCEPT ![x] = s]
  BY <1>1 DEF IInv, TypeOK, TransactionsTypeOK, Reading
<1> HIDE DEF s
<1>3. /\ pc[x] = "sequence" /\ Proceed(x, "insert")
      /\ held' = [held EXCEPT ![x] = held[x] \cup {Board}] /\ LockFree(x, Board)
  BY DEF TakeSequence, TakeBoard
<1>4. /\ pc'[x] = "insert" /\ seen'[x] = s /\ held'[x] = held[x] \cup {Board}
      /\ UNCHANGED <<tables, req>>
      /\ \A y \in Txn : y # x => Same(y)
  BY <1>2, <1>3, ProceedSame DEF IInv
<1>5. LocksExclusive'
  BY <1>3, <1>4 DEF IInv, LocksExclusive, LockFree, Same
<1>6. TxnInv(x)
  BY DEF IInv
<1>7. DepsInv(x)' /\ ReserveInv(x)' /\ BoardInv(x)' /\ RecurInv(x)'
  BY <1>1, <1>2, <1>3, <1>4, <1>6
  DEF TxnInv, DepsInv, ReserveInv, BoardInv, RecurInv, tables, Born
<1>8. TargetInv(x)' /\ ReadInv(x)' /\ OwnInv(x)' /\ ReachInv(x)'
  BY <1>4 DEF TargetInv, ReadInv, OwnInv, ReachInv, WorksOnTask, Informed, Acyclical, Owning
<1> QED BY <1>4, <1>5, <1>7, <1>8, QuietStep DEF TxnInv

LEMMA ReadExistingInv ==
  ASSUME IInv, TypeOK', NEW x \in Txn, ReadExisting(x)
  PROVE  IInv'
<1> DEFINE t == req[x].task
           s == [seen[x] EXCEPT !.status = task[t].status, !.version = task[t].version]
<1>1. CASE Answer(x)
  BY <1>1, AnswerInv
<1>2. CASE ~Answer(x)
  <2>1. /\ pc[x] = "read" /\ Proceed(x, "edges")
        /\ seen' = [seen EXCEPT ![x] = s] /\ held' = held
    BY <1>2 DEF ReadExisting
  <2>2. s.status = task[t].status /\ s.version = task[t].version /\ s.run = seen[x].run
    BY DEF IInv, TypeOK, TransactionsTypeOK, Reading
  <2> HIDE DEF s
  <2>3. held' = [held EXCEPT ![x] = held[x]]
    BY <2>1 DEF IInv, TypeOK, TransactionsTypeOK
  <2>4. /\ pc'[x] = "edges" /\ seen'[x] = s /\ UNCHANGED <<tables, req>>
        /\ \A y \in Txn : y # x => Same(y)
    BY <2>1, <2>3, ProceedSame DEF IInv
  <2>5. LocksExclusive'
    BY <2>1 DEF IInv, LocksExclusive
  <2>6. TxnInv(x) /\ task[t].version \in Nat
    BY <2>1 DEF IInv, TypeOK, TargetsOK, TablesTypeOK, Row, WorksOnTask
  <2>7. TargetInv(x)'
    BY <2>1, <2>4, <2>6 DEF TxnInv, TargetInv, WorksOnTask, tables, Born
  <2>8. ReadInv(x)'
    BY <2>1, <2>2, <2>4, <2>6 DEF TxnInv, TargetInv, ReadInv, WorksOnTask, Decided, tables
  <2>9. RecurInv(x)'
    BY <2>1, <2>2, <2>4, <2>6 DEF TxnInv, RecurInv
  <2>10. DepsInv(x)' /\ OwnInv(x)' /\ BoardInv(x)' /\ ReserveInv(x)' /\ ReachInv(x)'
    BY <2>4 DEF DepsInv, OwnInv, BoardInv, ReserveInv, ReachInv,
                Informed, Decided, Acyclical, Owning, Inserting
  <2> QED BY <2>4, <2>5, <2>7, <2>8, <2>9, <2>10, QuietStep DEF TxnInv
<1> QED BY <1>1, <1>2

LEMMA NothingReaches ==
  ASSUME NEW E, NEW t
  PROVE  ~Reaches(E, Task, {}, t)
<1>1. {} \in SUBSET Task /\ Closed(E, {}) /\ t \notin {}
  BY DEF Closed
<1> QED BY <1>1 DEF Reaches

(* Either nothing is added, and nothing can close a cycle, or the lock is next. *)
LEMMA ReadEdgesInv ==
  ASSUME IInv, TypeOK', NEW x \in Txn, ReadEdges(x)
  PROVE  IInv'
<1> DEFINE t == req[x].task
           s == [seen[x] EXCEPT !.deps = Deps(t)]
<1>1. CASE Answer(x)
  BY <1>1, AnswerInv
<1>2. CASE ~Answer(x)
  <2>1. /\ pc[x] = "edges" /\ seen' = [seen EXCEPT ![x] = s] /\ held' = held
        /\ \A d \in req[x].deps : Born(d)
    BY <1>2 DEF ReadEdges
  <2>2. \/ Proceed(x, "lock")
        \/ Proceed(x, "gate") /\ req[x].deps \subseteq Deps(t)
    BY <1>2 DEF ReadEdges
  <2>3. /\ s.status = seen[x].status /\ s.version = seen[x].version
        /\ s.run = seen[x].run /\ s.deps = Deps(t)
    BY DEF IInv, TypeOK, TransactionsTypeOK, Reading
  <2> HIDE DEF s
  <2>4. held' = [held EXCEPT ![x] = held[x]]
    BY <2>1 DEF IInv, TypeOK, TransactionsTypeOK
  <2>5. /\ \/ pc'[x] = "lock"
           \/ pc'[x] = "gate" /\ req[x].deps \subseteq Deps(t)
        /\ seen'[x] = s /\ UNCHANGED <<tables, req>>
        /\ \A y \in Txn : y # x => Same(y)
    BY <2>1, <2>2, <2>4, ProceedSame DEF IInv
  <2>6. LocksExclusive'
    BY <2>1 DEF IInv, LocksExclusive
  <2>7. TxnInv(x)
    BY DEF IInv
  <2>8. TargetInv(x)' /\ DepsInv(x)'
    BY <2>1, <2>5, <2>7 DEF TxnInv, TargetInv, DepsInv, WorksOnTask, tables, Born
  <2>9. ReadInv(x)'
    BY <2>1, <2>3, <2>5, <2>7 DEF TxnInv, ReadInv, Informed, Decided, tables, Deps
  <2>10. RecurInv(x)'
    BY <2>1, <2>3, <2>5, <2>7 DEF TxnInv, RecurInv
  <2>11. pc'[x] = "gate" => Added(x)' = {}
    BY <2>3, <2>5 DEF Added
  <2>12. ReachInv(x)' /\ BoardInv(x)'
    BY <2>5, <2>11, NothingReaches DEF ReachInv, BoardInv, Acyclical, Inserting
  <2>13. OwnInv(x)' /\ ReserveInv(x)'
    BY <2>5 DEF OwnInv, ReserveInv, Owning, Inserting
  <2> QED BY <2>5, <2>6, <2>8, <2>9, <2>10, <2>12, <2>13, QuietStep DEF TxnInv
<1> QED BY <1>1, <1>2

LEMMA LockBoardGraphInv ==
  ASSUME IInv, TypeOK', NEW x \in Txn, LockBoardGraph(x)
  PROVE  IInv'
<1>1. /\ pc[x] = "lock" /\ Proceed(x, "cycle") /\ LockFree(x, Board)
      /\ held' = [held EXCEPT ![x] = held[x] \cup {Board}]
      /\ seen' = [seen EXCEPT ![x] = seen[x]]
  BY DEF LockBoardGraph, TakeBoard, IInv, TypeOK, TransactionsTypeOK
<1>2. /\ pc'[x] = "cycle" /\ seen'[x] = seen[x] /\ held'[x] = held[x] \cup {Board}
      /\ UNCHANGED <<tables, req>>
      /\ \A y \in Txn : y # x => Same(y)
  BY <1>1, ProceedSame DEF IInv
<1>3. LocksExclusive'
  BY <1>1, <1>2 DEF IInv, LocksExclusive, LockFree, Same
<1>4. TxnInv(x)
  BY DEF IInv
<1>5. TargetInv(x)' /\ DepsInv(x)'
  BY <1>1, <1>2, <1>4 DEF TxnInv, TargetInv, DepsInv, WorksOnTask, Informed, Decided, tables, Born
<1>6. ReadInv(x)'
  BY <1>1, <1>2, <1>4 DEF TxnInv, ReadInv, Informed, Decided, tables, Deps
<1>7. BoardInv(x)' /\ RecurInv(x)'
  BY <1>1, <1>2, <1>4 DEF TxnInv, BoardInv, RecurInv
<1>8. OwnInv(x)' /\ ReserveInv(x)' /\ ReachInv(x)'
  BY <1>2 DEF OwnInv, ReserveInv, ReachInv, Acyclical, Owning, Inserting
<1> QED BY <1>2, <1>3, <1>5, <1>6, <1>7, <1>8, QuietStep DEF TxnInv

(* A statement that only moves on, within the part of an update that has read. *)
LEMMA InformedContinueInv ==
  ASSUME IInv, TypeOK', NEW x \in Txn, NEW label \in {"gate", "write"},
         pc[x] \in {"cycle", "gate"}, Proceed(x, label), UNCHANGED <<seen, held>>,
         ReachInv(x)', BoardInv(x)'
  PROVE  IInv'
<1>1. /\ pc'[x] = label /\ UNCHANGED <<tables, req>>
      /\ \A y \in Txn : y # x => Same(y)
  BY ContinueSame DEF IInv
<1>2. LocksExclusive'
  BY DEF IInv, LocksExclusive
<1>3. TxnInv(x)
  BY DEF IInv
<1>4. TargetInv(x)' /\ DepsInv(x)'
  BY <1>1, <1>3 DEF TxnInv, TargetInv, DepsInv, WorksOnTask, Informed, Decided, tables, Born
<1>5. ReadInv(x)'
  BY <1>1, <1>3 DEF TxnInv, ReadInv, Informed, Decided, tables, Deps
<1>6. RecurInv(x)'
  BY <1>1, <1>3 DEF TxnInv, RecurInv
<1>7. OwnInv(x)' /\ ReserveInv(x)'
  BY <1>1 DEF OwnInv, ReserveInv, Owning, Inserting
<1> QED BY <1>1, <1>2, <1>4, <1>5, <1>6, <1>7, QuietStep DEF TxnInv

(* The check runs under the board lock, on the edges as they are.              *)
LEMMA CheckCycleInv ==
  ASSUME IInv, TypeOK', NEW x \in Txn, CheckCycle(x)
  PROVE  IInv'
<1>1. CASE Answer(x)
  BY <1>1, AnswerInv
<1>2. CASE ~Answer(x)
  <2>1. /\ pc[x] = "cycle" /\ Proceed(x, "gate") /\ UNCHANGED <<seen, held>>
        /\ ~Reaches(edges, Task, Added(x), req[x].task)
    BY <1>2 DEF CheckCycle
  <2>2. UNCHANGED <<tables, req>>
    BY <2>1, ContinueSame DEF IInv
  <2>3. ReachInv(x)'
    BY <2>1, <2>2 DEF ReachInv, Added, tables
  <2>4. BoardInv(x)'
    BY <2>1 DEF IInv, TxnInv, BoardInv
  <2> QED BY <2>1, <2>3, <2>4, InformedContinueInv
<1> QED BY <1>1, <1>2

LEMMA CheckGateInv ==
  ASSUME IInv, TypeOK', NEW x \in Txn, CheckGate(x)
  PROVE  IInv'
<1>1. CASE Answer(x)
  BY <1>1, AnswerInv
<1>2. CASE ~Answer(x)
  <2>1. pc[x] = "gate" /\ Proceed(x, "write") /\ UNCHANGED <<seen, held>>
    BY <1>2 DEF CheckGate
  <2>2. pc'[x] = "write" /\ UNCHANGED <<tables, req>>
    BY <2>1, ContinueSame DEF IInv
  <2>3. ReachInv(x)' /\ BoardInv(x)'
    BY <2>1, <2>2 DEF IInv, TxnInv, ReachInv, BoardInv, Added, tables, Acyclical, Inserting
  <2> QED BY <2>1, <2>3, InformedContinueInv
<1> QED BY <1>1, <1>2

(* The versioned write: if it wins, the version that was read is the current    *)
(* one, so the reads before it hold, and the row lock keeps them.               *)
LEMMA WriteTaskInv ==
  ASSUME IInv, TypeOK', NEW x \in Txn, WriteTask(x)
  PROVE  IInv'
<1> DEFINE t == req[x].task
<1>1. CASE Answer(x)
  BY <1>1, AnswerInv
<1>2. CASE ~Answer(x)
  <2>1. /\ pc[x] = "write"
        /\ \/ Proceed(x, "generate") /\ Completing(x)
           \/ Proceed(x, "apply")
        /\ LockFree(x, t) /\ task[t].version = req[x].version /\ ~task[t].deleted
        /\ held' = [held EXCEPT ![x] = held[x] \cup {t}]
        /\ seen' = [seen EXCEPT ![x] = seen[x]]
    BY <1>2 DEF WriteTask, VersionMatches, IInv, TypeOK, TransactionsTypeOK
  <2>2. /\ pc'[x] \in {"generate", "apply"} /\ seen'[x] = seen[x]
        /\ pc'[x] = "generate" => Completing(x)
        /\ held'[x] = held[x] \cup {t} /\ UNCHANGED <<tables, req>>
        /\ \A y \in Txn : y # x => Same(y)
    <3>1. PICK label \in {"generate", "apply"} :
            Proceed(x, label) /\ (label = "generate" => Completing(x))
      BY <2>1
    <3>2. /\ held' = [held EXCEPT ![x] = held[x] \cup {t}]
          /\ seen' = [seen EXCEPT ![x] = seen[x]]
      BY <2>1
    <3>3. /\ pc'[x] = label /\ seen'[x] = seen[x] /\ held'[x] = held[x] \cup {t}
          /\ UNCHANGED <<tables, req>>
          /\ \A y \in Txn : y # x => Same(y)
      BY <3>1, <3>2 DEF Proceed, Goto, Same, IInv, TypeOK, TransactionsTypeOK
    <3> QED BY <3>1, <3>3
  <2>3. LocksExclusive'
    BY <2>1, <2>2 DEF IInv, LocksExclusive, LockFree, Same
  <2>4. TxnInv(x)
    BY DEF IInv
  <2>5. TargetInv(x)' /\ DepsInv(x)'
    BY <2>1, <2>2, <2>4
    DEF TxnInv, TargetInv, DepsInv, WorksOnTask, Informed, Decided, tables, Born
  <2>6. ReadInv(x)'
    BY <2>1, <2>2, <2>4 DEF TxnInv, ReadInv, Informed, Decided, tables, Deps
  <2>7. OwnInv(x)'
    BY <2>1, <2>2 DEF OwnInv, tables
  <2>8. seen[x].run # "next"
    BY <2>1, <2>4 DEF TxnInv, RecurInv
  <2>9. BoardInv(x)' /\ ReserveInv(x)' /\ RecurInv(x)'
    BY <2>1, <2>2, <2>4, <2>8
    DEF TxnInv, BoardInv, ReserveInv, RecurInv, Inserting, Added, Acyclical, Completing
  <2>10. ReachInv(x)'
    BY <2>1, <2>2, <2>4 DEF TxnInv, ReachInv, Added, Acyclical, tables
  <2> QED BY <2>2, <2>3, <2>5, <2>6, <2>7, <2>9, <2>10, QuietStep DEF TxnInv
<1> QED BY <1>1, <1>2

LEMMA GenerateInv ==
  ASSUME IInv, TypeOK', NEW x \in Txn, GenerateNextOccurrence(x)
  PROVE  IInv'
<1> DEFINE t == req[x].task
<1>1. pc[x] = "generate" /\ Proceed(x, "apply")
  BY DEF GenerateNextOccurrence
<1>2. TxnInv(x) /\ seen[x] \in Reading
  BY DEF IInv, TypeOK, TransactionsTypeOK
<1>3. ASSUME NEW s, seen' = [seen EXCEPT ![x] = s],
             NEW h, held' = [held EXCEPT ![x] = h], h \in {held[x], held[x] \cup {Board}},
             s.status = seen[x].status, s.version = seen[x].version, s.deps = seen[x].deps,
             LocksExclusive',
             s.run = "next" =>
               /\ Board \in h /\ ~Born(s.id) /\ s.seq = nextSeq
               /\ req[x].sched \in {"enable", "pause"} \/ AttachedTo(t) # {}
      PROVE  IInv'
  <2>1. /\ pc'[x] = "apply" /\ seen'[x] = s /\ held'[x] = h /\ UNCHANGED <<tables, req>>
        /\ \A y \in Txn : y # x => Same(y)
    BY <1>1, <1>3, ProceedSame DEF IInv
  <2>2. TargetInv(x)' /\ DepsInv(x)'
    BY <1>1, <1>2, <2>1
    DEF TxnInv, TargetInv, DepsInv, WorksOnTask, Informed, Decided, tables, Born
  <2>3. ReadInv(x)'
    BY <1>1, <1>2, <1>3, <2>1 DEF TxnInv, ReadInv, Informed, Decided, tables, Deps
  <2>4. OwnInv(x)'
    BY <1>1, <1>2, <1>3, <2>1 DEF TxnInv, OwnInv, Owning, tables
  <2>5. Added(x)' = Added(x)
    BY <1>3, <2>1 DEF Added
  <2>6. BoardInv(x)'
    BY <1>1, <1>2, <1>3, <2>1, <2>5 DEF TxnInv, BoardInv, Inserting, Acyclical
  <2>7. ReserveInv(x)' /\ RecurInv(x)'
    BY <1>1, <1>2, <1>3, <2>1
    DEF TxnInv, ReserveInv, RecurInv, Inserting, tables, Born, AttachedTo, Completing
  <2>8. ReachInv(x)'
    BY <1>1, <1>2, <2>1, <2>5 DEF TxnInv, ReachInv, Acyclical, tables
  <2> QED BY <1>3, <2>1, <2>2, <2>3, <2>4, <2>6, <2>7, <2>8, QuietStep DEF TxnInv
<1>4. PICK s \in ScheduleRows(x) :
        \/ Decide(x, "none", 0, None, 0) /\ UNCHANGED held
        \/ Decide(x, "end", 0, None, 0) /\ UNCHANGED held
        \/ /\ Recurs(x, s) /\ LockFree(x, Board)
           /\ held' = [held EXCEPT ![x] = held[x] \cup {Board}]
           /\ \E g \in Task : ~Born(g) /\ Decide(x, "next", ScheduledAt(x, s), g, nextSeq)
  BY DEF GenerateNextOccurrence, TakeBoard
<1>5. ASSUME NEW run \in {"none", "end"}, Decide(x, run, 0, None, 0), UNCHANGED held
      PROVE  IInv'
  <2> DEFINE d == [seen[x] EXCEPT !.run = run, !.at = 0, !.id = None, !.seq = 0]
  <2>1. /\ d.status = seen[x].status /\ d.version = seen[x].version
        /\ d.deps = seen[x].deps /\ d.run # "next"
    BY <1>2 DEF Reading
  <2>2. seen' = [seen EXCEPT ![x] = d]
    BY <1>5 DEF Decide
  <2> HIDE DEF d
  <2>3. held' = [held EXCEPT ![x] = held[x]] /\ LocksExclusive'
    BY <1>5 DEF IInv, TypeOK, TransactionsTypeOK, LocksExclusive
  <2> QED BY <1>3, <2>1, <2>2, <2>3
<1>6. CASE /\ Recurs(x, s) /\ LockFree(x, Board)
           /\ held' = [held EXCEPT ![x] = held[x] \cup {Board}]
           /\ \E g \in Task : ~Born(g) /\ Decide(x, "next", ScheduledAt(x, s), g, nextSeq)
  <2>1. PICK g \in Task : ~Born(g) /\ Decide(x, "next", ScheduledAt(x, s), g, nextSeq)
    BY <1>6
  <2> DEFINE d == [seen[x] EXCEPT !.run = "next", !.at = ScheduledAt(x, s), !.id = g,
                                  !.seq = nextSeq]
  <2>2. /\ d.status = seen[x].status /\ d.version = seen[x].version
        /\ d.deps = seen[x].deps /\ d.id = g /\ d.seq = nextSeq
    BY <1>2 DEF Reading
  <2>3. seen' = [seen EXCEPT ![x] = d]
    BY <2>1 DEF Decide
  <2> HIDE DEF d
  <2>4. LocksExclusive'
    BY <1>6 DEF IInv, LocksExclusive, LockFree, TypeOK, TransactionsTypeOK
  <2>5. req[x].sched \in {"enable", "pause"} \/ AttachedTo(t) # {}
    BY <1>4, <1>6 DEF Recurs, ScheduleRows
  <2> QED BY <1>3, <1>6, <2>1, <2>2, <2>3, <2>4, <2>5
<1> QED BY <1>4, <1>5, <1>6

LEMMA ReadVisibleInv ==
  ASSUME IInv, TypeOK', NEW x \in Txn, ReadVisible(x)
  PROVE  IInv'
<1>1. CASE Answer(x)
  BY <1>1, AnswerInv
<1>2. CASE ~Answer(x)
  <2>1. pc[x] = "visible" /\ Proceed(x, "remove") /\ UNCHANGED <<seen, held>>
    BY <1>2 DEF ReadVisible
  <2>2. /\ pc'[x] = "remove" /\ UNCHANGED <<tables, req>>
        /\ \A y \in Txn : y # x => Same(y)
    BY <2>1, ContinueSame DEF IInv
  <2>3. LocksExclusive' /\ TxnInv(x)
    BY <2>1 DEF IInv, LocksExclusive
  <2>4. TargetInv(x)' /\ RecurInv(x)'
    BY <2>1, <2>2, <2>3 DEF TxnInv, TargetInv, RecurInv, WorksOnTask, tables, Born
  <2>5. DepsInv(x)' /\ ReadInv(x)' /\ OwnInv(x)' /\ BoardInv(x)' /\ ReserveInv(x)' /\ ReachInv(x)'
    BY <2>2 DEF DepsInv, ReadInv, OwnInv, BoardInv, ReserveInv, ReachInv,
                Informed, Decided, Acyclical, Owning, Inserting
  <2> QED BY <2>2, <2>3, <2>4, <2>5, QuietStep DEF TxnInv
<1> QED BY <1>1, <1>2

(* A victim of a deadlock starts again without locks or readings.              *)
LEMMA RetryInv ==
  ASSUME IInv, TypeOK', NEW x \in Txn, BreakDeadlock(x)
  PROVE  IInv'
<1>1. CASE Answer(x)
  BY <1>1, AnswerInv
<1>2. CASE ~Answer(x)
  <2>1. /\ pc[x] \in {"lock", "generate", "write"}
        /\ pc' = [pc EXCEPT ![x] = "read"] /\ seen' = [seen EXCEPT ![x] = NothingSeen]
        /\ held' = [held EXCEPT ![x] = {}] /\ UNCHANGED <<tables, now, req>>
    BY <1>2 DEF BreakDeadlock, Released, WaitsForBoard, WaitsForRow, Goto
  <2>2. /\ pc'[x] = "read" /\ seen'[x].run # "next" /\ held'[x] = {}
        /\ \A y \in Txn : y # x => Same(y)
    BY <2>1 DEF IInv, TypeOK, TransactionsTypeOK, Same, NothingSeen
  <2>3. LocksExclusive' /\ TxnInv(x)
    BY <2>1 DEF IInv, LocksExclusive, TypeOK, TransactionsTypeOK
  <2>4. TargetInv(x)' /\ RecurInv(x)'
    BY <2>1, <2>2, <2>3 DEF TxnInv, TargetInv, RecurInv, WorksOnTask, tables, Born
  <2>5. DepsInv(x)' /\ ReadInv(x)' /\ OwnInv(x)' /\ BoardInv(x)' /\ ReserveInv(x)' /\ ReachInv(x)'
    BY <2>2 DEF DepsInv, ReadInv, OwnInv, BoardInv, ReserveInv, ReachInv,
                Informed, Decided, Acyclical, Owning, Inserting
  <2> QED BY <2>1, <2>2, <2>3, <2>4, <2>5, QuietStep DEF TxnInv
<1> QED BY <1>1, <1>2

LEMMA TickInv ==
  ASSUME IInv, TypeOK', UNCHANGED <<tables, pc, req, seen, held>>
  PROVE  IInv'
<1>1. \A y \in Txn : TxnInv(y)'
  BY SameInv DEF IInv, Same
<1>2. TablesInv'
  BY DEF IInv, TablesInv, tables, EdgesBorn, UnusedDetached, Unused, Born,
         DependencyGraphAcyclic, SequenceDense
<1>3. LocksExclusive'
  BY DEF IInv, LocksExclusive
<1> QED BY <1>1, <1>2, <1>3 DEF IInv

-----------------------------------------------------------------------------
(* Commits *)

(* What a commit must respect of a transaction under way: rows stay, a changed  *)
(* row has a new version, a locked row and a locked board are not changed.      *)
Respects(y) ==
  /\ Same(y)
  /\ \A u \in Task : Born(u) =>
       /\ Born(u)' /\ task[u].version <= task'[u].version
       /\ task'[u].version = task[u].version =>
            task'[u].status = task[u].status /\ Deps(u)' = Deps(u)
  /\ pc[y] \in Owning => task'[req[y].task] = task[req[y].task]
  /\ Inserting(y) => nextSeq' = nextSeq /\ ~Born(seen[y].id)'
  /\ pc[y] \in Acyclical /\ Added(y) # {} => edges' \subseteq edges
  /\ pc[y] = "apply" => AttachedTo(req[y].task) \subseteq AttachedTo(req[y].task)'

LEMMA RespectInv ==
  ASSUME TypeOK, TypeOK', NEW y \in Txn, TxnInv(y), Respects(y)
  PROVE  TxnInv(y)'
<1> DEFINE t == req[y].task
<1>1. /\ req[y] \in Requests /\ seen[y] \in Reading /\ pc'[y] = pc[y]
      /\ req'[y] = req[y] /\ held'[y] = held[y] /\ seen'[y].run = seen[y].run
      /\ seen'[y].id = seen[y].id /\ seen'[y].deps = seen[y].deps
      /\ seen'[y].seq = seen[y].seq /\ seen'[y].status = seen[y].status
      /\ seen'[y].version = seen[y].version
      /\ pc[y] \in WorksOnTask => t \in Task /\ task[t] \in Row /\ task'[t] \in Row
      /\ Inserting(y)' <=> Inserting(y)
      /\ Added(y)' = Added(y)
  BY DEF TypeOK, TransactionsTypeOK, TargetsOK, TablesTypeOK, Respects, Same, Inserting, Added
<1>2. pc[y] \in Informed => pc[y] \in WorksOnTask
  BY DEF Informed, WorksOnTask
<1>3. TargetInv(y)'
  BY <1>1 DEF TxnInv, TargetInv, Respects, Row, Requests
<1>4. DepsInv(y)'
  BY <1>1 DEF TxnInv, DepsInv, Respects, Requests
<1>5. ReadInv(y)'
  <2> SUFFICES ASSUME pc[y] \in Informed PROVE ReadInv(y)'
    BY <1>1 DEF ReadInv
  <2>1. PICK u \in Task : u = t /\ Born(u)
    BY <1>1, <1>2 DEF TxnInv, TargetInv
  <2>2. /\ req[y].version \in Nat /\ seen[y].version \in Nat
        /\ task[u].version \in Nat /\ task'[u].version \in Nat
    BY <1>1, <1>2, <2>1 DEF Row, Requests, Reading
  <2>3. /\ task[u].version <= task'[u].version
        /\ task'[u].version = task[u].version =>
             task'[u].status = task[u].status /\ Deps(u)' = Deps(u)
    BY <2>1 DEF Respects
  <2>4. /\ req[y].version <= seen[y].version /\ seen[y].version <= task[u].version
        /\ seen[y].version = task[u].version =>
             /\ task[u].status = seen[y].status
             /\ pc[y] \in Decided => Deps(u) = seen[y].deps
    BY <2>1 DEF TxnInv, ReadInv
  <2>5. seen[y].version <= task'[u].version
    BY <2>2, <2>3, <2>4
  <2>6. \A a, b, c \in Nat : a <= b /\ b <= c /\ a = c => a = b /\ c = b
    OBVIOUS
  <2>7. seen[y].version = task'[u].version =>
          seen[y].version = task[u].version /\ task'[u].version = task[u].version
    BY <2>2, <2>3, <2>4, <2>6
  <2>8. seen[y].version = task'[u].version =>
          /\ task'[u].status = seen[y].status
          /\ pc[y] \in Decided => Deps(u)' = seen[y].deps
    BY <2>3, <2>4, <2>7
  <2>9. req'[y].task = u
    BY <1>1, <2>1
  <2> HIDE DEF t
  <2> QED BY <1>1, <2>4, <2>5, <2>8, <2>9 DEF ReadInv
<1>6. OwnInv(y)'
  BY <1>1 DEF TxnInv, OwnInv, Respects
<1>7. BoardInv(y)'
  BY <1>1 DEF TxnInv, BoardInv
<1>8. ReserveInv(y)'
  BY <1>1 DEF TxnInv, ReserveInv, Respects, Born
<1>9. ReachInv(y)'
  <2>1. CASE Added(y) = {}
    BY <2>1, <1>1, NothingReaches DEF ReachInv
  <2>2. CASE Added(y) # {}
    BY <2>2, <1>1, UnreachableSubset DEF TxnInv, ReachInv, Respects
  <2> QED BY <2>1, <2>2
<1>10. RecurInv(y)'
  BY <1>1 DEF TxnInv, RecurInv, Respects, AttachedTo, Completing
<1> QED BY <1>3, <1>4, <1>5, <1>6, <1>7, <1>8, <1>9, <1>10 DEF TxnInv

LEMMA CommitStep ==
  ASSUME IInv, TypeOK', NEW x \in Txn, TxnInv(x)', LocksExclusive', TablesInv',
         \A y \in Txn : y # x => Respects(y)
  PROVE  IInv'
BY RespectInv DEF IInv

(* A task inserted under the number drawn from the board.                      *)
LEMMA InsertedDense ==
  ASSUME TypeOK, TypeOK', SequenceDense, NEW g \in Task, ~Born(g),
         task'[g].seq = nextSeq, nextSeq' = nextSeq + 1,
         \A u \in Task : u # g => task'[u].seq = task[u].seq
  PROVE  SequenceDense'
<1>1. nextSeq \in Nat \ {0} /\ \A u \in Task : task[u].seq \in Nat
  BY DEF TypeOK, TablesTypeOK, Row
<1>2. \A u \in Task : Born(u)' <=> u = g \/ Born(u)
  BY <1>1 DEF Born
<1>3. \A u \in Task : Born(u) => task[u].seq \in 1..(nextSeq - 1)
  BY DEF SequenceDense
<1>4. \A u \in Task : Born(u) => task[u].seq # nextSeq
  BY <1>1, <1>3
<1>5. \A t, u \in Task : Born(t)' /\ task'[t].seq = task'[u].seq => t = u
  <2> SUFFICES ASSUME NEW t \in Task, NEW u \in Task, Born(t)', task'[t].seq = task'[u].seq
               PROVE  t = u
    OBVIOUS
  <2>1. Born(u)'
    BY DEF Born
  <2>2. CASE t = g
    BY <2>1, <2>2, <1>2, <1>4
  <2>3. CASE t # g
    <3>1. Born(t) /\ task'[t].seq = task[t].seq
      BY <2>3, <1>2
    <3>2. u # g
      BY <3>1, <1>4
    <3> QED BY <3>1, <3>2 DEF SequenceDense
  <2> QED BY <2>2, <2>3
<1>6. {task'[t].seq : t \in {u \in Task : Born(u)'}}
        = {task[t].seq : t \in {u \in Task : Born(u)}} \cup {nextSeq}
  <2>1. ASSUME NEW n \in {task'[t].seq : t \in {u \in Task : Born(u)'}}
        PROVE  n \in {task[t].seq : t \in {u \in Task : Born(u)}} \cup {nextSeq}
    BY <1>2
  <2>2. ASSUME NEW n \in {task[t].seq : t \in {u \in Task : Born(u)}}
        PROVE  n \in {task'[t].seq : t \in {u \in Task : Born(u)'}}
    BY <1>2
  <2>3. nextSeq \in {task'[t].seq : t \in {u \in Task : Born(u)'}}
    BY <1>2
  <2> QED BY <2>1, <2>2, <2>3
<1>7. (1..(nextSeq - 1)) \cup {nextSeq} = 1..(nextSeq' - 1)
  BY <1>1
<1>8. {task'[t].seq : t \in {u \in Task : Born(u)'}} = 1..(nextSeq' - 1)
  BY <1>6, <1>7 DEF SequenceDense
<1> QED BY <1>5, <1>8 DEF SequenceDense, Born

LEMMA SameSeqDense ==
  ASSUME SequenceDense, \A u \in Task : task'[u].seq = task[u].seq, nextSeq' = nextSeq
  PROVE  SequenceDense'
<1>1. {task'[t].seq : t \in {u \in Task : task'[u].seq # 0}}
        = {task[t].seq : t \in {u \in Task : task[u].seq # 0}}
  OBVIOUS
<1> QED BY <1>1 DEF SequenceDense, Born

(* A creation holds the board: nobody else is inserting or adding edges, and no *)
(* edge leads to its row yet.                                                   *)
LEMMA CommitCreateInv ==
  ASSUME IInv, TypeOK', NEW x \in Txn, CommitCreate(x)
  PROVE  IInv'
<1> DEFINE r == req[x]
<1>1. PICK t \in Task : t = seen[x].id
  BY DEF IInv, TypeOK, TargetsOK, CommitCreate
<1>2. /\ pc[x] = "insert" /\ r \in Requests /\ seen[x] \in Reading
      /\ task' = [task EXCEPT ![t] = NewTask(r.status, r.due, seen[x].seq)]
      /\ edges' = edges \cup ({t} \X r.deps)
      /\ nextSeq' = seen[x].seq + 1 /\ Finish(x, {t})
  BY <1>1 DEF CommitCreate, IInv, TypeOK, TransactionsTypeOK
<1>3. /\ ~Born(t) /\ seen[x].seq = nextSeq /\ Board \in held[x]
      /\ \A d \in r.deps : Born(d)
  BY <1>1, <1>2 DEF IInv, TxnInv, ReserveInv, BoardInv, DepsInv, Inserting
<1>4. TxnInv(x)' /\ LocksExclusive'
  BY <1>2, FinishInv DEF IInv
<1>5. /\ task \in [Task -> Row] /\ nextSeq \in Nat \ {0}
      /\ task'[t].seq = nextSeq /\ Born(t)'
      /\ \A u \in Task : u # t => task'[u] = task[u] /\ (Born(u)' <=> Born(u))
  BY <1>2, <1>3 DEF IInv, TypeOK, TablesTypeOK, NewTask, Born
<1>6. \A s \in Series : s \notin Unused => series'[s] = series[s]
  BY DEF CommitCreate, IInv, TypeOK, TablesTypeOK
<1>7. ASSUME NEW y \in Txn, y # x PROVE Respects(y)
  <2>1. Same(y)
    BY <1>2, <1>7, FinishSame DEF IInv
  <2>2. Board \notin held[y]
    BY <1>3, <1>7 DEF IInv, LocksExclusive
  <2>3. TxnInv(y)
    BY DEF IInv
  <2>4. ASSUME NEW u \in Task, Born(u)
        PROVE  /\ Born(u)' /\ task'[u] = task[u] /\ task[u].version <= task'[u].version
               /\ Deps(u)' = Deps(u)
    <3>1. u # t
      BY <1>3, <2>4
    <3>2. Born(u)' /\ task'[u] = task[u] /\ task[u].version \in Nat
      BY <1>5, <2>4, <3>1 DEF Row
    <3>3. Deps(u)' = Deps(u)
      BY <1>2, <3>1 DEF Deps, Prerequisites
    <3> QED BY <3>2, <3>3
  <2>5. ~Inserting(y) /\ ~(pc[y] \in Acyclical /\ Added(y) # {})
    BY <2>2, <2>3 DEF TxnInv, BoardInv
  <2>6. pc[y] \in Owning => req[y].task \in Task /\ Born(req[y].task)
    BY <2>3 DEF TxnInv, TargetInv, Owning, WorksOnTask, IInv, TypeOK, TargetsOK
  <2>7. pc[y] \in Owning => task'[req[y].task] = task[req[y].task]
    BY <2>4, <2>6
  <2>8. pc[y] = "apply" => AttachedTo(req[y].task) \subseteq AttachedTo(req[y].task)'
    <3> SUFFICES ASSUME pc[y] = "apply", NEW s \in Series, series[s].task = req[y].task
                 PROVE  series'[s].task = req'[y].task
      BY DEF AttachedTo
    <3>1. s \notin Unused
      BY <2>6, ConstantsAssumption DEF Owning, IInv, TablesInv, UnusedDetached
    <3> QED BY <3>1, <1>6, <2>1 DEF Same
  <2> QED BY <2>1, <2>4, <2>5, <2>7, <2>8 DEF Respects
<1>8. EdgesBorn'
  <2> SUFFICES ASSUME NEW e \in edges' PROVE Born(e[1])' /\ Born(e[2])'
    BY DEF EdgesBorn
  <2>1. CASE e \in edges
    <3>1. Born(e[1]) /\ Born(e[2]) /\ e[1] \in Task /\ e[2] \in Task
      BY <2>1 DEF IInv, TablesInv, EdgesBorn, TypeOK, TablesTypeOK
    <3> QED BY <3>1, <1>3, <1>5
  <2>2. CASE e \in {t} \X r.deps
    <3>1. e[1] = t /\ e[2] \in Task /\ Born(e[2])
      BY <2>2, <1>2, <1>3 DEF Requests
    <3> QED BY <3>1, <1>3, <1>5
  <2> QED BY <2>1, <2>2, <1>2
<1>9. DependencyGraphAcyclic'
  <2>1. r.deps \in SUBSET Task /\ t \notin r.deps /\ edges \subseteq Task \X Task
    BY <1>2, <1>3 DEF Requests, IInv, TypeOK, TablesTypeOK
  <2>2. \A e \in edges : e[2] # t
    BY <1>3 DEF IInv, TablesInv, EdgesBorn
  <2>3. ~Reaches(edges, Task, r.deps, t)
    BY <2>1, <2>2, FreshUnreachable
  <2>4. Acyclic(edges, Task)
    BY DEF IInv, TablesInv, DependencyGraphAcyclic
  <2>5. Acyclic(edges \cup ({t} \X r.deps), Task)
    BY <2>3, <2>4, AddPrerequisitesAcyclic
  <2> QED BY <2>5, <1>2 DEF DependencyGraphAcyclic
<1>10. SequenceDense'
  BY <1>2, <1>3, <1>5, InsertedDense DEF IInv, TablesInv
<1>11. UnusedDetached'
  <2>1. CASE UNCHANGED series
    BY <2>1 DEF IInv, TablesInv, UnusedDetached, Unused
  <2>2. CASE ~UNCHANGED series
    <3> DEFINE row == [task |-> t, start |-> r.due, next |-> r.next,
                       enabled |-> r.sched = "enable"]
    <3>1. PICK s \in Unused : series' = [series EXCEPT ![s] = row]
      BY <2>2, <1>1 DEF CommitCreate
    <3>2. r.sched \in {"enable", "pause"}
      BY <2>2 DEF CommitCreate
    <3>3. row.start # 0
      BY <3>2 DEF IInv, TxnInv, RecurInv
    <3> HIDE DEF row
    <3> QED BY <3>1, <3>3 DEF IInv, TablesInv, UnusedDetached, Unused, TypeOK, TablesTypeOK
  <2> QED BY <2>1, <2>2
<1> QED BY <1>4, <1>7, <1>8, <1>9, <1>10, <1>11, CommitStep DEF TablesInv

(* An update holds its row; if it adds edges or inserts a successor, the board. *)
LEMMA CommitUpdateInv ==
  ASSUME IInv, TypeOK', NEW x \in Txn, CommitUpdate(x)
  PROVE  IInv'
<1> DEFINE r == req[x]
           g == seen[x].id
           successor == seen[x].run = "next"
<1>1. PICK t \in Task : t = req[x].task /\ pc[x] = "apply" /\ Born(t)
  BY DEF IInv, TypeOK, TargetsOK, CommitUpdate, WorksOnTask, TxnInv, TargetInv
<1>2. /\ r \in Requests /\ seen[x] \in Reading /\ Finish(x, {t})
      /\ edges' = Rewired(edges, t, seen[x].deps, r.deps)
      /\ t \in held[x] /\ \A d \in r.deps : Born(d)
      /\ successor => g \in Task /\ ~Born(g) /\ seen[x].seq = nextSeq /\ Board \in held[x]
      /\ Added(x) # {} => Board \in held[x]
  BY <1>1 DEF CommitUpdate, IInv, TypeOK, TransactionsTypeOK, TargetsOK, TxnInv, OwnInv,
              DepsInv, ReserveInv, BoardInv, Inserting, Owning, Informed, Decided, Acyclical
<1>3. TxnInv(x)' /\ LocksExclusive'
  BY <1>2, FinishInv DEF IInv
<1>4. task \in [Task -> Row] /\ nextSeq \in Nat \ {0} /\ edges \subseteq Task \X Task
  BY DEF IInv, TypeOK, TablesTypeOK
<1> DEFINE edited == [task EXCEPT ![t].status = r.status, ![t].due = r.due,
                                  ![t].version = @ + 1]
           new == NewTask("NOT_STARTED", seen[x].at, seen[x].seq)
<1>5. PICK s \in ScheduleRows(x) :
        /\ series' = IF s = None THEN series
                     ELSE [series EXCEPT ![s] = CommittedRow(x, s)]
        /\ successor => task' = [edited EXCEPT ![g] = new] /\ nextSeq' = seen[x].seq + 1
        /\ ~successor => task' = edited /\ nextSeq' = nextSeq
  BY <1>1 DEF CommitUpdate
<1>6. /\ DOMAIN edited = Task
      /\ edited[t].seq = task[t].seq /\ edited[t].version = task[t].version + 1
      /\ \A u \in Task : u # t => edited[u] = task[u]
  BY <1>1, <1>4 DEF Row
<1> HIDE DEF edited
<1>7. /\ task'[t].seq = task[t].seq /\ task'[t].version = task[t].version + 1
      /\ \A u \in Task : u # t /\ Born(u) => task'[u] = task[u]
      /\ \A u \in Task : u # t /\ ~successor => task'[u] = task[u]
      /\ \A u \in Task : u # t /\ u # g => task'[u] = task[u]
      /\ successor => task'[g].seq = nextSeq
  <2>1. CASE ~successor
    BY <2>1, <1>5, <1>6
  <2>2. CASE successor
    <3>1. g # t /\ new.seq = nextSeq
      BY <2>2, <1>1, <1>2 DEF NewTask
    <3> HIDE DEF new
    <3> QED BY <2>2, <3>1, <1>1, <1>2, <1>5, <1>6
  <2> QED BY <2>1, <2>2
<1>8. \A u \in Task : Born(u) => Born(u)'
  BY <1>1, <1>7 DEF Born
<1>9. ASSUME NEW q \in Series, series'[q] # series[q]
      PROVE  /\ q = s /\ q \in ScheduleRows(x)
             /\ series'[q] = CommittedRow(x, q)
  BY <1>5, <1>9 DEF IInv, TypeOK, TablesTypeOK
<1>10. ASSUME NEW y \in Txn, y # x PROVE Respects(y)
  <2>1. Same(y)
    BY <1>2, <1>10, FinishSame DEF IInv
  <2>2. t \notin held[y] /\ (Board \in held[x] => Board \notin held[y])
    BY <1>2, <1>10 DEF IInv, LocksExclusive
  <2>3. TxnInv(y)
    BY DEF IInv
  <2>4. ASSUME NEW u \in Task, Born(u)
        PROVE  /\ Born(u)' /\ task[u].version <= task'[u].version
               /\ task'[u].version = task[u].version =>
                    task'[u].status = task[u].status /\ Deps(u)' = Deps(u)
    <3>1. task[u].version \in Nat
      BY <1>4 DEF Row
    <3>2. CASE u = t
      BY <3>1, <3>2, <1>7, <1>8, <2>4
    <3>3. CASE u # t
      <4>1. task'[u] = task[u]
        BY <3>3, <1>7, <2>4
      <4>2. Deps(u)' = Deps(u)
        BY <3>3, <1>2 DEF Deps, Prerequisites, Rewired
      <4> QED BY <3>1, <4>1, <4>2, <1>8, <2>4
    <3> QED BY <3>2, <3>3
  <2>5. pc[y] \in Owning => /\ req[y].task \in Task /\ Born(req[y].task)
                            /\ req[y].task # t
    BY <2>2, <2>3
    DEF TxnInv, TargetInv, OwnInv, Owning, WorksOnTask, IInv, TypeOK, TargetsOK
  <2>6. pc[y] \in Owning => task'[req[y].task] = task[req[y].task]
    BY <2>5, <1>7
  <2>7. Inserting(y) => nextSeq' = nextSeq /\ ~Born(seen[y].id)'
    <3> SUFFICES ASSUME Inserting(y) PROVE nextSeq' = nextSeq /\ ~Born(seen[y].id)'
      OBVIOUS
    <3>1. Board \in held[y] /\ ~Born(seen[y].id) /\ seen[y].id \in Task
      BY <2>3 DEF TxnInv, BoardInv, ReserveInv, Inserting, IInv, TypeOK, TargetsOK
    <3>2. ~successor
      BY <3>1, <2>2, <1>2
    <3>3. seen[y].id # t /\ task'[seen[y].id] = task[seen[y].id]
      BY <3>1, <3>2, <1>1, <1>7
    <3> QED BY <3>1, <3>2, <3>3, <2>1, <1>5 DEF Born, Same
  <2>8. pc[y] \in Acyclical /\ Added(y) # {} => edges' \subseteq edges
    <3> SUFFICES ASSUME pc[y] \in Acyclical, Added(y) # {} PROVE edges' \subseteq edges
      OBVIOUS
    <3>1. Added(x) = {}
      BY <2>2, <2>3, <1>2 DEF TxnInv, BoardInv
    <3> QED BY <3>1, <1>2 DEF Added, Rewired
  <2>9. pc[y] = "apply" => AttachedTo(req[y].task) \subseteq AttachedTo(req[y].task)'
    <3> SUFFICES ASSUME pc[y] = "apply", NEW q \in Series, series[q].task = req[y].task
                 PROVE  series'[q].task = req'[y].task
      BY DEF AttachedTo
    <3>1. req[y].task \in Task /\ req[y].task # t
      BY <2>5 DEF Owning
    <3>2. q \notin Unused /\ q \notin AttachedTo(t)
      BY <3>1, ConstantsAssumption DEF AttachedTo, IInv, TablesInv, UnusedDetached
    <3>3. q \notin ScheduleRows(x)
      BY <3>2, <1>1, ConstantsAssumption DEF ScheduleRows
    <3> QED BY <3>3, <1>9, <2>1 DEF Same
  <2> QED BY <2>1, <2>4, <2>6, <2>7, <2>8, <2>9 DEF Respects
<1>11. EdgesBorn'
  <2> SUFFICES ASSUME NEW e \in edges' PROVE Born(e[1])' /\ Born(e[2])'
    BY DEF EdgesBorn
  <2>1. e \in edges \/ e \in {t} \X r.deps
    BY <1>2 DEF Rewired
  <2>2. e[1] \in Task /\ e[2] \in Task /\ Born(e[1]) /\ Born(e[2])
    BY <2>1, <1>1, <1>2, <1>4 DEF IInv, TablesInv, EdgesBorn, Requests
  <2> QED BY <2>2, <1>8
<1>12. DependencyGraphAcyclic'
  <2>1. Acyclic(edges, Task) /\ ~Reaches(edges, Task, Added(x), t)
    BY <1>1 DEF IInv, TablesInv, DependencyGraphAcyclic, TxnInv, ReachInv, Acyclical
  <2>2. Acyclic(edges \cup ({t} \X Added(x)), Task)
    BY <2>1, AddPrerequisitesAcyclic
  <2>3. edges' \subseteq edges \cup ({t} \X Added(x))
    BY <1>2, RewiredSubset DEF Added
  <2>4. Acyclic(edges', Task)
    BY <2>2, <2>3, AcyclicSubset
  <2> QED BY <2>4 DEF DependencyGraphAcyclic
<1>13. SequenceDense'
  <2>1. CASE successor
    BY <2>1, <1>2, <1>5, <1>7, InsertedDense DEF IInv, TablesInv
  <2>2. CASE ~successor
    BY <2>2, <1>5, <1>7, SameSeqDense DEF IInv, TablesInv
  <2> QED BY <2>1, <2>2
<1>14. UnusedDetached'
  <2> SUFFICES ASSUME NEW q \in Series, series'[q].start = 0 PROVE series'[q].task = None
    BY DEF UnusedDetached, Unused
  <2>1. CASE series'[q] = series[q]
    BY <2>1 DEF IInv, TablesInv, UnusedDetached, Unused
  <2>2. CASE series'[q] # series[q]
    <3>1. q \in ScheduleRows(x) /\ series'[q] = CommittedRow(x, q)
      BY <2>2, <1>9
    <3>2. series[q] \in Schedule
      BY DEF IInv, TypeOK, TablesTypeOK
    <3>3. /\ r.sched \in {"enable", "pause"} => r.due # 0
          /\ successor => r.sched \in {"enable", "pause"} \/ AttachedTo(t) # {}
      BY <1>1 DEF IInv, TxnInv, RecurInv
    <3>4. q # None
      BY ConstantsAssumption
    <3>5. r.sched \in {"enable", "pause"} \/ q \in AttachedTo(t)
      BY <3>1, <3>4, <1>1 DEF ScheduleRows
    <3>6. series[q].start # 0 \/ r.sched \in {"enable", "pause"}
      BY <3>5, <1>1, ConstantsAssumption
      DEF AttachedTo, IInv, TablesInv, UnusedDetached, Unused
    <3>7. EditedRow(x, q) \in Schedule /\ EditedRow(x, q).start # 0
      <4>1. CASE r.sched = "keep"
        BY <4>1, <3>2, <3>6 DEF EditedRow
      <4>2. CASE r.sched = "remove"
        BY <4>2, <3>2, <3>6 DEF EditedRow, Schedule, Time
      <4>3. CASE r.sched \in {"enable", "pause"}
        BY <4>3, <3>3, <1>2, <1>1 DEF EditedRow, Schedule, Requests
      <4> QED BY <4>1, <4>2, <4>3, <1>2 DEF Requests, ScheduleInput
    <3> DEFINE row == EditedRow(x, q)
               next == NextOccurrence(row.start, seen[x].at)
    <3>8. CommittedRow(x, q) \in
            {row, [row EXCEPT !.next = 0, !.enabled = FALSE],
             [row EXCEPT !.task = seen[x].id, !.next = next, !.enabled = next # 0]}
      BY DEF CommittedRow, HandedOver
    <3> HIDE DEF row, next
    <3>9. row.start # 0 /\ row \in Schedule
      BY <3>7 DEF row
    <3>10. CommittedRow(x, q).start # 0
      BY <3>8, <3>9 DEF Schedule
    <3> QED BY <3>1, <3>10
  <2> QED BY <2>1, <2>2
<1> QED BY <1>3, <1>10, <1>11, <1>12, <1>13, <1>14, CommitStep DEF TablesInv

(* A soft deletion and a restoration change one row that nobody has locked.     *)
LEMMA RowOnlyRespects ==
  ASSUME IInv, NEW y \in Txn, Same(y), NEW t \in Task, t \notin held[y], NEW flag,
         Born(t),
         task' = [task EXCEPT ![t].deleted = flag, ![t].version = @ + 1],
         UNCHANGED <<edges, nextSeq, series>>
  PROVE  Respects(y)
<1>1. task \in [Task -> Row] /\ \A u \in Task : task[u].version \in Nat
  BY DEF IInv, TypeOK, TablesTypeOK, Row
<1>2. /\ task'[t].version = task[t].version + 1 /\ task'[t].seq = task[t].seq
      /\ \A u \in Task : u # t => task'[u] = task[u]
  BY <1>1 DEF Row
<1>3. TxnInv(y)
  BY DEF IInv
<1>4. ASSUME NEW u \in Task, Born(u)
      PROVE  /\ Born(u)' /\ task[u].version <= task'[u].version
             /\ task'[u].version = task[u].version =>
                  task'[u].status = task[u].status /\ Deps(u)' = Deps(u)
  <2>1. CASE u = t
    BY <2>1, <1>1, <1>2, <1>4 DEF Born
  <2>2. CASE u # t
    BY <2>2, <1>1, <1>2, <1>4 DEF Born, Deps
  <2> QED BY <2>1, <2>2
<1>5. pc[y] \in Owning => task'[req[y].task] = task[req[y].task]
  BY <1>2, <1>3 DEF TxnInv, OwnInv, Owning, WorksOnTask, IInv, TypeOK, TargetsOK
<1>6. Inserting(y) => nextSeq' = nextSeq /\ ~Born(seen[y].id)'
  <2> SUFFICES ASSUME Inserting(y) PROVE nextSeq' = nextSeq /\ ~Born(seen[y].id)'
    OBVIOUS
  <2>1. ~Born(seen[y].id) /\ seen[y].id \in Task
    BY <1>3 DEF TxnInv, ReserveInv, Inserting, IInv, TypeOK, TargetsOK
  <2>2. task'[seen[y].id] = task[seen[y].id]
    BY <2>1, <1>2
  <2> QED BY <2>1, <2>2 DEF Born, Same
<1>7. pc[y] = "apply" => AttachedTo(req[y].task) \subseteq AttachedTo(req[y].task)'
  BY DEF AttachedTo, Same
<1> QED BY <1>4, <1>5, <1>6, <1>7 DEF Respects

LEMMA RowOnlyTables ==
  ASSUME IInv, NEW t \in Task, NEW flag,
         task' = [task EXCEPT ![t].deleted = flag, ![t].version = @ + 1],
         UNCHANGED <<edges, nextSeq, series>>
  PROVE  TablesInv'
<1>1. \A u \in Task : task'[u].seq = task[u].seq
  BY DEF IInv, TypeOK, TablesTypeOK, Row
<1>2. EdgesBorn'
  BY <1>1 DEF IInv, TablesInv, EdgesBorn, Born, TypeOK, TablesTypeOK
<1>3. SequenceDense'
  BY <1>1, SameSeqDense DEF IInv, TablesInv
<1>4. UnusedDetached' /\ DependencyGraphAcyclic'
  BY DEF IInv, TablesInv, UnusedDetached, Unused, DependencyGraphAcyclic
<1> QED BY <1>2, <1>3, <1>4 DEF TablesInv

LEMMA RemoveInv ==
  ASSUME IInv, TypeOK', NEW x \in Txn, Remove(x)
  PROVE  IInv'
<1>1. PICK t \in Task : t = req[x].task /\ Born(t)
  BY DEF IInv, TypeOK, TargetsOK, Remove, WorksOnTask, TxnInv, TargetInv
<1>2. /\ LockFree(x, t) /\ Finish(x, {t})
      /\ task' = [task EXCEPT ![t].deleted = TRUE, ![t].version = @ + 1]
      /\ UNCHANGED <<edges, nextSeq, series>>
  BY <1>1 DEF Remove
<1>3. TxnInv(x)' /\ LocksExclusive'
  BY <1>2, FinishInv DEF IInv
<1>4. \A y \in Txn : y # x => Same(y) /\ t \notin held[y]
  BY <1>2, FinishSame DEF IInv, LockFree
<1>5. \A y \in Txn : y # x => Respects(y)
  BY <1>1, <1>2, <1>4, RowOnlyRespects
<1>6. TablesInv'
  BY <1>2, RowOnlyTables
<1> QED BY <1>3, <1>5, <1>6, CommitStep

LEMMA RestoreInv ==
  ASSUME IInv, TypeOK', NEW t \in Task, Restore(t)
  PROVE  IInv'
<1>1. /\ task' = [task EXCEPT ![t].deleted = FALSE, ![t].version = @ + 1]
      /\ UNCHANGED <<edges, nextSeq, series, pc, req, held>>
      /\ seen' = [y \in Txn |-> Noted(y, {t})] /\ \A y \in Txn : t \notin held[y]
  BY DEF Restore
<1>2. TablesInv' /\ LocksExclusive'
  BY <1>1, RowOnlyTables DEF IInv, LocksExclusive
<1>3. \A y \in Txn : Same(y)
  BY <1>1, NotedSame DEF IInv, Same
<1>4. \A y \in Txn : Respects(y)
  BY <1>1, <1>3, RowOnlyRespects DEF Restore
<1> QED BY <1>2, <1>4, RespectInv DEF IInv

-----------------------------------------------------------------------------
(* The invariant and the theorems *)

LEMMA IInvInit == Init => IInv
<1> SUFFICES ASSUME Init PROVE IInv
  OBVIOUS
<1>1. LocksExclusive
  BY DEF Init, LocksExclusive
<1>2. EdgesBorn /\ UnusedDetached
  BY DEF Init, EdgesBorn, UnusedDetached, Unused
<1>3. DependencyGraphAcyclic
  BY DEF Init, DependencyGraphAcyclic, Acyclic
<1>4. SequenceDense
  <2>1. \A t \in Task : ~Born(t)
    BY DEF Init, Born, NewTask
  <2>2. {task[t].seq : t \in {u \in Task : Born(u)}} = {}
    BY <2>1
  <2>3. 1..(nextSeq - 1) = {}
    BY DEF Init
  <2> QED BY <2>1, <2>2, <2>3 DEF SequenceDense
<1>5. ASSUME NEW x \in Txn PROVE TxnInv(x)
  <2>1. pc[x] = "idle" /\ req[x].sched = "keep" /\ seen[x].run # "next"
    BY DEF Init, NoRequest, Request, NothingSeen
  <2> QED BY <2>1
          DEF TxnInv, TargetInv, DepsInv, ReadInv, OwnInv, BoardInv, ReserveInv, ReachInv,
              RecurInv, WorksOnTask, Informed, Decided, Acyclical, Owning, Inserting
<1> QED BY <1>1, <1>2, <1>3, <1>4, <1>5, TypeInit DEF IInv, TablesInv

LEMMA IInvNext == IInv /\ [Next]_vars => IInv'
<1> SUFFICES ASSUME IInv, [Next]_vars PROVE IInv'
  OBVIOUS
<1>1. TypeOK'
  BY TypeNext DEF IInv, TxnInv
<1>2. CASE UNCHANGED vars
  BY <1>1, <1>2, TickInv DEF vars, tables
<1>3. CASE Tick
  BY <1>1, <1>3, TickInv DEF Tick
<1>4. ASSUME NEW t \in Task, Restore(t) PROVE IInv'
  BY <1>1, <1>4, RestoreInv
<1>5. ASSUME NEW x \in Txn,
             SubmitCreate(x) \/ SubmitUpdate(x) \/ SubmitDelete(x)
               \/ Step(x) \/ Abandon(x) \/ BreakDeadlock(x)
      PROVE  IInv'
  <2>1. CASE SubmitCreate(x) \/ SubmitUpdate(x) \/ SubmitDelete(x)
    BY <1>1, <2>1, SubmitsInv
  <2>2. CASE Abandon(x)
    BY <2>2, AnswerInv DEF Abandon
  <2>3. CASE BreakDeadlock(x)
    BY <1>1, <2>3, RetryInv
  <2>4. CASE Step(x)
    BY <1>1, <2>4, CheckCreateInv, TakeSequenceInv, CommitCreateInv, ReadExistingInv,
       ReadEdgesInv, LockBoardGraphInv, CheckCycleInv, CheckGateInv, WriteTaskInv,
       GenerateInv, CommitUpdateInv, ReadVisibleInv, RemoveInv DEF Step
  <2> QED BY <1>5, <2>1, <2>2, <2>3, <2>4
<1> QED BY <1>2, <1>3, <1>4, <1>5 DEF Next

(* The invariant is inductive.                                                 *)
THEOREM Inductive == Spec => []IInv
BY IInvInit, IInvNext, PTL DEF Spec

(* Every table row, request and transaction keeps the shape the code gives it.  *)
THEOREM TypeCorrect == Spec => []TypeOK
<1>1. IInv => TypeOK
  BY DEF IInv
<1> QED BY <1>1, Inductive, PTL

(* However many transactions interleave, no task comes to depend on itself:     *)
(* the lock on the board row, taken before the cycle check and kept to the      *)
(* commit, is enough, although edges are deleted without it.                    *)
THEOREM GraphStaysAcyclic == Spec => []DependencyGraphAcyclic
<1>1. IInv => DependencyGraphAcyclic
  BY DEF IInv, TablesInv
<1> QED BY <1>1, Inductive, PTL

(* The numbers of the board's tasks are 1 to nextTaskSequence - 1, once each.   *)
THEOREM NumbersDense == Spec => []SequenceDense
<1>1. IInv => SequenceDense
  BY DEF IInv, TablesInv
<1> QED BY <1>1, Inductive, PTL

LEMMA CurrentDecisions == IInv => DecisionsStillCurrent
<1> SUFFICES ASSUME IInv, NEW x \in Txn, pc[x] \in {"generate", "apply"}
             PROVE  LET t == req[x].task
                    IN /\ ~task[t].deleted
                       /\ task[t].version = req[x].version
                       /\ task[t].status = seen[x].status
                       /\ Deps(t) = seen[x].deps
  BY DEF DecisionsStillCurrent
<1> DEFINE t == req[x].task
<1>1. ~task[t].deleted /\ task[t].version = req[x].version
  BY DEF IInv, TxnInv, OwnInv, Owning
<1>2. /\ req[x].version <= seen[x].version /\ seen[x].version <= task[t].version
      /\ seen[x].version = task[t].version =>
           task[t].status = seen[x].status /\ Deps(t) = seen[x].deps
  BY DEF IInv, TxnInv, ReadInv, Informed, Decided
<1>3. req[x].version \in Nat /\ seen[x].version \in Nat
  BY DEF IInv, TypeOK, TransactionsTypeOK, Requests, Reading
<1>4. \A a, b \in Nat : a <= b /\ b <= a => b = a
  OBVIOUS
<1>5. seen[x].version = task[t].version
  BY <1>1, <1>2, <1>3, <1>4
<1> QED BY <1>1, <1>2, <1>5

(* An update whose version predicate won decided on the committed status and    *)
(* edges: the reads taken before it had the row lock are not stale.             *)
THEOREM WinnersAreCurrent == Spec => []DecisionsStillCurrent
BY CurrentDecisions, Inductive, PTL

-----------------------------------------------------------------------------
(* The interleaved statements of any number of transactions amount to atomic    *)
(* operations on the task tables, one at each commit. The mapping is the        *)
(* identity on the tables.                                                      *)
ledgerVars == <<task, edges, nextSeq>>

LEMMA InitRefines == Init => Ledger!Init
BY DEF Init, Ledger!Init, Ledger!Fresh, NewTask

LEMMA CreateRefines ==
  ASSUME IInv, IInv', NEW x \in Txn, CommitCreate(x)
  PROVE  \E t \in Task : Ledger!Create(t)
<1> DEFINE r == req[x]
<1>1. PICK t \in Task : t = seen[x].id
  BY DEF IInv, TypeOK, TargetsOK, CommitCreate
<1>2. /\ task' = [task EXCEPT ![t] = NewTask(r.status, r.due, seen[x].seq)]
      /\ edges' = edges \cup ({t} \X r.deps) /\ nextSeq' = seen[x].seq + 1
      /\ pc[x] = "insert"
  BY <1>1 DEF CommitCreate
<1>3. ~Born(t) /\ seen[x].seq = nextSeq
  BY <1>1, <1>2 DEF IInv, TxnInv, ReserveInv, Inserting
<1>4. task'[t] = NewTask(r.status, r.due, seen[x].seq)
  BY <1>2 DEF IInv, TypeOK, TablesTypeOK
<1>5. Ledger!Fresh(t)
  BY <1>3 DEF Ledger!Fresh, Born
<1>6. Ledger!Inserted(task'[t])
  BY <1>3, <1>4 DEF Ledger!Inserted, NewTask
<1>7. task' = [task EXCEPT ![t] = task'[t]] /\ nextSeq' = nextSeq + 1
  BY <1>2, <1>3, <1>4
<1>8. edges \subseteq edges' /\ Ledger!OnlyEdgesOf(t)
  BY <1>2 DEF Ledger!OnlyEdgesOf
<1>9. Acyclic(edges', Task)
  BY DEF IInv, TablesInv, DependencyGraphAcyclic
<1> QED BY <1>5, <1>6, <1>7, <1>8, <1>9 DEF Ledger!Create, Ledger!Acyclic, Acyclic

LEMMA UpdateRefines ==
  ASSUME IInv, IInv', NEW x \in Txn, CommitUpdate(x)
  PROVE  \E t, g \in Task : Ledger!Edit(t) \/ Ledger!CompleteAndRecur(t, g)
<1> DEFINE r == req[x]
           successor == seen[x].run = "next"
<1>1. PICK t \in Task : t = req[x].task /\ pc[x] = "apply" /\ Born(t)
  BY DEF IInv, TypeOK, TargetsOK, CommitUpdate, WorksOnTask, TxnInv, TargetInv
<1> DEFINE edited == [task EXCEPT ![t].status = r.status, ![t].due = r.due,
                                  ![t].version = @ + 1]
           new == NewTask("NOT_STARTED", seen[x].at, seen[x].seq)
<1>2. /\ edges' = Rewired(edges, t, seen[x].deps, r.deps)
      /\ successor => task' = [edited EXCEPT ![seen[x].id] = new] /\ nextSeq' = seen[x].seq + 1
      /\ ~successor => task' = edited /\ nextSeq' = nextSeq
  BY <1>1 DEF CommitUpdate
<1>3. /\ r \in Requests /\ seen[x] \in Reading /\ task \in [Task -> Row]
      /\ ~task[t].deleted /\ \A d \in r.deps : Born(d)
      /\ t \notin r.deps
  BY <1>1 DEF IInv, TypeOK, TransactionsTypeOK, TablesTypeOK, TxnInv, OwnInv, DepsInv,
              TargetInv, WorksOnTask, Owning, Informed, Decided
<1>4. Ledger!Live(t)
  BY <1>1, <1>3 DEF Ledger!Live, Born
<1>5. Ledger!OnlyEdgesOf(t)
  BY <1>2 DEF Ledger!OnlyEdgesOf, Rewired
<1>6. Ledger!Acyclic(edges', Task)
  BY DEF IInv, TablesInv, DependencyGraphAcyclic, Acyclic, Ledger!Acyclic
<1>7. edited[t].status = r.status /\ edited[t].due = r.due
  BY <1>1, <1>3 DEF Row
<1>8. CASE ~successor
  <2>1. task'[t].status = r.status /\ task'[t].due = r.due
    BY <1>2, <1>7, <1>8
  <2>2. task' = Ledger!Edited(t)
    BY <1>2, <1>8, <2>1 DEF Ledger!Edited
  <2> QED BY <1>2, <1>4, <1>5, <1>6, <1>8, <2>2 DEF Ledger!Edit
<1>9. CASE successor
  <2>1. PICK g \in Task : /\ g = seen[x].id /\ ~Born(g) /\ seen[x].seq = nextSeq
                          /\ seen[x].at # 0
    BY <1>1, <1>9 DEF IInv, TypeOK, TargetsOK, TxnInv, ReserveInv, Inserting
  <2>2. g # t
    BY <1>1, <2>1
  <2>3. task' = [edited EXCEPT ![g] = new] /\ nextSeq' = nextSeq + 1
    BY <1>2, <1>9, <2>1
  <2>4. task'[g] = new /\ task'[t] = edited[t]
    BY <1>3, <2>2, <2>3
  <2>5. task'[t].status = r.status /\ task'[t].due = r.due
    BY <1>7, <2>4
  <2>6. edited = Ledger!Edited(t)
    BY <2>5 DEF Ledger!Edited
  <2>7. task' = [Ledger!Edited(t) EXCEPT ![g] = task'[g]]
    BY <2>3, <2>4, <2>6
  <2>8. task[t].status # "COMPLETED" /\ task'[t].status = "COMPLETED"
    <3>1. Completing(x)
      BY <1>9 DEF IInv, TxnInv, RecurInv
    <3>2. task[t].status = seen[x].status
      BY <1>1, CurrentDecisions DEF DecisionsStillCurrent
    <3> QED BY <2>5, <3>1, <3>2 DEF Completing
  <2>9. /\ Ledger!Inserted(task'[g]) /\ task'[g].status = "NOT_STARTED" /\ task'[g].due # 0
    BY <2>1, <2>4 DEF Ledger!Inserted, NewTask
  <2>10. \A e \in edges' : g \notin {e[1], e[2]}
    <3> SUFFICES ASSUME NEW e \in edges' PROVE Born(e[1]) /\ Born(e[2])
      BY <2>1
    <3>1. e \in edges \/ e \in {t} \X r.deps
      BY <1>2 DEF Rewired
    <3> QED BY <3>1, <1>1, <1>3 DEF IInv, TablesInv, EdgesBorn
  <2>11. Ledger!Fresh(g)
    BY <2>1 DEF Ledger!Fresh, Born
  <2> QED BY <1>4, <1>5, <1>6, <2>3, <2>7, <2>8, <2>9, <2>10, <2>11
          DEF Ledger!CompleteAndRecur
<1> QED BY <1>8, <1>9

LEMMA RemoveRefines ==
  ASSUME IInv, NEW x \in Txn, Remove(x)
  PROVE  \E t \in Task : Ledger!Remove(t)
<1>1. req[x].task \in Task /\ Born(req[x].task)
  BY DEF IInv, TypeOK, TargetsOK, Remove, WorksOnTask, TxnInv, TargetInv
<1> QED BY <1>1 DEF Remove, Ledger!Remove, Born

LEMMA RestoreRefines ==
  ASSUME NEW t \in Task, Restore(t)
  PROVE  Ledger!Restore(t)
BY DEF Restore, Ledger!Restore, Born

(* Every other step leaves the ledger as it is.                                *)
LEMMA StatementStutters ==
  ASSUME NEW x \in Txn,
         \/ SubmitCreate(x) \/ SubmitUpdate(x) \/ SubmitDelete(x)
         \/ CheckCreate(x) \/ TakeSequence(x) \/ ReadExisting(x) \/ ReadEdges(x)
         \/ LockBoardGraph(x) \/ CheckCycle(x) \/ CheckGate(x) \/ WriteTask(x)
         \/ GenerateNextOccurrence(x) \/ ReadVisible(x) \/ Abandon(x) \/ BreakDeadlock(x)
  PROVE  UNCHANGED ledgerVars
BY DEF SubmitCreate, SubmitUpdate, SubmitDelete, Submit, CheckCreate, TakeSequence,
       ReadExisting, ReadEdges, LockBoardGraph, CheckCycle, CheckGate, WriteTask,
       GenerateNextOccurrence, ReadVisible, Abandon, BreakDeadlock, Answer, Proceed,
       tables, ledgerVars

LEMMA NextRefines == IInv /\ IInv' /\ [Next]_vars => [Ledger!Next]_ledgerVars
<1> SUFFICES ASSUME IInv, IInv', [Next]_vars PROVE [Ledger!Next]_ledgerVars
  OBVIOUS
<1>1. CASE UNCHANGED vars
  BY <1>1 DEF vars, ledgerVars
<1>2. CASE Tick
  BY <1>2 DEF Tick, tables, ledgerVars
<1>3. ASSUME NEW t \in Task, Restore(t) PROVE Ledger!Next
  BY <1>3, RestoreRefines DEF Ledger!Next
<1>4. ASSUME NEW x \in Txn,
             SubmitCreate(x) \/ SubmitUpdate(x) \/ SubmitDelete(x)
               \/ Step(x) \/ Abandon(x) \/ BreakDeadlock(x)
      PROVE  [Ledger!Next]_ledgerVars
  <2>1. CASE CommitCreate(x)
    BY <2>1, CreateRefines DEF Ledger!Next
  <2>2. CASE CommitUpdate(x)
    BY <2>2, UpdateRefines DEF Ledger!Next
  <2>3. CASE Remove(x)
    BY <2>3, RemoveRefines DEF Ledger!Next
  <2>4. CASE ~CommitCreate(x) /\ ~CommitUpdate(x) /\ ~Remove(x)
    <3>1. UNCHANGED ledgerVars
      BY <1>4, <2>4, StatementStutters DEF Step
    <3> QED BY <3>1
  <2> QED BY <2>1, <2>2, <2>3, <2>4
<1> QED BY <1>1, <1>2, <1>3, <1>4 DEF Next

(* From any board in order, whatever earlier requests made of it, with            *)
(* transactions under way: every commit is one atomic operation on the tables.     *)
THEOREM CommitsAreAtomic == IInv /\ [][Next]_vars => CommitsAreOperations
<1>1. IInv /\ IInv' /\ [Next]_vars => [Ledger!Next]_<<task, edges, nextSeq>>
  BY NextRefines DEF ledgerVars
<1> QED BY <1>1, IInvNext, PTL DEF CommitsAreOperations

(* Every behaviour of the interleaved transactions is, on the tables, a         *)
(* behaviour of the atomic operations.                                          *)
THEOREM BoardImplementsLedger == Spec => ImplementsLedger
<1>1. Init => Ledger!Init
  BY InitRefines
<1>2. IInv /\ IInv' /\ [Next]_vars => [Ledger!Next]_<<task, edges, nextSeq>>
  BY NextRefines DEF ledgerVars
<1> QED BY <1>1, <1>2, Inductive, PTL DEF Spec, ImplementsLedger, Ledger!Spec
==============================================================================
