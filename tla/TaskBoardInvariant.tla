-------------------------- MODULE TaskBoardInvariant --------------------------
(****************************************************************************)
(* The inductive invariant of TaskBoard: why its safety properties hold.    *)
(* The properties themselves say nothing of a transaction under way; what   *)
(* it may rely on at each statement, and which lock keeps that true, is     *)
(* stated here, transaction by transaction.                                 *)
(****************************************************************************)
EXTENDS TaskBoard

(* The transactions that have read the task row, that have also read its    *)
(* edges, that have passed the cycle check, and that own the task row.      *)
Informed  == {"edges", "lock", "cycle", "gate", "write", "generate", "apply"}
Decided   == Informed \ {"edges"}
Acyclical == {"gate", "write", "generate", "apply"}
Owning    == {"generate", "apply"}

(* A transaction that is about to insert a task under a number it drew.     *)
Inserting(x) == pc[x] = "insert" \/ (pc[x] = "apply" /\ seen[x].run = "next")

(* The task and the version a request names have existed, and no task is    *)
(* asked to depend on itself.                                               *)
TargetInv(x) ==
  pc[x] \in WorksOnTask =>
    /\ Born(req[x].task)
    /\ req[x].version <= task[req[x].task].version
    /\ req[x].task \notin req[x].deps

(* dependenciesExist stays true: a row never disappears.                    *)
DepsInv(x) ==
  pc[x] \in {"sequence", "insert"} \cup Decided => \A d \in req[x].deps : Born(d)

(* While the version that was read is the current one, so is what was read. *)
ReadInv(x) ==
  pc[x] \in Informed =>
    LET t == req[x].task
    IN /\ req[x].version <= seen[x].version
       /\ seen[x].version <= task[t].version
       /\ seen[x].version = task[t].version =>
            /\ task[t].status = seen[x].status
            /\ pc[x] \in Decided => Deps(t) = seen[x].deps

(* From the versioned write to the commit the task row is locked.           *)
OwnInv(x) ==
  pc[x] \in Owning =>
    LET t == req[x].task
    IN t \in held[x] /\ ~task[t].deleted /\ task[t].version = req[x].version

(* The board row is locked from the draw of a number to the insertion of    *)
(* its task, and from the cycle check to the insertion of its edges.        *)
BoardInv(x) ==
  \/ pc[x] = "cycle"
  \/ Inserting(x)
  \/ pc[x] \in Acyclical /\ Added(x) # {}
  => Board \in held[x]

ReserveInv(x) == Inserting(x) => ~Born(seen[x].id) /\ seen[x].seq = nextSeq

ReachInv(x) ==
  pc[x] \in Acyclical => ~Reaches(edges, Task, Added(x), req[x].task)

(* A successor is decided only by a completion, from a schedule that stays   *)
(* attached to the completed task until the commit.                          *)
RecurInv(x) ==
  /\ req[x].sched \in {"enable", "pause"} => req[x].due # 0
  /\ seen[x].run = "next" =>
       /\ pc[x] = "apply"
       /\ req[x].sched \in {"enable", "pause"} \/ AttachedTo(req[x].task) # {}
  /\ pc[x] = "generate" \/ seen[x].run = "next" => Completing(x)

TxnInv(x) ==
  /\ TargetInv(x) /\ DepsInv(x) /\ ReadInv(x) /\ OwnInv(x)
  /\ BoardInv(x) /\ ReserveInv(x) /\ ReachInv(x) /\ RecurInv(x)

LocksExclusive == \A x, y \in Txn : x # y => held[x] \cap held[y] = {}

EdgesBorn == \A e \in edges : Born(e[1]) /\ Born(e[2])

UnusedDetached == \A s \in Unused : series[s].task = None

TablesInv == EdgesBorn /\ UnusedDetached /\ DependencyGraphAcyclic /\ SequenceDense

(* The inductive invariant: true initially, kept by every step, and enough   *)
(* for the type invariant, acyclicity, dense numbering and DecisionsStillCurrent. *)
IInv == TypeOK /\ LocksExclusive /\ TablesInv /\ \A x \in Txn : TxnInv(x)

-----------------------------------------------------------------------------
(* Series and the status gate, on top of IInv. *)

Creating == {"check", "sequence", "insert"}

(* What the contract and scheduleInput refuse never gets to a transaction, and *)
(* a creation has read no status.                                              *)
RequestInv(x) ==
  /\ req[x].sched = "enable" => req[x].next # 0
  /\ pc[x] \in Creating => req[x].status # "ARCHIVED"
  /\ pc[x] \in Creating \cup {"idle"} => seen[x].status = "NOT_STARTED"

(* The check that a recurring task keeps a due date is good for as long as the *)
(* task has the version that was read: whoever attaches a schedule edits it.   *)
DueInv(x) ==
  LET t == req[x].task
  IN pc[x] \in Decided /\ seen[x].version = task[t].version
       /\ req[x].sched = "keep" /\ AttachedTo(t) # {} => req[x].due # 0

(* The instant decided for a successor is later than all that its series has   *)
(* generated, and stays so until the commit: the row lock on the completed     *)
(* task is a lock on its series.                                               *)
FreshInv(x) ==
  seen[x].run = "next" =>
    \A s \in ScheduleRows(x) : \A o \in occurrences : o.series = s => o.at < seen[x].at

(* Past the gate, an open prerequisite is one that was opened since.           *)
GateInv(x) ==
  pc[x] \in PastGate /\ req[x].status \in GatedMoveTargets /\ req[x].status # seen[x].status =>
    \A d \in req[x].deps : Blocking(d) => d \in seen[x].touched

StoryInv(x) == RequestInv(x) /\ DueInv(x) /\ FreshInv(x) /\ GateInv(x)

(* Schedules and occurrences are of tasks that exist, and a row that is not in *)
(* use has no history.                                                         *)
HistoryInv ==
  /\ \A s \in Series : series[s].task # None => Born(series[s].task)
  /\ \A o \in occurrences : Born(o.task) /\ series[o.series].start # 0

SeriesInv ==
  /\ HistoryInv /\ CurrentIsLatest /\ OccurrencesUnique
  /\ RecurringTaskHasDueDate /\ ArchivedSeriesPaused
  /\ \A x \in Txn : StoryInv(x)

(* Inductive as a whole; SeriesInv alone leans on what IInv says of the locks. *)
FullInv == IInv /\ SeriesInv
==============================================================================
