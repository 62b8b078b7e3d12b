------------------------------ MODULE TaskBoard ------------------------------
(****************************************************************************)
(* The task transactions of apps/api (tasks.repository.ts, tasks.service.ts, *)
(* recurrence.ts and the task-restore script) on one board, as concurrent   *)
(* Postgres transactions at READ COMMITTED: each statement of a handler is a *)
(* step that sees what is committed when it runs, row locks are held to the  *)
(* end, and writes become visible together at commit.                        *)
(****************************************************************************)
EXTENDS Integers, FiniteSets, FiniteSetsExt, DependencyGraph

CONSTANTS
  Task,             \* identifiers of task rows; one that is not born has seq 0
  Series,           \* identifiers of task_schedule rows
  Txn,              \* request handlers, each running one transaction at a time
  Board,            \* the board row, a lockable resource beside the task rows
  None,             \* SQL NULL
  Horizon,          \* bound on time, and the last instant of every rule (UNTIL)
  MaxVersion,       \* bound: no request names a task that reached this version
  MaxTries,         \* WRITE_CONFLICT_RETRIES
  RequestKind, RequestStatus, RequestDue, RequestDeps, RequestSchedule  \* what clients send

Status == {"NOT_STARTED", "IN_PROGRESS", "COMPLETED", "ARCHIVED"}
GatedMoveTargets == {"IN_PROGRESS", "COMPLETED"}
Unsettled == {"NOT_STARTED", "IN_PROGRESS"}
Time == 1..Horizon                    \* instants; 0 stands for NULL
ScheduleInput == {"keep", "remove", "enable", "pause"}

ASSUME ConstantsAssumption ==
  /\ Board \notin Task
  /\ None \notin Task \cup Series
  /\ Horizon \in Nat /\ MaxVersion \in Nat /\ MaxTries \in Nat \ {0}
  /\ RequestKind \subseteq {"create", "update", "delete"}
  /\ RequestStatus \subseteq Status
  /\ RequestDue \subseteq Time \cup {0}
  /\ RequestDeps \subseteq SUBSET Task
  /\ RequestSchedule \subseteq ScheduleInput

VARIABLES
  task,         \* the task table
  edges,        \* the task_dependency table
  nextSeq,      \* board.nextTaskSequence
  series,       \* the task_schedule table; a row that is not born has start 0
  occurrences,  \* the schedule_occurrence table
  now,          \* the clock
  pc,           \* the next statement of each transaction
  req,          \* the request each transaction serves
  seen,         \* what the transaction has read and decided so far
  held,         \* the row locks it holds
  tries         \* attempts of retryOnWriteConflict

tables == <<task, edges, nextSeq, series, occurrences>>
vars == <<task, edges, nextSeq, series, occurrences, now, pc, req, seen, held, tries>>

-----------------------------------------------------------------------------
(* Rows. An operator whose comment starts with "Slip" is not the program: it is *)
(* a mistake one could make in the operator after it, with which the runs are   *)
(* shown to notice the mistake.                                                 *)

NewTask(status, due, seq) ==
  [status |-> status, due |-> due, seq |-> seq, version |-> 1, deleted |-> FALSE]

Born(t) == task[t].seq # 0
Deps(t) == Prerequisites(edges, Task, t)
Blocking(d) == ~task[d].deleted /\ task[d].status \in Unsettled
AttachedTo(t) == {s \in Series : series[s].task = t}
Unused == {s \in Series : series[s].start = 0}

(* recurrence.ts nextOccurrence, for the rule that fires at every instant    *)
(* from its start on: the earliest one later than "after", or NULL.          *)
NextOccurrence(start, after) ==
  LET later == {n \in Time : n >= start /\ n > after}
  IN  IF later = {} THEN 0 ELSE Min(later)

Latest(a, b) == IF a > b THEN a ELSE b

-----------------------------------------------------------------------------
(* Requests *)

Request(kind, t, version, status, due, deps, sched) ==
  [kind |-> kind, task |-> t, version |-> version, status |-> status,
   due |-> due, deps |-> deps, sched |-> sched,
   next |-> IF sched = "enable" THEN NextOccurrence(due, Latest(due, now)) ELSE 0]

NoRequest == Request("none", None, 0, "NOT_STARTED", 0, {}, "keep")
NothingSeen ==
  [status |-> "NOT_STARTED", version |-> 0, deps |-> {}, seq |-> 0, id |-> None,
   at |-> 0, run |-> "none", touched |-> {}]

(* The contract and scheduleInput refuse a schedule without a due date and   *)
(* an enabled one with no future occurrence before any transaction starts.   *)
Parses(r) ==
  /\ r.sched \in {"enable", "pause"} => r.due # 0
  /\ r.sched = "enable" => r.next # 0

Submit(x, r, first) ==
  /\ pc[x] = "idle"
  /\ r.kind \in RequestKind /\ Parses(r)
  /\ req' = [req EXCEPT ![x] = r]
  /\ pc' = [pc EXCEPT ![x] = first]
  /\ UNCHANGED <<tables, now, seen, held, tries>>

(* createTaskRequestSchema admits every status but ARCHIVED. *)
SubmitCreate(x) ==
  \E status \in RequestStatus \ {"ARCHIVED"}, due \in RequestDue,
     deps \in RequestDeps, sched \in RequestSchedule :
    Submit(x, Request("create", None, 0, status, due, deps, sched), "check")

(* A client names a version it was once shown: the current one or an older   *)
(* one. Depending on oneself is refused by updateTask (tasks.service.ts).    *)
SubmitUpdate(x) ==
  \E t \in Task, status \in RequestStatus, due \in RequestDue,
     deps \in RequestDeps, sched \in RequestSchedule :
    /\ Born(t) /\ task[t].version < MaxVersion /\ t \notin deps
    /\ \E v \in 1..task[t].version :
         Submit(x, Request("update", t, v, status, due, deps, sched), "read")

SubmitDelete(x) ==
  \E t \in Task :
    /\ Born(t) /\ task[t].version < MaxVersion
    /\ \E v \in 1..task[t].version :
         Submit(x, Request("delete", t, v, "NOT_STARTED", 0, {}, "keep"), "visible")

-----------------------------------------------------------------------------
(* Recurrence *)

(* The schedule row the transaction works on: the attached one, or an unused   *)
(* one that the upsert creates, or none.                                       *)
ScheduleRows(x) ==
  IF AttachedTo(req[x].task) # {} THEN AttachedTo(req[x].task)
  ELSE IF req[x].sched \in {"enable", "pause"} THEN Unused
  ELSE {None}

(* That row after the schedule input of the request was applied.               *)
EditedRow(x, s) ==
  CASE req[x].sched = "keep"   -> series[s]
    [] req[x].sched = "remove" -> [series[s] EXCEPT !.task = None, !.next = 0, !.enabled = FALSE]
    [] OTHER -> [task |-> req[x].task, start |-> req[x].due, next |-> req[x].next,
                 enabled |-> req[x].sched = "enable"]

(* The occurrence of series s that generated task t, if there is one.          *)
Occurred(s, t) == {o.at : o \in {p \in occurrences : p.series = s /\ p.task = t}}

(* generateNextOccurrenceOnCompletion: the series goes on only from an enabled *)
(* row that knows its current occurrence; then the next instant is decided.    *)
Recurs(x, s) ==
  /\ s # None
  /\ EditedRow(x, s).enabled
  /\ Occurred(s, req[x].task) # {} \/ EditedRow(x, s).next # 0

(* Slip: the next instant is counted from now only. *)
AnchorNow(current) == now
Anchor(current) == Latest(current, now)

ScheduledAt(x, s) ==
  LET row     == EditedRow(x, s)
      at      == Occurred(s, req[x].task)
      current == IF at # {} THEN Min(at) ELSE row.next
  IN IF at = {} /\ current > now
       THEN current
       ELSE NextOccurrence(row.start, Anchor(current))

-----------------------------------------------------------------------------
(* Transactions: locks, the end of one, its retry *)

LockFree(x, row) == \A y \in Txn \ {x} : row \notin held[y]

(* Slip: the board row is read without locking it.                            *)
ReadBoard(x) == UNCHANGED held

(* The board row is locked to the end of the transaction, by FOR UPDATE or by  *)
(* the update of nextTaskSequence.                                            *)
TakeBoard(x) ==
  /\ LockFree(x, Board)
  /\ held' = [held EXCEPT ![x] = @ \cup {Board}]

(* Slip: the transaction is left open when the request is answered.           *)
NotReleased(x) == held
Released(x) == [held EXCEPT ![x] = {}]

Goto(x, label) == pc' = [pc EXCEPT ![x] = label]

(* A commit that changed the rows "rows" is seen by the transactions whose    *)
(* status gate already let them pass: their "touched" remembers it.           *)
PastGate == {"sequence", "insert", "write", "generate", "apply"}
Noted(y, rows) ==
  IF pc[y] \in PastGate /\ req[y].status \in GatedMoveTargets
    THEN [seen[y] EXCEPT !.touched = @ \cup (rows \cap req[y].deps)]
    ELSE seen[y]

(* Commit or roll back: every lock is released and the request is answered.   *)
Finish(x, rows) ==
  /\ Goto(x, "idle")
  /\ req' = [req EXCEPT ![x] = NoRequest]
  /\ seen' = [y \in Txn |-> IF y = x THEN NothingSeen ELSE Noted(y, rows)]
  /\ held' = Released(x)
  /\ tries' = [tries EXCEPT ![x] = 1]
  /\ UNCHANGED now

Answer(x) == Finish(x, {}) /\ UNCHANGED tables
Proceed(x, label) == Goto(x, label) /\ UNCHANGED <<tables, now, req, tries>>

(* A request that ends without effect at any point: the board is not the      *)
(* caller's, the assignee is not a member, a statement fails, the interactive *)
(* transaction times out or the API process dies and Postgres rolls back.     *)
Abandon(x) == pc[x] # "idle" /\ Answer(x)

(* A creation waits for the board too, but holds no row anybody waits for.    *)
WaitsForBoard(x) ==
  /\ ~LockFree(x, Board)
  /\ \/ pc[x] = "lock"
     \/ /\ pc[x] = "generate"
        /\ \E s \in ScheduleRows(x) : Recurs(x, s) /\ ScheduledAt(x, s) # 0
WaitsForRow(x) == pc[x] = "write" /\ ~LockFree(x, req[x].task)

(* Slip: one retry too many. *)
MayRetryAgain(x) == tries[x] <= MaxTries
MayRetry(x) == tries[x] < MaxTries

(* Postgres aborts one of two transactions that wait for each other (P2034);  *)
(* retryOnWriteConflict runs it again from its first statement, or gives up.  *)
BreakDeadlock(x) ==
  /\ \E y \in Txn \ {x} :
       \/ WaitsForBoard(x) /\ Board \in held[y]
            /\ WaitsForRow(y) /\ req[y].task \in held[x]
       \/ WaitsForBoard(y) /\ Board \in held[x]
            /\ WaitsForRow(x) /\ req[x].task \in held[y]
  /\ IF MayRetry(x)
       THEN /\ tries' = [tries EXCEPT ![x] = @ + 1]
            /\ Goto(x, "read")
            /\ seen' = [seen EXCEPT ![x] = NothingSeen]
            /\ held' = Released(x)
            /\ UNCHANGED <<tables, now, req>>
       ELSE Answer(x)

(* Slip: the prerequisites the task had, not the ones it is to have. *)
GateOpenBefore(x) ==
  req[x].status \in GatedMoveTargets /\ req[x].status # seen[x].status
    => \A d \in seen[x].deps : ~Blocking(d)

(* dependenciesAreSettled, asked only of a task that enters a gated status.    *)
GateOpen(x) ==
  req[x].status \in GatedMoveTargets /\ req[x].status # seen[x].status
    => \A d \in req[x].deps : ~Blocking(d)

-----------------------------------------------------------------------------
(* createForMember *)

(* dependenciesExist, which also counts soft-deleted rows, and the gate. A     *)
(* row never disappears, so the two reads may be taken as one. "seen.status"   *)
(* is NOT_STARTED here: creation into a gated status is always checked.        *)
CheckCreate(x) ==
  /\ pc[x] = "check"
  /\ IF (\A d \in req[x].deps : Born(d)) /\ GateOpen(x)
       THEN Proceed(x, "sequence") /\ UNCHANGED <<seen, held>>
       ELSE Answer(x)

(* board.update increments nextTaskSequence and so locks the board row; the    *)
(* new identifier is one no row has.                                           *)
TakeSequence(x) ==
  /\ pc[x] = "sequence"
  /\ TakeBoard(x)
  /\ \E t \in Task :
       /\ ~Born(t)
       /\ seen' = [seen EXCEPT ![x].seq = nextSeq, ![x].id = t]
  /\ Proceed(x, "insert")

(* The rows that appear at commit: task, edges and, if one was sent, schedule.     *)
CommitCreate(x) ==
  LET r == req[x]
      t == seen[x].id
  IN /\ pc[x] = "insert"
     /\ task' = [task EXCEPT ![t] = NewTask(r.status, r.due, seen[x].seq)]
     /\ edges' = edges \cup ({t} \X r.deps)
     /\ nextSeq' = seen[x].seq + 1
     /\ \/ r.sched \in {"keep", "remove"} /\ UNCHANGED series
        \/ r.sched \in {"enable", "pause"}
             /\ \E s \in Unused :
                  series' = [series EXCEPT ![s] =
                    [task |-> t, start |-> r.due, next |-> r.next,
                     enabled |-> r.sched = "enable"]]
     /\ UNCHANGED occurrences
     /\ Finish(x, {t})

-----------------------------------------------------------------------------
(* updateForMember *)

(* The first read: the task row.                                               *)
ReadExisting(x) ==
  LET t == req[x].task
  IN /\ pc[x] = "read"
     /\ IF task[t].deleted
          THEN Answer(x)
          ELSE /\ seen' = [seen EXCEPT ![x].status = task[t].status,
                                       ![x].version = task[t].version]
               /\ Proceed(x, "edges")
               /\ UNCHANGED held

(* Slip: the schedule the task already has is forgotten. *)
SendsSchedule(x) == req[x].sched \in {"enable", "pause"}
KeepsSchedule(x) ==
  \/ req[x].sched \in {"enable", "pause"}
  \/ req[x].sched = "keep" /\ AttachedTo(req[x].task) # {}

(* Its schedule and its dependency rows are fetched by statements of their     *)
(* own: a recurring task must keep a due date. dependenciesExist follows. Only *)
(* an added prerequisite needs the board lock.                                 *)
ReadEdges(x) ==
  LET current == Deps(req[x].task)
  IN /\ pc[x] = "edges"
     /\ IF (KeepsSchedule(x) => req[x].due # 0) /\ (\A d \in req[x].deps : Born(d))
          THEN /\ seen' = [seen EXCEPT ![x].deps = current]
               /\ Proceed(x, IF req[x].deps \subseteq current THEN "gate" ELSE "lock")
               /\ UNCHANGED held
          ELSE Answer(x)

(* Slip: no lock before the cycle check. *)
SkipBoardGraph(x) ==
  /\ pc[x] = "lock"
  /\ Proceed(x, "cycle")
  /\ UNCHANGED <<seen, held>>

LockBoardGraph(x) ==
  /\ pc[x] = "lock"
  /\ TakeBoard(x)
  /\ Proceed(x, "cycle")
  /\ UNCHANGED seen

Added(x) == req[x].deps \ seen[x].deps

CheckCycle(x) ==
  /\ pc[x] = "cycle"
  /\ IF Reaches(edges, Task, Added(x), req[x].task)
       THEN Answer(x)
       ELSE Proceed(x, "gate") /\ UNCHANGED <<seen, held>>

CheckGate(x) ==
  /\ pc[x] = "gate"
  /\ IF GateOpen(x)
       THEN Proceed(x, "write") /\ UNCHANGED <<seen, held>>
       ELSE Answer(x)

(* Slip: an edit that leaves a task completed counts as its completion. *)
Completed(x) == req[x].status = "COMPLETED"
Completing(x) == req[x].status = "COMPLETED" /\ seen[x].status # "COMPLETED"

(* Slip: any active row will do. *)
RowActive(x) == ~task[req[x].task].deleted
VersionMatches(x) ==
  task[req[x].task].version = req[x].version /\ ~task[req[x].task].deleted

(* updateMany: waits for the row, then the version predicate decides. Zero     *)
(* rows is VERSION_CONFLICT or NOT_FOUND, and nothing was written.             *)
WriteTask(x) ==
  LET t == req[x].task
  IN /\ pc[x] = "write"
     /\ LockFree(x, t)
     /\ IF VersionMatches(x)
          THEN /\ held' = [held EXCEPT ![x] = @ \cup {t}]
               /\ Proceed(x, IF Completing(x) THEN "generate" ELSE "apply")
               /\ UNCHANGED seen
          ELSE Answer(x)

(* The generated task takes its number from the board row, which is locked for *)
(* it; an exhausted rule ends the series.                                      *)
Decide(x, run, at, t, n) ==
  seen' = [seen EXCEPT ![x].run = run, ![x].at = at, ![x].id = t, ![x].seq = n]

GenerateNextOccurrence(x) ==
  /\ pc[x] = "generate"
  /\ \E s \in ScheduleRows(x) :
       \/ /\ ~Recurs(x, s)
          /\ Decide(x, "none", 0, None, 0)
          /\ UNCHANGED held
       \/ /\ Recurs(x, s) /\ ScheduledAt(x, s) = 0
          /\ Decide(x, "end", 0, None, 0)
          /\ UNCHANGED held
       \/ /\ Recurs(x, s) /\ ScheduledAt(x, s) # 0
          /\ TakeBoard(x)
          /\ \E g \in Task : ~Born(g) /\ Decide(x, "next", ScheduledAt(x, s), g, nextSeq)
  /\ Proceed(x, "apply")

(* Slip: the schedule stays with the completed task. *)
StayedOver(x, row, next) == [row EXCEPT !.next = next, !.enabled = next # 0]
HandedOver(x, row, next) ==
  [row EXCEPT !.task = seen[x].id, !.next = next, !.enabled = next # 0]

(* Slip: archiving leaves the schedule alone. *)
Exhausted(x) == seen[x].run = "end"
Paused(x) == seen[x].run = "end" \/ req[x].status = "ARCHIVED"

(* The schedule row at commit: edited, then paused by an archive, ended by an    *)
(* exhausted rule, or handed over to the generated task.                         *)
CommittedRow(x, s) ==
  LET row == EditedRow(x, s)
  IN CASE seen[x].run = "next" ->
            HandedOver(x, row, NextOccurrence(row.start, seen[x].at))
       [] Paused(x) -> [row EXCEPT !.next = 0, !.enabled = FALSE]
       [] OTHER -> row

CommitUpdate(x) ==
  LET r == req[x]
      t == r.task
      edited == [task EXCEPT ![t].status = r.status, ![t].due = r.due,
                             ![t].version = @ + 1]
  IN /\ pc[x] = "apply"
     /\ edges' = Rewired(edges, t, seen[x].deps, r.deps)
     /\ \E s \in ScheduleRows(x) :
          /\ series' = IF s = None THEN series
                       ELSE [series EXCEPT ![s] = CommittedRow(x, s)]
          /\ IF seen[x].run = "next"
               THEN /\ task' = [edited EXCEPT ![seen[x].id] =
                                  NewTask("NOT_STARTED", seen[x].at, seen[x].seq)]
                    /\ nextSeq' = seen[x].seq + 1
                    /\ occurrences' = occurrences \cup
                         {[series |-> s, at |-> seen[x].at, task |-> seen[x].id]}
               ELSE task' = edited /\ UNCHANGED <<nextSeq, occurrences>>
     /\ Finish(x, {t})

-----------------------------------------------------------------------------
(* deleteForMember, the restore script and the clock *)

ReadVisible(x) ==
  /\ pc[x] = "visible"
  /\ IF VersionMatches(x)
       THEN Proceed(x, "remove") /\ UNCHANGED <<seen, held>>
       ELSE Answer(x)

(* The write names the task by its id alone. *)
Remove(x) ==
  LET t == req[x].task
  IN /\ pc[x] = "remove"
     /\ LockFree(x, t)
     /\ task' = [task EXCEPT ![t].deleted = TRUE, ![t].version = @ + 1]
     /\ UNCHANGED <<edges, nextSeq, series, occurrences>>
     /\ Finish(x, {t})

Restore(t) ==
  /\ Born(t) /\ task[t].deleted /\ task[t].version < MaxVersion
  /\ \A x \in Txn : t \notin held[x]
  /\ task' = [task EXCEPT ![t].deleted = FALSE, ![t].version = @ + 1]
  /\ seen' = [y \in Txn |-> Noted(y, {t})]
  /\ UNCHANGED <<edges, nextSeq, series, occurrences, now, pc, req, held, tries>>

Tick ==
  /\ now < Horizon
  /\ now' = now + 1
  /\ UNCHANGED <<tables, pc, req, seen, held, tries>>

-----------------------------------------------------------------------------
Init ==
  /\ task = [t \in Task |-> NewTask("NOT_STARTED", 0, 0)]
  /\ edges = {}
  /\ nextSeq = 1
  /\ series = [s \in Series |-> [task |-> None, start |-> 0, next |-> 0, enabled |-> FALSE]]
  /\ occurrences = {}
  /\ now = 0
  /\ pc = [x \in Txn |-> "idle"]
  /\ req = [x \in Txn |-> NoRequest]
  /\ seen = [x \in Txn |-> NothingSeen]
  /\ held = [x \in Txn |-> {}]
  /\ tries = [x \in Txn |-> 1]

(* The statements of a running transaction. *)
Step(x) ==
  \/ CheckCreate(x) \/ TakeSequence(x) \/ CommitCreate(x)
  \/ ReadExisting(x) \/ ReadEdges(x) \/ LockBoardGraph(x) \/ CheckCycle(x)
  \/ CheckGate(x) \/ WriteTask(x) \/ GenerateNextOccurrence(x) \/ CommitUpdate(x)
  \/ ReadVisible(x) \/ Remove(x)

Next ==
  \/ \E x \in Txn : SubmitCreate(x) \/ SubmitUpdate(x) \/ SubmitDelete(x)
                      \/ Step(x) \/ Abandon(x) \/ BreakDeadlock(x)
  \/ \E t \in Task : Restore(t)
  \/ Tick

Spec == Init /\ [][Next]_vars

-----------------------------------------------------------------------------
(* Properties *)

Row == [status : Status, due : Time \cup {0}, seq : Nat, version : Nat, deleted : BOOLEAN]
Schedule == [task : Task \cup {None}, start : Time \cup {0}, next : Time \cup {0},
             enabled : BOOLEAN]
Requests ==
  [kind : {"none", "create", "update", "delete"}, task : Task \cup {None}, version : Nat,
   status : Status, due : Time \cup {0}, deps : SUBSET Task, sched : ScheduleInput,
   next : Time \cup {0}]
Reading ==
  [status : Status, version : Nat, deps : SUBSET Task, seq : Nat, id : Task \cup {None},
   at : Time \cup {0}, run : {"none", "end", "next"}, touched : SUBSET Task]
Labels ==
  {"idle", "check", "sequence", "insert", "read", "edges", "lock", "cycle", "gate",
   "write", "generate", "apply", "visible", "remove"}

TablesTypeOK ==
  /\ task \in [Task -> Row]
  /\ edges \subseteq Task \X Task
  /\ nextSeq \in Nat \ {0}
  /\ series \in [Series -> Schedule]
  /\ occurrences \subseteq [series : Series, at : Time, task : Task]

TransactionsTypeOK ==
  /\ now \in 0..Horizon
  /\ pc \in [Txn -> Labels]
  /\ req \in [Txn -> Requests]
  /\ seen \in [Txn -> Reading]
  /\ held \in [Txn -> SUBSET (Task \cup {Board})]
  /\ tries \in [Txn -> 1..MaxTries]

(* Every table row, request and transaction has the shape the code gives it;  *)
(* a transaction that works on a task row, or on the row it is about to        *)
(* insert, knows which one, and a generated task has its instant.              *)
WorksOnTask == {"read", "edges", "lock", "cycle", "gate", "write", "generate", "apply",
                "visible", "remove"}
TargetsOK ==
  \A x \in Txn :
    /\ pc[x] \in WorksOnTask => req[x].task \in Task
    /\ pc[x] = "insert" => seen[x].id \in Task
    /\ seen[x].run = "next" => seen[x].id \in Task /\ seen[x].at # 0

TypeOK == TablesTypeOK /\ TransactionsTypeOK /\ TargetsOK

(* However the transactions interleave, no task comes to depend on itself      *)
(* through other tasks, soft-deleted ones included: what lockBoardGraph and    *)
(* the re-read of the edges after it are for.                                  *)
DependencyGraphAcyclic == Acyclic(edges, Task)

(* The numbers of a board's tasks have no duplicate and no gap, under          *)
(* concurrent creation and generation and whatever rolls back.                 *)
SequenceDense ==
  /\ \A t, u \in Task : Born(t) /\ task[t].seq = task[u].seq => t = u
  /\ {task[t].seq : t \in {u \in Task : Born(u)}} = 1..(nextSeq - 1)

(* An update whose version predicate won acts on what it read before it had    *)
(* the row: the status that decided the gate and the recurrence, and the edges *)
(* from which the added and removed ones were computed, are still the          *)
(* committed ones, so a stale edit never rewrites status or dependencies.      *)
DecisionsStillCurrent ==
  \A x \in Txn : pc[x] \in {"generate", "apply"} =>
    LET t == req[x].task
    IN /\ ~task[t].deleted
       /\ task[t].version = req[x].version
       /\ task[t].status = seen[x].status
       /\ Deps(t) = seen[x].deps

(* A task enters In Progress or Completed only with its prerequisites settled: *)
(* one that is open at the commit was opened after the transaction looked.     *)
EntersGate(t) ==
  /\ task'[t].status \in GatedMoveTargets
  /\ task'[t].seq # 0
  /\ task[t].seq = 0 \/ task'[t].status # task[t].status

GateHonoured ==
  [][\A x \in Txn, t \in Task :
       pc[x] \in PastGate /\ pc'[x] = "idle" /\ EntersGate(t) =>
         \A d \in Task : <<t, d>> \in edges' /\ Blocking(d) => d \in seen[x].touched]_vars

(* A schedule belongs to one task at most; once it has generated tasks, it     *)
(* belongs to the one generated last, so completing an older occurrence again  *)
(* cannot fork the series.                                                     *)
CurrentIsLatest ==
  \A s \in Series : series[s].task # None =>
    /\ AttachedTo(series[s].task) = {s}
    /\ \A o \in occurrences : o.series = s =>
         \E p \in occurrences : p.series = s /\ p.task = series[s].task /\ p.at >= o.at

(* The unique keys of schedule_occurrence are never hit: an instant is         *)
(* generated once per series, and a task by one occurrence.                    *)
OccurrencesUnique ==
  \A o, p \in occurrences :
    o.task = p.task \/ (o.series = p.series /\ o.at = p.at) => o = p

(* A recurring task has a due date, although the update that clears the date    *)
(* and the one that adds the schedule check each other without a lock.          *)
RecurringTaskHasDueDate ==
  \A s \in Series : series[s].task # None => task[series[s].task].due # 0

(* An enabled schedule knows its next run, and archiving its task pauses it.    *)
ArchivedSeriesPaused ==
  \A s \in Series : series[s].enabled =>
    /\ series[s].next # 0 /\ series[s].task # None
    /\ task[series[s].task].status # "ARCHIVED"

(* The interleaved transactions are the atomic operations of TaskLedger, on the *)
(* same tables: every commit is one of them and every other step is invisible.  *)
Ledger == INSTANCE TaskLedger WITH task <- task, edges <- edges, nextSeq <- nextSeq
ImplementsLedger == Ledger!Spec

(* The same for a board that is not empty at first: each commit of the racing    *)
(* handlers is one atomic operation, so two of them that complete the same        *)
(* recurring task bring one successor.                                            *)
CommitsAreOperations == [][Ledger!Next]_<<task, edges, nextSeq>>

(* tasks.ts of the contracts: "Deletion carries the expected version so a stale *)
(* removal cannot win."                                                         *)
StaleRemovalNeverWins ==
  [][\A x \in Txn : Remove(x) => task[req[x].task].version = req[x].version]_vars

(* tasks.types.ts: the answer DEPENDENCY_NOT_FOUND is for "a dependency id that  *)
(* is unknown, deleted, or belongs to another board".                           *)
NewDependencyIsLive ==
  [][\A t, d \in Task : <<t, d>> \in edges' \ edges => ~task[d].deleted]_vars

(* docs/architecture.md: the due date of a recurring task "is the current        *)
(* occurrence's date and the schedule anchor", so the successor that its         *)
(* completion decides on falls after it.                                         *)
SuccessorAdvancesDueDate ==
  \A x \in Txn : pc[x] = "apply" /\ seen[x].run = "next" => seen[x].at > req[x].due

(* Every request is answered. A waiting transaction gets its lock in turn        *)
(* (Postgres queues waiters), two that wait for each other are broken apart,     *)
(* and one that needs an identifier the model ran out of is abandoned.           *)
OutOfIds(x) ==
  /\ Abandon(x)
  /\ \/ pc[x] \in {"sequence", "generate"} /\ \A t \in Task : Born(t)
     \/ pc[x] = "insert" /\ Unused = {}
     \/ pc[x] \in {"generate", "apply"} /\ ScheduleRows(x) = {}

Fairness ==
  \A x \in Txn : SF_vars(Step(x)) /\ WF_vars(BreakDeadlock(x)) /\ WF_vars(OutOfIds(x))

RequestsAnswered == \A x \in Txn : pc[x] # "idle" ~> pc[x] = "idle"
==============================================================================
