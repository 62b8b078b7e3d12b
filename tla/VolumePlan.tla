------------------------------ MODULE VolumePlan ------------------------------
(****************************************************************************)
(* buildVolumePlan for one board: the loop draws a task, then its prerequisites *)
(* and its schedule. The generator is seeded, so a dataset is one path through    *)
(* this module; every draw is a choice here. The plan is written to the database    *)
(* as it is, past every check of the API.                                            *)
(****************************************************************************)
EXTENDS Integers, FiniteSetsExt, SequencesExt, DependencyGraph

CONSTANTS
  TaskCount,      \* tasks of the board
  Window,         \* how far back a prerequisite is drawn (50)
  MaxSchedules    \* MAX_SCHEDULES_PER_BOARD (5)

VARIABLES
  tasks,          \* boardTasks: [status, live, dated], in order of sequence
  dependencies,   \* pairs of sequences
  schedules       \* sequences of the tasks with a schedule

vars == <<tasks, dependencies, schedules>>

Statuses == {"NOT_STARTED", "IN_PROGRESS", "COMPLETED", "ARCHIVED"}
Sequences == 1..Len(tasks)
Settled(s) == tasks[s].status \in {"COMPLETED", "ARCHIVED"}

Init == tasks = <<>> /\ dependencies = {} /\ schedules = {}

MayDepend(task) == task.status = "NOT_STARTED" /\ task.live

(* Up to six draws for one or two prerequisites: fewer are chosen when the draws  *)
(* meet deleted tasks or each other.                                              *)
Chosen(s) ==
  UNION {kSubset(n, {d \in (s - Min({Window, s - 1}))..(s - 1) : tasks[d].live}) : n \in 0..2}

MayRepeat(task) ==
  task.status = "NOT_STARTED" /\ task.live /\ Cardinality(schedules) < MaxSchedules

PlanTask(task) ==
  LET s == Len(tasks) + 1 IN
  /\ s <= TaskCount
  /\ tasks' = Append(tasks, task)
  /\ \E chosen \in IF s > 1 /\ MayDepend(task) THEN Chosen(s) ELSE {{}} :
       dependencies' = dependencies \cup ({s} \X chosen)
  /\ \/ UNCHANGED schedules
     \/ MayRepeat(task) /\ schedules' = schedules \cup {s}

Next == \E task \in [status : Statuses, live : BOOLEAN, dated : BOOLEAN] : PlanTask(task)

Spec == Init /\ [][Next]_vars

-----------------------------------------------------------------------------
(* What the handlers enforce for rows that come through the API holds of the      *)
(* planned rows: the graph is acyclic and joins live tasks only, no task has been   *)
(* started or finished over a prerequisite that is not settled (the comment at       *)
(* seed-volume.ts:387-389), and a schedule runs only on a live task that is not       *)
(* archived.                                                                           *)
PlanObeysApi ==
  /\ Acyclic(dependencies, Sequences)
  /\ \A e \in dependencies :
       /\ tasks[e[1]].live /\ tasks[e[2]].live
       /\ tasks[e[1]].status \in {"IN_PROGRESS", "COMPLETED"} => Settled(e[2])
  /\ \A s \in schedules : tasks[s].live /\ tasks[s].status # "ARCHIVED"

(* docs/architecture.md:357: a recurring task must have a due date, which is the   *)
(* current occurrence's date and the schedule's anchor.                             *)
PlannedRecurringHasDueDate == \A s \in schedules : tasks[s].dated
==============================================================================
