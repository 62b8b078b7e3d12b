----------------------------- MODULE TaskLedger ------------------------------
(****************************************************************************)
(* What the task API promises, without transactions: every operation takes  *)
(* effect at one instant. A task is written whole and counts its versions,  *)
(* an edit replaces the dependencies of its own task and of no other, the   *)
(* graph stays acyclic, numbers are handed out one by one, and completing a *)
(* task brings at most one successor.                                       *)
(****************************************************************************)
EXTENDS Integers, DependencyGraph

CONSTANTS Task
VARIABLES task, edges, nextSeq

Fresh(t) == task[t].seq = 0
Live(t) == task[t].seq # 0 /\ ~task[t].deleted

(* A row as it is first written: version 1, visible, under the next number.  *)
Inserted(row) == row.seq = nextSeq /\ row.version = 1 /\ ~row.deleted

OnlyEdgesOf(t) == \A e \in (edges \ edges') \cup (edges' \ edges) : e[1] = t

Create(t) ==
  /\ Fresh(t) /\ Inserted(task'[t])
  /\ task' = [task EXCEPT ![t] = task'[t]]
  /\ nextSeq' = nextSeq + 1
  /\ OnlyEdgesOf(t) /\ edges \subseteq edges'
  /\ Acyclic(edges', Task)

Edited(t) ==
  [task EXCEPT ![t].status = task'[t].status, ![t].due = task'[t].due,
               ![t].version = @ + 1]

Edit(t) ==
  /\ Live(t)
  /\ task' = Edited(t)
  /\ OnlyEdgesOf(t)
  /\ Acyclic(edges', Task)
  /\ UNCHANGED nextSeq

(* The completion of a recurring task: one successor, not started, dated and   *)
(* without dependencies, in the same instant.                                  *)
CompleteAndRecur(t, g) ==
  /\ Live(t) /\ Fresh(g)
  /\ task[t].status # "COMPLETED" /\ task'[t].status = "COMPLETED"
  /\ Inserted(task'[g]) /\ task'[g].status = "NOT_STARTED" /\ task'[g].due # 0
  /\ task' = [Edited(t) EXCEPT ![g] = task'[g]]
  /\ nextSeq' = nextSeq + 1
  /\ OnlyEdgesOf(t)
  /\ \A e \in edges' : g \notin {e[1], e[2]}
  /\ Acyclic(edges', Task)

Remove(t) ==
  /\ task[t].seq # 0
  /\ task' = [task EXCEPT ![t].deleted = TRUE, ![t].version = @ + 1]
  /\ UNCHANGED <<edges, nextSeq>>

Restore(t) ==
  /\ task[t].seq # 0 /\ task[t].deleted
  /\ task' = [task EXCEPT ![t].deleted = FALSE, ![t].version = @ + 1]
  /\ UNCHANGED <<edges, nextSeq>>

Init ==
  /\ \A t \in Task : Fresh(t)
  /\ edges = {}
  /\ nextSeq = 1

Next ==
  \/ \E t \in Task : Create(t) \/ Edit(t) \/ Remove(t) \/ Restore(t)
  \/ \E t, g \in Task : CompleteAndRecur(t, g)

Spec == Init /\ [][Next]_<<task, edges, nextSeq>>
==============================================================================
