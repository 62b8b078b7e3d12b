----------------------------- MODULE CycleSearch -----------------------------
(****************************************************************************)
(* wouldCreateCycle of tasks.repository.ts: the search, over the edges of   *)
(* one board as one query returned them, for the task that is being edited, *)
(* from the prerequisites that the edit adds. The stack is kept as a set:   *)
(* the query orders the edges as it likes, so any pending task may be on    *)
(* top, and a task that was pushed twice is skipped the second time.        *)
(****************************************************************************)
EXTENDS DependencyGraph

CONSTANT Task

VARIABLES
  edges,    \* what findMany returned
  taskId,   \* the task that is edited
  added,    \* newDependsOnIds
  pending,  \* the stack
  visited,
  answer    \* "open" while the loop runs

vars == <<edges, taskId, added, pending, visited, answer>>

(* The graph of a board has no cycle yet, and only a new prerequisite, never *)
(* the task itself, is searched from.                                        *)
Init ==
  /\ edges \in SUBSET (Task \X Task) /\ Acyclic(edges, Task)
  /\ taskId \in Task
  /\ added \in SUBSET (Task \ (Prerequisites(edges, Task, taskId) \cup {taskId}))
  /\ added # {}
  /\ pending = added
  /\ visited = {}
  /\ answer = "open"

(* Slip: the top of the stack is looked at, not popped. *)
Peeked(current) == pending
Popped(current) == pending \ {current}

(* Slip: only the added prerequisites are looked at. *)
Unexpanded(current) == Popped(current)
Expanded(current) == Popped(current) \cup Prerequisites(edges, Task, current)

Visit(current) ==
  /\ answer = "open"
  /\ current \in pending
  /\ \/ /\ current \in visited
        /\ pending' = Popped(current)
        /\ UNCHANGED <<visited, answer>>
     \/ /\ current \notin visited /\ current = taskId
        /\ answer' = "cycle"
        /\ pending' = Popped(current)
        /\ UNCHANGED visited
     \/ /\ current \notin visited /\ current # taskId
        /\ visited' = visited \cup {current}
        /\ pending' = Expanded(current)
        /\ UNCHANGED answer
  /\ UNCHANGED <<edges, taskId, added>>

Exhaust ==
  /\ answer = "open" /\ pending = {}
  /\ answer' = "none"
  /\ UNCHANGED <<edges, taskId, added, pending, visited>>

Next == (\E current \in Task : Visit(current)) \/ Exhaust

Spec == Init /\ [][Next]_vars
FairSpec == Spec /\ WF_vars(Next)

-----------------------------------------------------------------------------
(* Properties *)

TypeOK ==
  /\ edges \subseteq Task \X Task /\ taskId \in Task
  /\ added \subseteq Task /\ pending \subseteq Task /\ visited \subseteq Task
  /\ answer \in {"open", "cycle", "none"}

(* The search answers what the transactions of TaskBoard ask: whether the new  *)
(* edges would close a cycle. Its answer is right for any graph and order.      *)
SearchCorrect ==
  /\ answer = "cycle" => Reaches(edges, Task, added, taskId)
  /\ answer = "none"  => ~Reaches(edges, Task, added, taskId)

(* So the graph with the edges that were let through has no cycle, and one that *)
(* was refused would have had one.                                              *)
AnswerDecidesAcyclicity ==
  answer # "open" =>
    (answer = "none" <=> Acyclic(edges \cup ({taskId} \X added), Task))

(* The loop ends, although tasks are pushed again and again.                   *)
SearchEnds == <>(answer # "open")
==============================================================================
