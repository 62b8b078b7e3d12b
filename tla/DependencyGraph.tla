--------------------------- MODULE DependencyGraph ---------------------------
(****************************************************************************)
(* The prerequisite graph of one board, as the task_dependency table keeps  *)
(* it: a set of pairs <<taskId, dependsOnTaskId>> over the board's tasks.    *)
(* Reachability and acyclicity are stated with closed sets, so that nothing *)
(* here is recursive; module CycleSearch shows that the depth-first search  *)
(* of the code decides the same question.                                   *)
(****************************************************************************)

(* The prerequisites of task t under the edges E. *)
Prerequisites(E, N, t) == {d \in N : <<t, d>> \in E}

(* S contains every prerequisite of its members. *)
Closed(E, S) == \A e \in E : e[1] \in S => e[2] \in S

(* Some task of "from" is t or depends, transitively, on t. *)
Reaches(E, N, from, t) ==
  \A S \in SUBSET N : from \subseteq S /\ Closed(E, S) => t \in S

(* No task depends on itself through any chain of prerequisites: every      *)
(* non-empty set of tasks has one with no prerequisite inside the set.      *)
Acyclic(E, N) ==
  \A S \in SUBSET N : S # {} => \E a \in S : \A b \in S : <<a, b>> \notin E

(* Slip: deleteMany without the task in its where clause.                    *)
RewiredEverywhere(E, t, old, new) ==
  {e \in E : e[2] \notin old \ new} \cup ({t} \X (new \ old))

(* The edges after a task's dependency set is rewritten from "old" to "new": *)
(* the removed ones are deleted and only the added ones inserted.            *)
Rewired(E, t, old, new) ==
  (E \ ({t} \X (old \ new))) \cup ({t} \X (new \ old))
==============================================================================
