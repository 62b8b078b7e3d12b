----------------------------- MODULE MCTaskBoard -----------------------------
(* Instances of TaskBoard for TLC; the .cfg files pick the inputs of each. *)
EXTENDS TaskBoardInvariant, TLC

NoDeps == {{}}
SingleDeps == {{}} \cup {{t} : t \in Task}
AllDeps == SUBSET Task
Symmetry == Permutations(Task) \cup Permutations(Txn)
SeriesSymmetry == Symmetry \cup Permutations(Series)
==============================================================================
