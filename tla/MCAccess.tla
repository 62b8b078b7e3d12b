------------------------------- MODULE MCAccess -------------------------------
(****************************************************************************)
(* Two parts of the API whose handlers race over more than one store, checked *)
(* by one run: the access to a board (BoardAccess) and the files of a task    *)
(* (FileService). Init chooses the part in play and the other one rests. The   *)
(* worker rests too: the outbox does what it may do, which FileService_proofs   *)
(* shows to be all that it does.                                                 *)
(****************************************************************************)
EXTENDS BoardAccess, FileService, TLC

VARIABLE part

(* Files of one unit against a limit of one unit: two uploads already race.    *)
OneUnit == [o \in Object |-> 1]

files == <<stored, cleanup, service>>
all == <<part, files, worker, vars>>

Symmetry == Permutations(Invitation) \cup Permutations(Handler)

AccessInit == Init /\ part \in {"access", "files"} /\ FileInit
AccessNext ==
  \/ part = "access" /\ Next /\ UNCHANGED <<part, files, worker>>
  \/ part = "files" /\ Files!Next /\ UNCHANGED <<part, worker, vars>>

AccessSpec == AccessInit /\ [][AccessNext]_all
==============================================================================
