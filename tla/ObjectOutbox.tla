----------------------------- MODULE ObjectOutbox -----------------------------
(* What the cleanup outbox (table object_cleanup) promises of the object store: *)
(* an object goes only while its row is pending, and a row is completed only    *)
(* when its object is gone.                                                     *)
CONSTANTS Object
VARIABLES stored,    \* keys of the objects in the bucket
          cleanup    \* the object_cleanup table: "none", "pending" or "done"

Enlist(o) ==
  /\ cleanup[o] = "none"
  /\ cleanup' = [cleanup EXCEPT ![o] = "pending"]
  /\ UNCHANGED stored

Discard(o) ==
  /\ cleanup[o] = "pending"
  /\ stored' = stored \ {o}
  /\ UNCHANGED cleanup

Complete(o) ==
  /\ cleanup[o] = "pending" /\ o \notin stored
  /\ cleanup' = [cleanup EXCEPT ![o] = "done"]
  /\ UNCHANGED stored

Clean == \E o \in Object : Discard(o) \/ Complete(o)

Init == stored \subseteq Object /\ cleanup \in [Object -> {"none", "pending"}]
Spec == Init /\ [][Clean \/ \E o \in Object : Enlist(o)]_<<stored, cleanup>>
==============================================================================
