------------------------------ MODULE BoardPanel ------------------------------
(****************************************************************************)
(* The settings page of one board and its edit panel (BoardOverviewPage.tsx,   *)
(* BoardEditPanel.tsx): the cached board, a refetch in flight, a form that keeps  *)
(* the version it was filled from, and the recovery from a conflict. The admin     *)
(* of this page changes the name and sends the description back as it was read;     *)
(* other admins change either.                                                       *)
(****************************************************************************)
EXTENDS Integers

CONSTANTS Name, Text, MaxSaves, Nothing

VARIABLES
  board,      \* the saved row: version, name and description
  cached,     \* the row in the query cache
  fetched,    \* what the refetch in flight has read, or Nothing
  form,       \* the values of the panel, or Nothing
  saving,     \* "no", "sent", "saved", "conflict" or "refused"
  sent,       \* the values of the save under way, then the row in its answer
  recovering  \* the panel waits for the latest row after a conflict

vars == <<board, cached, fetched, form, saving, sent, recovering>>

Init ==
  /\ board = [version |-> 1, name |-> CHOOSE n \in Name : TRUE, text |-> CHOOSE t \in Text : TRUE]
  /\ cached = board /\ fetched = Nothing
  /\ form = Nothing /\ saving = "no" /\ sent = Nothing /\ recovering = FALSE

(* A mounted page refetches what is stale. *)
Refetch ==
  /\ fetched = Nothing
  /\ fetched' = board
  /\ UNCHANGED <<board, cached, form, saving, sent, recovering>>

(* The result is cached, though a save may have been cached since it was read. It  *)
(* also replaces the whole form if the panel waits for it, whatever was typed.      *)
RefetchArrives ==
  /\ fetched # Nothing
  /\ cached' = fetched /\ fetched' = Nothing
  /\ form' = IF recovering /\ form # Nothing THEN fetched ELSE form
  /\ recovering' = FALSE
  /\ UNCHANGED <<board, saving, sent>>

RefetchFails ==
  /\ fetched # Nothing
  /\ fetched' = Nothing /\ recovering' = FALSE
  /\ UNCHANGED <<board, cached, form, saving, sent>>

-----------------------------------------------------------------------------
(* The panel. Its fields and buttons rest while a save is under way, though not    *)
(* while the latest row is fetched after a conflict.                               *)

OpenPanel ==
  /\ form = Nothing
  /\ form' = cached
  /\ UNCHANGED <<board, cached, fetched, saving, sent, recovering>>

ClosePanel ==
  /\ form # Nothing /\ saving = "no"
  /\ form' = Nothing /\ recovering' = FALSE
  /\ UNCHANGED <<board, cached, fetched, saving, sent>>

EditName ==
  /\ form # Nothing /\ saving = "no"
  /\ \E n \in Name : form' = [form EXCEPT !.name = n]
  /\ UNCHANGED <<board, cached, fetched, saving, sent, recovering>>

Submit ==
  /\ form # Nothing /\ saving = "no"
  /\ saving' = "sent" /\ sent' = form
  /\ UNCHANGED <<board, cached, fetched, form, recovering>>

(* updateForMember: the row is written if it has the version that was sent. The    *)
(* answer may be lost, and then the panel only says that the API was not reached.    *)
ServerSaves ==
  /\ saving = "sent" /\ sent.version = board.version /\ board.version < MaxSaves
  /\ board' = [sent EXCEPT !.version = board.version + 1]
  /\ sent' = board'
  /\ saving' \in {"saved", "refused"}
  /\ UNCHANGED <<cached, fetched, form, recovering>>

ServerRefuses ==
  /\ saving = "sent"
  /\ saving' \in (IF sent.version # board.version THEN {"conflict"} ELSE {}) \cup {"refused"}
  /\ UNCHANGED <<board, cached, fetched, form, sent, recovering>>

(* setQueryData leaves a refetch in flight alone. *)
Saved ==
  /\ saving = "saved"
  /\ cached' = sent /\ form' = sent
  /\ sent' = Nothing /\ saving' = "no"
  /\ UNCHANGED <<board, fetched, recovering>>

SaveFails ==
  /\ saving = "refused"
  /\ sent' = Nothing /\ saving' = "no"
  /\ UNCHANGED <<board, cached, fetched, form, recovering>>

(* After a conflict fetchQuery joins the refetch in flight, or begins one. *)
Recover ==
  /\ saving = "conflict"
  /\ recovering' = TRUE
  /\ fetched' = IF fetched = Nothing THEN board ELSE fetched
  /\ sent' = Nothing /\ saving' = "no"
  /\ UNCHANGED <<board, cached, form>>

OtherSaves ==
  /\ board.version < MaxSaves
  /\ \E n \in Name, t \in Text :
       board' = [version |-> board.version + 1, name |-> n, text |-> t]
  /\ UNCHANGED <<cached, fetched, form, saving, sent, recovering>>

Next ==
  \/ Refetch \/ RefetchArrives \/ RefetchFails
  \/ OpenPanel \/ ClosePanel \/ EditName \/ Submit
  \/ ServerSaves \/ ServerRefuses \/ Saved \/ SaveFails \/ Recover
  \/ OtherSaves

Spec == Init /\ [][Next]_vars

-----------------------------------------------------------------------------
(* A save of this panel sends back the description that the row it replaces has:   *)
(* no conflict, recovery or late refetch makes it restore an older one.             *)
NoLostUpdate ==
  [][(board' # board /\ saving' # saving) => board'.text = board.text]_vars
==============================================================================
