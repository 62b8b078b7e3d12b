------------------------------ MODULE TaskClient ------------------------------
(****************************************************************************)
(* The board page of the web client: the cached task list, optimistic moves,   *)
(* edits and deletions with their rollback, the edit dialog and its reload,     *)
(* against a server that checks versions while other people edit too. A task    *)
(* is its version, the column that this client moves it to and a note that       *)
(* stands for every field this client sends back as it read it.                  *)
(****************************************************************************)
EXTENDS Integers, FiniteSets

CONSTANTS
  Task, Column, Note,
  Shown,        \* the columns that the page's filters let through
  Slot,         \* bound: mutations of this client
  MaxOthers,    \* bound: edits by other people
  Nothing

VARIABLES
  server,       \* the saved row of each task, or Nothing once it is deleted
  cache,        \* the cached list: a row for each task on the page
  fetch,        \* the refetch in flight: state, what it read, the cache it began from
  stale,        \* whether the last refetch failed
  slots,        \* the mutations: pc, the values submitted, the snapshot
  form,         \* the edit dialog: the row it opened with, its baseline, its fields
  confirm,      \* the task that the delete dialog asks about
  others,       \* edits by other people so far
  since         \* history: rows the server held since the last settled mutation

vars == <<server, cache, fetch, stale, slots, form, confirm, others, since>>

Row == [version : Nat, column : Column, note : Note]
NoFetch == [state |-> "none", data |-> Nothing, before |-> Nothing]
Idle == [pc |-> "idle", task |-> Nothing, version |-> 0, column |-> Nothing, note |-> Nothing,
         snapshot |-> Nothing, dialog |-> FALSE]
Closed == [task |-> Nothing, opened |-> Nothing, baseline |-> Nothing, column |-> Nothing,
           note |-> Nothing, state |-> "closed", reload |-> Nothing]
Deletion == Nothing     \* the column of a deletion

(* What the API lists: the saved rows that pass the filters. *)
OnPage(row) == IF row # Nothing /\ row.column \in Shown THEN row ELSE Nothing
Listed == [t \in Task |-> OnPage(server[t])]

Init ==
  /\ server = [t \in Task |-> [version |-> 0, column |-> CHOOSE c \in Shown : TRUE,
                                note |-> CHOOSE n \in Note : TRUE]]
  /\ cache = Listed
  /\ fetch = NoFetch /\ stale = FALSE
  /\ slots = [s \in Slot |-> Idle]
  /\ form = Closed /\ confirm = Nothing
  /\ others = 0
  /\ since = [t \in Task |-> {server[t]}]

Saved(t, row) ==
  /\ server' = [server EXCEPT ![t] = row]
  /\ since' = [since EXCEPT ![t] = @ \cup {row}]

-----------------------------------------------------------------------------
(* The query cache *)

(* A refetch that finds another one in flight cancels it and starts again.     *)
(* Slip: it joins the one in flight.                                           *)
Joined(data) == IF fetch.state # "none" THEN fetch
                ELSE [state |-> "asked", data |-> Nothing, before |-> data]
Restarted(data) == [state |-> "asked", data |-> Nothing, before |-> data]

(* Creating a task refetches the page; the new task is not one of Task. *)
Created ==
  /\ fetch' = Restarted(cache)
  /\ UNCHANGED <<server, cache, stale, slots, form, confirm, others, since>>

(* The window is focused again, or the user presses Retry. *)
Refocus ==
  /\ fetch.state = "none"
  /\ fetch' = Restarted(cache)
  /\ UNCHANGED <<server, cache, stale, slots, form, confirm, others, since>>

ServerLists ==
  /\ fetch.state = "asked"
  /\ fetch' = [fetch EXCEPT !.state = "answered", !.data = Listed]
  /\ UNCHANGED <<server, cache, stale, slots, form, confirm, others, since>>

FetchArrives ==
  /\ fetch.state = "answered"
  /\ cache' = fetch.data /\ stale' = FALSE
  /\ fetch' = NoFetch
  /\ UNCHANGED <<server, slots, form, confirm, others, since>>

(* After the one retry that shouldRetry allows, the cache stays as it is.       *)
FetchFails ==
  /\ fetch.state # "none"
  /\ fetch' = NoFetch /\ stale' = TRUE
  /\ UNCHANGED <<server, cache, slots, form, confirm, others, since>>

-----------------------------------------------------------------------------
(* Mutations: onMutate in two steps, the request, onError and onSettled *)

(* cancelQueries puts the cache back to where the cancelled refetch began.       *)
Submit(s, t, version, column, note, dialog) ==
  /\ slots[s].pc = "idle"
  /\ slots' = [slots EXCEPT ![s] =
       [pc |-> "cancelled", task |-> t, version |-> version, column |-> column, note |-> note,
        snapshot |-> Nothing, dialog |-> dialog]]
  /\ cache' = IF fetch.state = "none" THEN cache ELSE fetch.before
  /\ fetch' = NoFetch
  /\ UNCHANGED <<server, stale, others, since>>

(* The row that an edit shows until the server answers: the values submitted, at  *)
(* the version they were based on. Slip: at the version the save will have.       *)
NextVersion(m) == [version |-> m.version + 1, column |-> m.column, note |-> m.note]
Updated(m) == [version |-> m.version, column |-> m.column, note |-> m.note]

(* reconcileTask and dropTask: in place, or off the page; never onto it.          *)
Reconciled(m) ==
  IF cache[m.task] = Nothing \/ m.column = Deletion THEN Nothing ELSE OnPage(Updated(m))

Optimistic(s) ==
  /\ slots[s].pc = "cancelled"
  /\ slots' = [slots EXCEPT ![s].pc = "sent", ![s].snapshot = cache]
  /\ cache' = [cache EXCEPT ![slots[s].task] = Reconciled(slots[s])]
  /\ UNCHANGED <<server, fetch, stale, form, confirm, others, since>>

(* The server saves what it was sent if the version is still the row's. *)
ServerSaves(s) ==
  LET m == slots[s] IN
  /\ m.pc = "sent" /\ server[m.task] # Nothing /\ server[m.task].version = m.version
  /\ Saved(m.task, IF m.column = Deletion THEN Nothing ELSE NextVersion(m))
  /\ \E answer \in {"ok", "failed"} : slots' = [slots EXCEPT ![s].pc = answer]   \* or it is lost
  /\ UNCHANGED <<cache, fetch, stale, form, confirm, others>>

(* A conflict, another refusal of the API, or a request that never reached it.    *)
ServerRefuses(s) ==
  /\ slots[s].pc = "sent"
  /\ slots' = [slots EXCEPT ![s].pc = "failed"]
  /\ UNCHANGED <<server, cache, fetch, stale, form, confirm, others, since>>

(* onError restores the snapshot, onSettled refetches; then the dialog that waits  *)
(* closes, or shows the error.                                                     *)
Settle(s) ==
  LET m == slots[s]
      data == IF m.pc = "failed" THEN m.snapshot ELSE cache
  IN
  /\ m.pc \in {"ok", "failed"}
  /\ slots' = [slots EXCEPT ![s] = [Idle EXCEPT !.pc = "done"]]
  /\ cache' = data
  /\ fetch' = Restarted(data)
  /\ since' = [t \in Task |-> {server[t]}]
  /\ form' = IF ~m.dialog \/ m.column = Deletion THEN form
             ELSE IF m.pc = "ok" THEN Closed ELSE [form EXCEPT !.state = "refused"]
  /\ confirm' = IF m.dialog /\ m.column = Deletion /\ m.pc = "ok" THEN Nothing ELSE confirm
  /\ UNCHANGED <<server, stale, others>>

-----------------------------------------------------------------------------
(* What the user does *)

DialogOpen == form.state # "closed" \/ confirm # Nothing

(* moveTask: a card is dropped on another column, and all of the card is sent.    *)
Drag(s, t, column) ==
  /\ ~DialogOpen /\ cache[t] # Nothing /\ cache[t].column # column
  /\ Submit(s, t, cache[t].version, column, cache[t].note, FALSE)
  /\ UNCHANGED <<form, confirm>>

(* Slip: the baseline is the latest, the fields stay as they were.                *)
RebasedOn(row) == [form EXCEPT !.baseline = row, !.reload = Nothing]
ResetFormFrom(row) ==
  [form EXCEPT !.baseline = row, !.column = row.column, !.note = row.note,
               !.reload = Nothing, !.state = IF @ = "saving" THEN @ ELSE "open"]

OpenForm(t) ==
  /\ ~DialogOpen /\ cache[t] # Nothing
  /\ form' = [Closed EXCEPT !.task = t, !.opened = cache[t], !.baseline = cache[t],
                !.column = cache[t].column, !.note = cache[t].note, !.state = "open"]
  /\ UNCHANGED <<server, cache, fetch, stale, slots, confirm, others, since>>

ChooseColumn(column) ==
  /\ form.state \in {"open", "refused"} /\ column # form.column
  /\ form' = [form EXCEPT !.column = column]
  /\ UNCHANGED <<server, cache, fetch, stale, slots, confirm, others, since>>

Save(s) ==
  /\ form.state \in {"open", "refused"} /\ confirm = Nothing
  /\ Submit(s, form.task, form.baseline.version, form.column, form.note, TRUE)
  /\ form' = [form EXCEPT !.state = "saving"]
  /\ UNCHANGED confirm

(* Closing is refused while a save is under way. *)
CloseForm ==
  /\ form.state \in {"open", "refused"}
  /\ form' = Closed
  /\ UNCHANGED <<server, cache, fetch, stale, slots, confirm, others, since>>

(* "Reload latest" is offered with an error; the form may change and be saved      *)
(* again before the answer arrives, which then replaces all of it.                 *)
Reload ==
  /\ form.state = "refused" /\ server[form.task] # Nothing
  /\ form' = [form EXCEPT !.reload = server[form.task]]
  /\ UNCHANGED <<server, cache, fetch, stale, slots, confirm, others, since>>

ReloadArrives ==
  /\ form.reload # Nothing
  /\ form' = ResetFormFrom(form.reload)
  /\ UNCHANGED <<server, cache, fetch, stale, slots, confirm, others, since>>

(* Deleting leaves the form and asks about the task as it was opened.              *)
RequestDelete ==
  /\ form.state \in {"open", "refused"}
  /\ confirm' = [task |-> form.task, version |-> form.opened.version]
  /\ form' = Closed
  /\ UNCHANGED <<server, cache, fetch, stale, slots, others, since>>

ConfirmDelete(s) ==
  /\ confirm # Nothing /\ \A m \in Slot : slots[m].pc \in {"idle", "done"} \/ ~slots[m].dialog
  /\ Submit(s, confirm.task, confirm.version, Deletion, Nothing, TRUE)
  /\ UNCHANGED <<form, confirm>>

KeepTask ==
  /\ confirm # Nothing /\ \A m \in Slot : slots[m].pc \in {"idle", "done"} \/ ~slots[m].dialog
  /\ confirm' = Nothing
  /\ UNCHANGED <<server, cache, fetch, stale, slots, form, others, since>>

(* Another person saves the task, its note or its column or both. *)
OtherSaves(t) ==
  /\ others < MaxOthers /\ server[t] # Nothing
  /\ \E column \in Column, note \in Note :
       Saved(t, [version |-> server[t].version + 1, column |-> column, note |-> note])
  /\ others' = others + 1
  /\ UNCHANGED <<cache, fetch, stale, slots, form, confirm>>

Next ==
  \/ Created \/ Refocus \/ ServerLists \/ FetchArrives \/ FetchFails
  \/ \E s \in Slot : Optimistic(s) \/ ServerSaves(s) \/ ServerRefuses(s) \/ Settle(s)
  \/ \E s \in Slot : Save(s) \/ ConfirmDelete(s)
  \/ \E s \in Slot, t \in Task, column \in Column : Drag(s, t, column)
  \/ \E t \in Task : OpenForm(t) \/ OtherSaves(t)
  \/ \E column \in Column : ChooseColumn(column)
  \/ CloseForm \/ Reload \/ ReloadArrives \/ RequestDelete \/ KeepTask

Spec == Init /\ [][Next]_vars

-----------------------------------------------------------------------------
(* Properties *)

TypeOK ==
  /\ server \in [Task -> Row \cup {Nothing}] /\ cache \in [Task -> Row \cup {Nothing}]
  /\ fetch.state \in {"none", "asked", "answered"} /\ stale \in BOOLEAN
  /\ \A s \in Slot : slots[s].pc \in {"idle", "cancelled", "sent", "ok", "failed", "done"}
  /\ form.state \in {"closed", "open", "saving", "refused"} /\ others \in 0..MaxOthers

(* A field that this client never touches is changed by other people only: whatever  *)
(* mixture of optimistic rows, rollbacks, late refetches and reloads the user acts    *)
(* on, a save that the server accepts was made from the row that it replaces.          *)
NoLostUpdate ==
  [][\A t \in DOMAIN server :
       (server[t] # Nothing /\ server'[t] # Nothing /\ server'[t].note # server[t].note)
         => others' = others + 1]_vars

(* Once nothing is in flight and the last refetch succeeded, every task on the page   *)
(* is as the server held it at some moment after the last mutation settled: no         *)
(* rollback or late answer leaves an unsaved or outdated row on the screen.             *)
ScreenReconciled ==
  (fetch = NoFetch /\ ~stale /\ \A s \in Slot : slots[s].pc \in {"idle", "done"}) =>
    \A t \in DOMAIN cache : cache[t] \in {OnPage(row) : row \in since[t]}
==============================================================================
