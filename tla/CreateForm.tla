------------------------------ MODULE CreateForm ------------------------------
(****************************************************************************)
(* The create dialog: a task is created first and its staged files are uploaded *)
(* one by one after it, so a failure may come before, between or after. Buttons  *)
(* and fields rest while a submission is under way, Ctrl+Enter does not, so there *)
(* may be two, and one may outlive the dialog that it was made in. Messages are     *)
(* left out.                                                                        *)
(****************************************************************************)
EXTENDS Naturals, FiniteSets

CONSTANTS
  File,
  Slot          \* submissions that may be under way at once (bound)

VARIABLES
  opened,       \* createOpen of the page
  busy,         \* isBusy
  files,        \* attachmentFiles
  createMore,
  run,          \* submissions under way, as each began
  tasks,        \* history: tasks created from the content of the form
  uploaded,     \* history: files of this content that the server stored
  lost,         \* history: the answer to a creation from it was lost
  overlapped    \* history: it was submitted while a submission of it was under way

vars == <<opened, busy, files, createMore, run, tasks, uploaded, lost, overlapped>>

(* A submission is of the content now in the form, of content that this dialog    *)
(* has replaced, or of a dialog that is gone.                                        *)
Submission ==
  [pc : {"creating", "uploading"}, left : SUBSET File, more : BOOLEAN,
   of : {"content", "dialog", "gone"}]
NoRun == [pc |-> "none", left |-> {}, more |-> FALSE, of |-> "none"]

Init ==
  /\ opened = TRUE /\ busy = FALSE /\ files = {} /\ createMore = FALSE
  /\ run = [s \in Slot |-> NoRun]
  /\ tasks = 0 /\ uploaded = {} /\ lost = FALSE /\ overlapped = FALSE

content == <<files, tasks, uploaded, lost, overlapped>>

Editable == opened /\ ~busy

Stage(selected) ==
  /\ Editable
  /\ files' = files \cup selected
  /\ UNCHANGED <<opened, busy, createMore, run, tasks, uploaded, lost, overlapped>>

(* Files of one name, size and date are removed together, so they are one here.  *)
Unstage(file) ==
  /\ Editable /\ file \in files
  /\ files' = files \ {file}
  /\ UNCHANGED <<opened, busy, createMore, run, tasks, uploaded, lost, overlapped>>

ToggleCreateMore ==
  /\ Editable
  /\ createMore' = ~createMore
  /\ UNCHANGED <<opened, busy, run, content>>

(* By the button, which is disabled while busy, or by Ctrl+Enter, which is not.    *)
(* A bound of the model: content that two tasks came from is not submitted again.    *)
Submit(s) ==
  /\ opened /\ run[s] = NoRun /\ tasks < 2
  /\ busy' = TRUE
  /\ overlapped' = (overlapped \/ \E o \in Slot : run[o].of = "content")
  /\ run' = [run EXCEPT ![s] =
               [pc |-> "creating", left |-> files, more |-> createMore, of |-> "content"]]
  /\ UNCHANGED <<opened, files, createMore, tasks, uploaded, lost>>

Counted(s) == tasks' = IF run[s].of = "content" THEN tasks + 1 ELSE tasks

CreateSucceeds(s) ==
  /\ run[s].pc = "creating"
  /\ Counted(s)
  /\ run' = [run EXCEPT ![s].pc = "uploading"]
  /\ UNCHANGED <<opened, busy, files, createMore, uploaded, lost, overlapped>>

(* The end of a submission that its dialog hears of, if it is still there: it is no   *)
(* longer busy, even when another submission is under way.                              *)
Ended(s) ==
  /\ run' = [run EXCEPT ![s] = NoRun]
  /\ busy' = (busy /\ run[s].of = "gone")

(* The outer catch: the dialog stays open with its content. The request may have been   *)
(* carried out before its answer was lost.                                                *)
CreateFails(s) ==
  /\ run[s].pc = "creating"
  /\ \/ UNCHANGED <<tasks, lost>>
     \/ Counted(s) /\ lost' = (lost \/ run[s].of = "content")
  /\ Ended(s)
  /\ UNCHANGED <<opened, files, createMore, uploaded, overlapped>>

UploadSucceeds(s, file) ==
  /\ run[s].pc = "uploading" /\ file \in run[s].left
  /\ uploaded' = IF run[s].of = "content" THEN uploaded \cup {file} ELSE uploaded
  /\ run' = [run EXCEPT ![s].left = @ \ {file}]
  /\ UNCHANGED <<opened, busy, files, createMore, tasks, lost, overlapped>>

(* The inner catch. Slip: the failure reaches the outer one. *)
Thrown(s, file) == Ended(s)
Collected(s, file) == run' = [run EXCEPT ![s].left = @ \ {file}] /\ UNCHANGED busy

UploadFails(s, file) ==
  /\ run[s].pc = "uploading" /\ file \in run[s].left
  /\ Collected(s, file)
  /\ UNCHANGED <<opened, createMore, content>>

(* The form holds other content now, and so do the submissions that are left.       *)
Fresh == files' = {} /\ tasks' = 0 /\ uploaded' = {} /\ lost' = FALSE /\ overlapped' = FALSE

Moved(runs, from, to) ==
  [o \in Slot |-> IF runs[o].of \in from THEN [runs[o] EXCEPT !.of = to] ELSE runs[o]]

Closed(runs) ==
  /\ opened' = FALSE /\ busy' = FALSE /\ createMore' = FALSE /\ Fresh
  /\ run' = Moved(runs, {"content", "dialog"}, "gone")

(* The page's onClose closes the dialog that is shown, also one opened since; with   *)
(* "Create more" the form of this dialog is emptied, whatever was typed meanwhile.     *)
Finish(s) ==
  /\ run[s].pc = "uploading" /\ run[s].left = {}
  /\ LET runs == [run EXCEPT ![s] = NoRun]
     IN  \/ ~run[s].more /\ Closed(runs)
         \/ /\ run[s].more /\ run[s].of = "gone"
            /\ run' = runs /\ UNCHANGED <<opened, busy, createMore, content>>
         \/ /\ run[s].more /\ run[s].of # "gone"
            /\ run' = Moved(runs, {"content"}, "dialog") /\ busy' = FALSE /\ Fresh
            /\ UNCHANGED <<opened, createMore>>

(* Closing is refused while busy. *)
Cancel == Editable /\ Closed(run)

Open ==
  /\ ~opened /\ opened' = TRUE
  /\ UNCHANGED <<busy, createMore, run, content>>

Next ==
  \/ \E selected \in SUBSET File : Stage(selected)
  \/ \E file \in File : Unstage(file)
  \/ ToggleCreateMore \/ Cancel \/ Open
  \/ \E s \in Slot :
       \/ Submit(s) \/ CreateSucceeds(s) \/ CreateFails(s) \/ Finish(s)
       \/ \E file \in File : UploadSucceeds(s, file) \/ UploadFails(s, file)

Spec == Init /\ [][Next]_vars

-----------------------------------------------------------------------------
(* Properties *)

(* Content that can be submitted without a submission of it past its creation has not *)
(* become a task yet, so submitting it again makes no duplicate, whichever uploads       *)
(* failed and whatever older submissions go on (TaskModal.tsx:226-240). Two exceptions:    *)
(* a lost answer, and Ctrl+Enter while a submission of the content is under way.             *)
CreatedOnce ==
  opened /\ ~lost /\ ~overlapped /\ (\A s \in Slot : run[s].of = "content" => run[s].pc = "creating")
    => tasks = 0 /\ uploaded = {}
==============================================================================
