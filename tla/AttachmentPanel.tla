--------------------------- MODULE AttachmentPanel ---------------------------
(****************************************************************************)
(* The attachments of a saved task in its dialog (AttachmentField.tsx): the first *)
(* page of the list, uploads that may overlap, since only the button is disabled     *)
(* while one runs and not the field behind it, and one removal at a time. The dialog  *)
(* may be closed over all of them. The attachments of a task that is not saved yet     *)
(* are in CreateForm.                                                                   *)
(****************************************************************************)
EXTENDS Sequences, SequencesExt

CONSTANTS
  File,        \* what may be uploaded, each once
  PageSize,    \* the limit of the list (50)
  Nothing

VARIABLES
  stored,      \* the rows of the task, oldest first
  shown,       \* the cached page, or Nothing before the first answer
  read,        \* the read in flight: none, asked, or the page it has read
  invalid,     \* the cached page is to be read again when the dialog opens
  unread,      \* the last read failed
  open,        \* the dialog is open
  upload,      \* per file: "none", "sent", "ok", "failed", "over"
  latest,      \* the upload that reports its failure
  reported,    \* the file of the error message
  removal,     \* the removal under way: its row and "sent", "ok" or "failed"
  pages,       \* history: the pages since a request of this dialog last succeeded
  raced        \* history: an answer made valid what an upload had invalidated

vars == <<stored, shown, read, invalid, unread, open, upload, latest, reported, removal, pages,
          raced>>

Idle == [pc |-> "none", row |-> Nothing]
NoRead == [pc |-> "none", page |-> << >>]
Asked == [pc |-> "asked", page |-> << >>]
FirstPage(rows) == SubSeq(rows, 1, IF Len(rows) < PageSize THEN Len(rows) ELSE PageSize)

Init ==
  /\ stored = << >> /\ shown = Nothing /\ pages = {<< >>}
  /\ read = NoRead /\ invalid = TRUE /\ unread = FALSE /\ open = FALSE
  /\ upload = [f \in File |-> "none"] /\ latest = Nothing /\ reported = Nothing
  /\ removal = Idle /\ raced = FALSE

Store(rows) == stored' = rows /\ pages' = pages \cup {FirstPage(rows)}

server == <<stored, pages>>
list == <<shown, read, invalid, unread, raced>>
uploads == <<upload, latest, reported>>

-----------------------------------------------------------------------------
(* The list *)

(* A page that is old is read again too, even if it is valid; a read that is under *)
(* way is joined.                                                                  *)
OpenDialog ==
  /\ ~open /\ open' = TRUE
  /\ \/ read = NoRead /\ read' = Asked /\ raced' = FALSE
     \/ (read # NoRead \/ ~invalid) /\ UNCHANGED <<read, raced>>
  /\ UNCHANGED <<server, shown, invalid, unread, uploads, removal>>

CloseDialog ==
  /\ open /\ open' = FALSE
  /\ latest' = Nothing /\ reported' = Nothing
  /\ UNCHANGED <<server, list, upload, removal>>

Retry ==
  /\ open /\ unread
  /\ read' = Asked /\ raced' = FALSE
  /\ UNCHANGED <<server, shown, invalid, unread, open, uploads, removal>>

ServerReads ==
  /\ read.pc = "asked"
  /\ read' = [pc |-> "read", page |-> FirstPage(stored)]
  /\ UNCHANGED <<server, shown, invalid, unread, raced, open, uploads, removal>>

(* A success makes the cached page valid, whatever has invalidated it meanwhile.   *)
ReadEnds ==
  /\ read # NoRead
  /\ \/ read.pc = "read" /\ shown' = read.page /\ invalid' = FALSE /\ unread' = FALSE
     \/ unread' = TRUE /\ UNCHANGED <<shown, invalid>>
  /\ read' = NoRead
  /\ UNCHANGED <<server, raced, open, uploads, removal>>

(* Only a list that is on screen is read at once, and from the start.              *)
Invalidate ==
  /\ pages' = {FirstPage(stored)}
  /\ IF open THEN read' = Asked /\ raced' = FALSE
             ELSE raced' = (raced \/ read # NoRead) /\ UNCHANGED read
  /\ invalid' = TRUE
  /\ UNCHANGED <<stored, shown, unread, open>>

-----------------------------------------------------------------------------
(* Uploads *)

AddFile(f) ==
  /\ open /\ upload[f] = "none" /\ f \notin ToSet(stored)
  /\ upload' = [upload EXCEPT ![f] = "sent"]
  /\ latest' = f /\ reported' = Nothing
  /\ UNCHANGED <<server, list, open, removal>>

ServerStores(f) ==
  /\ upload[f] = "sent"
  /\ \/ /\ f \notin ToSet(stored) /\ Store(Append(stored, f))
        /\ \E answer \in {"ok", "failed"} : upload' = [upload EXCEPT ![f] = answer]
     \/ upload' = [upload EXCEPT ![f] = "failed"] /\ UNCHANGED server
  /\ UNCHANGED <<list, open, latest, reported, removal>>

Uploaded(f) ==
  /\ upload[f] = "ok"
  /\ upload' = [upload EXCEPT ![f] = "over"]
  /\ Invalidate
  /\ UNCHANGED <<latest, reported, removal>>

(* A failure is reported by the last upload that was started, in an open dialog.    *)
UploadFailed(f) ==
  /\ upload[f] = "failed"
  /\ upload' = [upload EXCEPT ![f] = "over"]
  /\ reported' = IF latest = f THEN f ELSE reported
  /\ UNCHANGED <<server, list, open, latest, removal>>

-----------------------------------------------------------------------------
(* Removals; one that fails shows nothing. *)

RemoveFile(f) ==
  /\ open /\ shown # Nothing /\ f \in ToSet(shown) /\ removal = Idle
  /\ removal' = [pc |-> "sent", row |-> f]
  /\ UNCHANGED <<server, list, open, uploads>>

ServerRemoves ==
  /\ removal.pc = "sent"
  /\ \/ /\ removal.row \in ToSet(stored)
        /\ Store(SelectSeq(stored, LAMBDA f : f # removal.row))
        /\ \E answer \in {"ok", "failed"} : removal' = [removal EXCEPT !.pc = answer]
     \/ removal' = [removal EXCEPT !.pc = "failed"] /\ UNCHANGED server
  /\ UNCHANGED <<list, open, uploads>>

Removed ==
  /\ removal.pc = "ok"
  /\ removal' = Idle
  /\ Invalidate
  /\ UNCHANGED uploads

RemovalFails ==
  /\ removal.pc = "failed"
  /\ removal' = Idle
  /\ UNCHANGED <<server, list, open, uploads>>

(* Another member uploads or removes. *)
OthersAct ==
  /\ \E f \in File :
       \/ f \in ToSet(stored) /\ Store(SelectSeq(stored, LAMBDA g : g # f)) /\ UNCHANGED upload
       \/ /\ upload[f] = "none" /\ Store(Append(stored, f))
          /\ upload' = [upload EXCEPT ![f] = "over"]
  /\ UNCHANGED <<list, open, latest, reported, removal>>

Next ==
  \/ OpenDialog \/ CloseDialog \/ Retry \/ ServerReads \/ ReadEnds
  \/ \E f \in File : AddFile(f) \/ ServerStores(f) \/ Uploaded(f) \/ UploadFailed(f) \/ RemoveFile(f)
  \/ ServerRemoves \/ Removed \/ RemovalFails
  \/ OthersAct

Spec == Init /\ [][Next]_vars

-----------------------------------------------------------------------------
(* Once nothing is in flight, an open dialog whose last read succeeded shows the    *)
(* first page as it was at some moment after this client's last success, though      *)
(* uploads, a removal, reads and the closing of the dialog may have crossed. The one   *)
(* exception: an answer that was under way when the dialog was closed counts as fresh    *)
(* even if an upload or a removal ended before it arrived, until it is old.               *)
AttachmentsReconciled ==
  LET settled == read = NoRead /\ ~unread /\ removal = Idle
                 /\ \A f \in File : upload[f] \in {"none", "over"}
  IN open /\ settled /\ shown # Nothing => shown \in pages \/ raced
==============================================================================
