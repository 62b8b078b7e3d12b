--------------------------- MODULE WebClient_proofs ---------------------------
(****************************************************************************)
(* Proofs about the parts of the web client: what each page promises holds for  *)
(* any number of tasks, mutations, people, files and edits by others, and for any  *)
(* order of answers.                                                               *)
(****************************************************************************)
EXTENDS WebClient, FiniteSetTheorems, SequenceTheorems, WellFoundedInduction, TLAPS

-----------------------------------------------------------------------------
(* The create dialog *)

(* What a submission of the form's content has left in the form: nothing until its *)
(* creation is answered, unless it shares the content with another.                   *)
CreateInv ==
  /\ run \in [Slot -> Create!Submission \cup {Create!NoRun}]
  /\ files \subseteq File /\ createMore \in BOOLEAN
  /\ ~overlapped => \A s, o \in Slot : run[s].of = "content" /\ run[o].of = "content" => s = o
  /\ \/ tasks = 0 /\ uploaded = {}
     \/ lost \/ overlapped \/ \E s \in Slot : run[s].of = "content" /\ run[s].pc = "uploading"

LEMMA RunTyped ==
  ASSUME CreateInv, NEW s \in Slot
  PROVE  /\ run[s].pc \in {"none", "creating", "uploading"}
         /\ run[s].of \in {"none", "content", "dialog", "gone"}
         /\ run[s].pc = "none" <=> run[s] = Create!NoRun
         /\ run[s].of = "none" <=> run[s] = Create!NoRun
         /\ run[s].pc # "none" => run[s] \in Create!Submission
BY DEF CreateInv, Create!Submission, Create!NoRun

(* The submissions that are left when the content is replaced or the dialog goes. *)
LEMMA MovedRuns ==
  ASSUME NEW runs \in [Slot -> Create!Submission \cup {Create!NoRun}],
         NEW from, "content" \in from, "none" \notin from, NEW to \in {"dialog", "gone"},
         run' = Create!Moved(runs, from, to)
  PROVE  /\ run' \in [Slot -> Create!Submission \cup {Create!NoRun}]
         /\ \A s \in Slot : run'[s].of # "content"
<1>1. ASSUME NEW s \in Slot
      PROVE  /\ run'[s] \in Create!Submission \cup {Create!NoRun}
             /\ run'[s].of # "content"
  <2>1. runs[s] \in Create!Submission \cup {Create!NoRun}
    OBVIOUS
  <2>2. CASE runs[s].of \in from
    <3>1. runs[s] \in Create!Submission
      BY <2>1, <2>2 DEF Create!NoRun
    <3>2. run'[s] = [runs[s] EXCEPT !.of = to]
      BY <2>2 DEF Create!Moved
    <3> QED BY <3>1, <3>2 DEF Create!Submission
  <2>3. CASE runs[s].of \notin from
    BY <2>1, <2>3 DEF Create!Moved
  <2> QED BY <2>2, <2>3
<1>2. run' = [s \in Slot |-> run'[s]]
  BY DEF Create!Moved
<1> QED BY <1>1, <1>2

LEMMA FreshContent ==
  ASSUME Create!Fresh, run' \in [Slot -> Create!Submission \cup {Create!NoRun}],
         \A s \in Slot : run'[s].of # "content", createMore' \in BOOLEAN
  PROVE  CreateInv'
BY DEF CreateInv, Create!Fresh

LEMMA ClosedDialog ==
  ASSUME NEW runs \in [Slot -> Create!Submission \cup {Create!NoRun}], Create!Closed(runs)
  PROVE  CreateInv'
BY MovedRuns, FreshContent DEF Create!Closed

LEMMA CreateNext == CreateInv /\ [Create!Next]_(Create!vars) => CreateInv'
<1> SUFFICES ASSUME CreateInv, [Create!Next]_(Create!vars) PROVE CreateInv'
  OBVIOUS
<1>1. CASE UNCHANGED Create!vars
  BY <1>1 DEF CreateInv, Create!vars
<1>2. CASE /\ UNCHANGED <<run, tasks, uploaded, lost, overlapped>>
           /\ files' \subseteq File /\ createMore' \in BOOLEAN
  BY <1>2 DEF CreateInv
<1>3. CASE \/ \E selected \in SUBSET File : Create!Stage(selected)
           \/ \E file \in File : Create!Unstage(file)
           \/ Create!ToggleCreateMore \/ Create!Open
  BY <1>2, <1>3 DEF CreateInv, Create!Stage, Create!Unstage, Create!ToggleCreateMore,
     Create!Open, Create!content
<1>4. CASE Create!Cancel
  BY <1>4, ClosedDialog DEF Create!Cancel, CreateInv
<1>5. ASSUME NEW s \in Slot, Create!Submit(s) PROVE CreateInv'
  <2>1. run[s].pc = "none" /\ run[s].of = "none"
    BY <1>5 DEF Create!Submit, Create!NoRun
  <2> DEFINE new == [pc |-> "creating", left |-> files, more |-> createMore,
                     of |-> "content"]
  <2>2. new \in Create!Submission
    BY DEF CreateInv, Create!Submission
  <2>3. run' = [run EXCEPT ![s] = new] /\ new.of = "content"
    BY <1>5 DEF Create!Submit
  <2> HIDE DEF new
  <2> QED BY <1>5, <2>1, <2>2, <2>3 DEF CreateInv, Create!Submit
<1>6. ASSUME NEW s \in Slot, Create!CreateSucceeds(s) PROVE CreateInv'
  BY <1>6, RunTyped DEF CreateInv, Create!CreateSucceeds, Create!Counted, Create!Submission
<1>7. ASSUME NEW s \in Slot, Create!CreateFails(s) PROVE CreateInv'
  BY <1>7, RunTyped DEF CreateInv, Create!CreateFails, Create!Ended, Create!Counted, Create!NoRun
<1>8. ASSUME NEW s \in Slot, NEW file \in File,
             Create!UploadSucceeds(s, file) \/ Create!UploadFails(s, file)
      PROVE  CreateInv'
  BY <1>8, RunTyped DEF CreateInv, Create!UploadSucceeds, Create!UploadFails, Create!Collected,
     Create!Submission, Create!content
<1>9. ASSUME NEW s \in Slot, Create!Finish(s) PROVE CreateInv'
  <2> DEFINE runs == [run EXCEPT ![s] = Create!NoRun]
  <2>1. runs \in [Slot -> Create!Submission \cup {Create!NoRun}]
    BY DEF CreateInv
  <2>2. CASE Create!Closed(runs)
    BY <2>1, <2>2, ClosedDialog
  <2>3. CASE run[s].of = "gone" /\ run' = runs /\ UNCHANGED <<createMore, Create!content>>
    BY <1>9, <2>1, <2>3 DEF CreateInv, Create!Finish, Create!content, Create!NoRun
  <2>4. CASE /\ run' = Create!Moved(runs, {"content"}, "dialog") /\ Create!Fresh
             /\ UNCHANGED createMore
    BY <2>1, <2>4, MovedRuns, FreshContent DEF CreateInv
  <2> QED BY <1>9, <2>2, <2>3, <2>4 DEF Create!Finish
<1> QED BY <1>1, <1>3, <1>4, <1>5, <1>6, <1>7, <1>8, <1>9 DEF Create!Next

(* TaskModal.tsx: what can be submitted from the create dialog has not become a   *)
(* task and its files have not been stored, unless the answer to a creation was    *)
(* lost or Ctrl+Enter submitted it twice at once: uploads that fail are collected    *)
(* and never lead back to the form, and a submission that outlives the content or     *)
(* the dialog that it was made of counts for neither.                                  *)
THEOREM ContentCreatedOnce == Create!Spec => []CreatedOnce
<1>1. ASSUME Create!Init PROVE CreateInv
  <2>1. run = [s \in Slot |-> Create!NoRun] /\ Create!NoRun.of = "none"
    BY <1>1 DEF Create!Init, Create!NoRun
  <2>2. \A s \in Slot : run[s].of # "content"
    BY <2>1
  <2>3. run \in [Slot -> Create!Submission \cup {Create!NoRun}]
    BY <2>1
  <2> QED BY <1>1, <2>2, <2>3 DEF Create!Init, CreateInv
<1>2. CreateInv => CreatedOnce
  BY RunTyped DEF CreateInv, CreatedOnce, Create!CreatedOnce
<1> QED BY <1>1, <1>2, CreateNext, PTL DEF Create!Spec

-----------------------------------------------------------------------------
(* The search field *)

SearchAssumption == \A text \in Texts : Trim(text) \in Texts

Url == [q : Texts, f : Filters \cup {NoFilters}]

SearchInv ==
  /\ url \in Url /\ input \in Texts
  /\ past \in Seq(Url) /\ future \in Seq(Url)

LEMMA SearchInit == ASSUME SearchAssumption, Search!Init PROVE SearchInv
<1>1. \A text \in Input : Trim(text) \in Texts
  BY DEF Texts
<1>2. url \in Url /\ input = url.q /\ past = << >> /\ future = << >>
  BY <1>1 DEF Search!Init, Url
<1> QED BY <1>2 DEF SearchInv, Url

(* What an event may do to the URL and the history. *)
LEMMA SearchStep ==
  ASSUME SearchAssumption, SearchInv, [Search!Next]_(Search!vars)
  PROVE  SearchInv' /\ (url'.f # url.f => <<past, future>>' # <<past, future>>)
<1> USE DEF SearchInv
<1> DEFINE Kept == url'.f # url.f => <<past, future>>' # <<past, future>>
<1>1. CASE UNCHANGED Search!vars
  BY <1>1 DEF Search!vars
<1>2. ASSUME NEW text \in Input, Search!Type(text) PROVE SearchInv' /\ Kept
  BY <1>2 DEF Search!Type, Search!Shows, Texts
<1>3. CASE Search!Debounced
  <2>1. /\ url' = IF Trim(input) = url.q THEN url ELSE [url EXCEPT !.q = Trim(input)]
        /\ UNCHANGED <<past, future, input>>
    BY <1>3 DEF Search!Debounced, Search!LatestParams
  <2>2. Trim(input) \in Texts
    BY DEF SearchAssumption
  <2>3. url' \in Url /\ url'.f = url.f
    BY <2>1, <2>2 DEF Url
  <2> QED BY <2>1, <2>3
<1>4. ASSUME NEW location \in Url, Search!Push(location)
      PROVE  url' \in Url /\ past' \in Seq(Url) /\ future' \in Seq(Url) /\ past' # past
  <2>1. url' = location /\ past' = Append(past, url) /\ future' = << >>
    BY <1>4 DEF Search!Push
  <2>2. Len(Append(past, url)) = Len(past) + 1 /\ Len(past) \in Nat
    OBVIOUS
  <2> QED BY <2>1, <2>2
<1>5. ASSUME NEW f \in Filters, Search!SetFilter(f) PROVE SearchInv' /\ Kept
  <2>1. [url EXCEPT !.f = f] \in Url
    BY DEF Url
  <2> QED BY <1>4, <1>5, <2>1 DEF Search!SetFilter
<1>6. ASSUME NEW location \in Url, NEW text \in Texts, NEW skip, Search!Sync(location, text, skip)
      PROVE  input' \in Texts
  BY <1>6 DEF Search!Sync, Search!Shows, Url
<1>7. CASE Search!ClearFilters
  <2> DEFINE cleared == [q |-> "", f |-> NoFilters]
  <2>1. cleared \in Url
    BY Zenon DEF Url, Texts
  <2>2. Search!Push(cleared) /\ Search!Sync(cleared, "", TRUE)
    BY <1>7 DEF Search!ClearFilters
  <2>3. "" \in Texts
    BY DEF Texts
  <2> HIDE DEF cleared
  <2>4. url' \in Url /\ past' \in Seq(Url) /\ future' \in Seq(Url) /\ past' # past
    BY <1>4, <2>1, <2>2
  <2>5. input' \in Texts
    BY <1>6, <2>1, <2>2, <2>3
  <2> QED BY <2>4, <2>5
<1>8. CASE Search!Back
  <2>1. /\ past # << >> /\ url' = past[Len(past)]
        /\ past' = SubSeq(past, 1, Len(past) - 1) /\ future' = <<url>> \o future
    BY <1>8 DEF Search!Back
  <2>2. Len(past) \in Nat /\ Len(past) # 0
    BY <2>1
  <2>3. url' \in Url
    BY <2>1, <2>2
  <2>4. past' \in Seq(Url) /\ Len(past') = Len(past) - 1
    <3>1. past' = SubSeq(past, 1, Len(past) - 1) /\ Len(past) - 1 \in 0..Len(past)
      BY <2>1, <2>2
    <3>2. past' \in Seq(Url)
      BY <3>1, SubSeqProperties
    <3>3. Len(past') = Len(past) - 1
      <4>1. Len(past) - 1 \in Nat /\ \A i \in 1..(Len(past) - 1) : past[i] \in Url
        BY <2>2
      <4>2. Len(past') = IF 1 <= Len(past) - 1 THEN (Len(past) - 1) - 1 + 1 ELSE 0
        BY <3>1, <4>1, SubSeqProperties
      <4> DEFINE n == Len(past)
                 m == Len(past')
      <4>3. n \in Nat /\ n # 0 /\ m = IF 1 <= n - 1 THEN (n - 1) - 1 + 1 ELSE 0
        BY <2>2, <4>2
      <4> HIDE DEF n, m
      <4>4. m = n - 1
        BY <4>3
      <4> QED BY <4>4 DEF n, m
    <3> QED BY <3>2, <3>3
  <2>5. future' \in Seq(Url)
    BY <2>1
  <2>6. input' \in Texts
    BY <1>6, <1>8, <2>3 DEF Search!Back
  <2> QED BY <2>2, <2>3, <2>4, <2>5, <2>6
<1>9. CASE Search!Forward
  <2>1. /\ future # << >> /\ url' = Head(future)
        /\ past' = Append(past, url) /\ future' = Tail(future)
    BY <1>9 DEF Search!Forward
  <2>2. url' \in Url /\ past' \in Seq(Url) /\ future' \in Seq(Url)
    BY <2>1
  <2>3. Len(past') = Len(past) + 1 /\ Len(past) \in Nat
    BY <2>1
  <2>4. input' \in Texts
    BY <1>6, <1>9, <2>2 DEF Search!Forward
  <2> QED BY <2>2, <2>3, <2>4
<1>10. CASE Search!Remount
  BY <1>10 DEF Search!Remount, Url
<1> QED BY <1>1, <1>2, <1>3, <1>5, <1>7, <1>8, <1>9, <1>10 DEF Search!Next

(* useTaskBoardSearch.ts: writing the debounced term into the URL never changes a *)
(* filter; a filter changes only together with an entry of the history.             *)
THEOREM FiltersSurviveSearch == Search!Spec => FiltersKept
<1>. SearchAssumption
  BY ClientAssumption DEF SearchAssumption
<1>1. SearchInv /\ [Search!Next]_(Search!vars) => SearchInv'
  BY SearchStep
<1>2. SearchInv /\ [Search!Next]_(Search!vars)
        => [url'.f # url.f => <<past, future>>' # <<past, future>>]_(Search!vars)
  BY SearchStep
<1>3. Search!Init => SearchInv
  BY SearchInit
<1> QED BY <1>1, <1>2, <1>3, PTL DEF Search!Spec, FiltersKept, Search!FiltersKept

-----------------------------------------------------------------------------
(* The members page *)

(* A list that was read, and one that is shown, is from after the last success. *)
RosterInv ==
  /\ pending \in seen
  /\ refetch.pc = "read" => refetch.data \in seen
  /\ refetch = Members!NoFetch /\ ~outdated => roster \in seen

LEMMA RosterNext == RosterInv /\ [Members!Next]_(Members!vars) => RosterInv'
<1> SUFFICES ASSUME RosterInv, [Members!Next]_(Members!vars) PROVE RosterInv'
  OBVIOUS
<1> USE DEF RosterInv, Members!NoFetch, Members!server, Members!requests, Members!Set
<1>1. CASE UNCHANGED Members!vars
  BY <1>1 DEF Members!vars
<1>2. CASE Members!Mount
  BY <1>2 DEF Members!Mount, Members!Restarted
<1>3. CASE Members!ServerLists
  BY <1>3 DEF Members!ServerLists
<1>4. CASE Members!RefetchEnds
  BY <1>4 DEF Members!RefetchEnds
<1>5. ASSUME NEW i, Members!Ask(i) \/ Members!SendInvite(i) PROVE RosterInv'
  BY <1>5 DEF Members!Ask, Members!SendInvite
<1>6. CASE Members!UpdateParams \/ Members!Keep \/ Members!CancelInvitation
  BY <1>6 DEF Members!UpdateParams, Members!Keep, Members!CancelInvitation
<1>7. CASE Members!ServerRevokes \/ Members!ServerInvites \/ Members!OthersAct
  BY <1>7 DEF Members!ServerRevokes, Members!ServerInvites, Members!OthersAct
<1>8. CASE Members!Revoked \/ Members!Invited
  BY <1>8 DEF Members!Revoked, Members!Invited, Members!Restarted
<1>9. CASE Members!RevokeRefused \/ Members!InviteRefused
  BY <1>9 DEF Members!RevokeRefused, Members!InviteRefused
<1> QED BY <1>1, <1>2, <1>3, <1>4, <1>5, <1>6, <1>7, <1>8, <1>9 DEF Members!Next

LEMMA RosterAlways == Members!Spec => []Members!RosterReconciled
<1>1. Members!Init => RosterInv
  BY DEF Members!Init, RosterInv, Members!NoFetch
<1>2. RosterInv => Members!RosterReconciled
  BY DEF RosterInv, Members!RosterReconciled
<1> QED BY <1>1, <1>2, RosterNext, PTL DEF Members!Spec

-----------------------------------------------------------------------------
(* The attachments of a task *)

(* A page that was read, or is shown and valid, is from after the last success;  *)
(* and an open dialog that is not reading shows a valid page or an error.          *)
AttachedInv ==
  /\ Files!FirstPage(stored) \in seenPages
  /\ read.pc = "read" => read.page \in seenPages \/ raced
  /\ open => read # Files!NoRead \/ ~invalid \/ unread
  /\ read = Files!NoRead /\ ~unread /\ ~invalid /\ shown # Nothing => shown \in seenPages \/ raced

LEMMA AttachedNext == AttachedInv /\ [Files!Next]_(Files!vars) => AttachedInv'
<1> SUFFICES ASSUME AttachedInv, [Files!Next]_(Files!vars) PROVE AttachedInv'
  OBVIOUS
<1> USE DEF AttachedInv, Files!NoRead, Files!Asked, Files!server, Files!list, Files!uploads
<1> DEFINE page(s) == Files!FirstPage(s)
<1>0. page(stored)' = page(stored')
  BY DEF Files!FirstPage
<1>1. CASE UNCHANGED Files!vars
  BY <1>0, <1>1 DEF Files!vars
<1>2. CASE Files!OpenDialog
  BY <1>0, <1>2 DEF Files!OpenDialog
<1>3. CASE Files!CloseDialog \/ Files!Retry
  BY <1>0, <1>3 DEF Files!CloseDialog, Files!Retry
<1>4. CASE Files!ServerReads
  BY <1>0, <1>4 DEF Files!ServerReads
<1>5. CASE Files!ReadEnds
  BY <1>0, <1>5 DEF Files!ReadEnds
<1>6. CASE Files!Invalidate
  <2>1. /\ seenPages' = {page(stored)} /\ invalid' = TRUE /\ stored' = stored
        /\ UNCHANGED <<shown, unread, open>>
    BY <1>6 DEF Files!Invalidate
  <2>2. CASE open
    BY <1>0, <1>6, <2>1, <2>2 DEF Files!Invalidate
  <2>3. CASE ~open
    <3>1. read' = read /\ (raced' <=> raced \/ read # Files!NoRead)
      BY <1>6, <2>3, Zenon DEF Files!Invalidate
    <3>2. read.pc = "read" => read # Files!NoRead
      OBVIOUS
    <3> QED BY <1>0, <2>1, <2>3, <3>1, <3>2
  <2> QED BY <2>2, <2>3
<1>7. ASSUME NEW changed, Files!Store(changed), UNCHANGED Files!list, UNCHANGED open
      PROVE  AttachedInv'
  BY <1>0, <1>7 DEF Files!Store
<1>8. ASSUME UNCHANGED Files!server, UNCHANGED Files!list, UNCHANGED open
      PROVE  AttachedInv'
  BY <1>0, <1>8
<1>9. ASSUME NEW f, Files!AddFile(f) \/ Files!UploadFailed(f) \/ Files!RemoveFile(f)
      PROVE  AttachedInv'
  BY <1>8, <1>9 DEF Files!AddFile, Files!UploadFailed, Files!RemoveFile
<1>10. ASSUME NEW f, Files!ServerStores(f) PROVE AttachedInv'
  BY <1>7, <1>8, <1>10 DEF Files!ServerStores
<1>11. ASSUME NEW f, Files!Uploaded(f) PROVE AttachedInv'
  BY <1>6, <1>11 DEF Files!Uploaded
<1>12. CASE Files!ServerRemoves
  BY <1>7, <1>8, <1>12 DEF Files!ServerRemoves
<1>13. CASE Files!Removed \/ Files!RemovalFails
  BY <1>6, <1>8, <1>13 DEF Files!Removed, Files!RemovalFails
<1>14. CASE Files!OthersAct
  BY <1>7, <1>14 DEF Files!OthersAct
<1> QED BY <1>1, <1>2, <1>3, <1>4, <1>5, <1>9, <1>10, <1>11, <1>12, <1>13, <1>14 DEF Files!Next

LEMMA AttachedAlways ==
  ASSUME PageSize \in Nat
  PROVE  Files!Spec => []Files!AttachmentsReconciled
<1>1. Files!Init => AttachedInv
  <2> SUFFICES ASSUME Files!Init PROVE AttachedInv
    OBVIOUS
  <2>1. stored = << >> /\ seenPages = {<< >>}
    BY DEF Files!Init
  <2>2. Files!FirstPage(stored) = << >>
    BY <2>1 DEF Files!FirstPage
  <2> QED BY <2>1, <2>2 DEF Files!Init, AttachedInv, Files!NoRead
<1>2. AttachedInv => Files!AttachmentsReconciled
  BY DEF AttachedInv, Files!AttachmentsReconciled
<1> QED BY <1>1, <1>2, AttachedNext, PTL DEF Files!Spec

-----------------------------------------------------------------------------
(* The board's settings *)

BoardRow == [version : Nat, name : Name, text : Text]
PanelAssumption == Name # {} /\ Text # {}

(* A row that the page holds is not newer than the saved one, and has its      *)
(* description if it is of the same version.                                   *)
GenuineBoard(row) ==
  /\ row \in BoardRow
  /\ row.version <= board.version
  /\ row.version = board.version => row.text = board.text

PanelInv ==
  /\ board \in BoardRow
  /\ GenuineBoard(cached)
  /\ fetched # Nothing => GenuineBoard(fetched)
  /\ fields # Nothing => GenuineBoard(fields)
  /\ saving \in {"sent", "saved"} => GenuineBoard(sent)

LEMMA PanelInit == ASSUME PanelAssumption, Panel!Init PROVE PanelInv
<1>1. board \in BoardRow /\ board.version = 1
  BY DEF PanelAssumption, Panel!Init, BoardRow
<1> QED BY <1>1 DEF Panel!Init, PanelInv, GenuineBoard, BoardRow

(* A save that the server accepts sends the description of the row it replaces.  *)
LEMMA PanelSaves ==
  ASSUME PanelInv, Panel!ServerSaves
  PROVE  /\ board' \in BoardRow /\ board'.version = board.version + 1 /\ board'.text = board.text
         /\ sent' = board'
<1>1. /\ saving = "sent" /\ sent.version = board.version
      /\ board' = [sent EXCEPT !.version = board.version + 1] /\ sent' = board'
  BY DEF Panel!ServerSaves
<1>2. sent \in BoardRow /\ sent.text = board.text /\ board.version + 1 \in Nat
  BY <1>1 DEF PanelInv, GenuineBoard, BoardRow
<1> QED BY <1>1, <1>2 DEF BoardRow

(* What was genuine stays so when a newer row is saved. *)
LEMMA BoardAdvances ==
  ASSUME NEW row, GenuineBoard(row), board \in BoardRow, board' \in BoardRow,
         board'.version = board.version + 1
  PROVE  /\ row \in BoardRow /\ row.version <= board'.version
         /\ row.version = board'.version => row.text = board'.text
BY DEF GenuineBoard, BoardRow

LEMMA PanelNext ==
  ASSUME PanelAssumption, PanelInv, [Panel!Next]_(Panel!vars)
  PROVE  PanelInv' /\ (board' # board /\ saving' # saving => board'.text = board.text)
<1> USE DEF PanelInv
<1> DEFINE Kept == board' # board /\ saving' # saving => board'.text = board.text
<1>a. GenuineBoard(board)
  BY DEF GenuineBoard, BoardRow
<1>b. ASSUME UNCHANGED board, NEW row, GenuineBoard(row)
      PROVE  /\ row \in BoardRow /\ row.version <= board'.version
             /\ row.version = board'.version => row.text = board'.text
  BY <1>b DEF GenuineBoard
<1>1. CASE UNCHANGED Panel!vars
  BY <1>1 DEF Panel!vars, GenuineBoard
<1>2. CASE Panel!Refetch \/ Panel!RefetchArrives \/ Panel!RefetchFails
  BY <1>a, <1>2 DEF Panel!Refetch, Panel!RefetchArrives, Panel!RefetchFails, GenuineBoard
<1>3. CASE Panel!OpenPanel \/ Panel!ClosePanel \/ Panel!Submit
  BY <1>3 DEF Panel!OpenPanel, Panel!ClosePanel, Panel!Submit, GenuineBoard
<1>4. CASE Panel!EditName
  <2>1. /\ fields # Nothing /\ saving = "no" /\ UNCHANGED <<board, cached, fetched, saving, sent>>
        /\ \E n \in Name : fields' = [fields EXCEPT !.name = n]
    BY <1>4 DEF Panel!EditName
  <2>2. PICK n \in Name : fields' = [fields EXCEPT !.name = n]
    BY <2>1
  <2>3. fields \in BoardRow
    BY <2>1 DEF GenuineBoard
  <2>4. fields' \in BoardRow /\ fields'.version = fields.version /\ fields'.text = fields.text
    BY <2>2, <2>3 DEF BoardRow
  <2>5. GenuineBoard(fields)'
    BY <2>1, <2>4 DEF GenuineBoard
  <2> QED BY <2>1, <2>5 DEF GenuineBoard
<1>5. CASE Panel!ServerSaves
  <2>1. /\ board' \in BoardRow /\ board'.version = board.version + 1 /\ board'.text = board.text
        /\ sent' = board'
    BY <1>5, PanelSaves
  <2>2. /\ UNCHANGED <<cached, fetched, fields>> /\ saving = "sent"
    BY <1>5 DEF Panel!ServerSaves
  <2>3. GenuineBoard(cached)'
    BY <2>1, <2>2, BoardAdvances DEF GenuineBoard
  <2>4. fetched # Nothing => GenuineBoard(fetched)'
    BY <2>1, <2>2, BoardAdvances DEF GenuineBoard
  <2>5. fields # Nothing => GenuineBoard(fields)'
    BY <2>1, <2>2, BoardAdvances DEF GenuineBoard
  <2>6. GenuineBoard(sent)'
    BY <2>1 DEF GenuineBoard, BoardRow
  <2> QED BY <2>1, <2>2, <2>3, <2>4, <2>5, <2>6
<1>6. CASE Panel!ServerRefuses \/ Panel!SaveFails
  BY <1>6 DEF Panel!ServerRefuses, Panel!SaveFails, GenuineBoard
<1>7. CASE Panel!Saved \/ Panel!Recover
  BY <1>a, <1>7 DEF Panel!Saved, Panel!Recover, GenuineBoard
<1>8. CASE Panel!OtherSaves
  <2>1. /\ UNCHANGED <<cached, fetched, fields, saving, sent>>
        /\ \E n \in Name, t \in Text :
             board' = [version |-> board.version + 1, name |-> n, text |-> t]
    BY <1>8 DEF Panel!OtherSaves
  <2>2. board' \in BoardRow /\ board'.version = board.version + 1
    BY <2>1 DEF BoardRow
  <2>3. GenuineBoard(cached)'
    BY <2>1, <2>2, BoardAdvances DEF GenuineBoard
  <2>4. fetched # Nothing => GenuineBoard(fetched)'
    BY <2>1, <2>2, BoardAdvances DEF GenuineBoard
  <2>5. fields # Nothing => GenuineBoard(fields)'
    BY <2>1, <2>2, BoardAdvances DEF GenuineBoard
  <2>6. saving \in {"sent", "saved"} => GenuineBoard(sent)'
    BY <2>1, <2>2, BoardAdvances DEF GenuineBoard
  <2> QED BY <2>1, <2>2, <2>3, <2>4, <2>5, <2>6
<1> QED BY <1>1, <1>2, <1>3, <1>4, <1>5, <1>6, <1>7, <1>8 DEF Panel!Next

LEMMA PanelAlways ==
  ASSUME PanelAssumption
  PROVE  Panel!Spec => Panel!NoLostUpdate
<1>1. PanelInv /\ [Panel!Next]_(Panel!vars) => PanelInv'
  BY PanelNext
<1>2. PanelInv /\ [Panel!Next]_(Panel!vars)
        => [board' # board /\ saving' # saving => board'.text = board.text]_(Panel!vars)
  BY PanelNext
<1>3. Panel!Init => PanelInv
  BY PanelInit
<1> QED BY <1>1, <1>2, <1>3, PTL DEF Panel!Spec, Panel!NoLostUpdate

-----------------------------------------------------------------------------
(* The session of the tab *)

(* The destination survives the detours over the sign-in screen. *)
Destination == {wanted, Session!SafeRedirect(wanted)}
RouteInv ==
  /\ path # "login" => path \in Destination
  /\ path = "login" => redirect \in Destination

(* All that is held or on its way was read for r. *)
ReadFor(r) ==
  /\ owners \subseteq {r}
  /\ loading \in {r, Nobody}
  /\ save.before \/ save.of \subseteq {r}
  /\ cookie \in {r, Nobody}
  /\ lookup.pc = "found" => lookup.user \in {r, Nobody}
  /\ lookup.pc = "none" => known \in {r, Nobody}

SignedInUnheard == request.kind = "in" /\ request.pc \in {"ok", "lost"}

SessionType ==
  /\ request \in [kind : {"none", "in", "out", "switch"}, user : User \cup {Nobody},
                  pc : {"none", "sent", "ok", "lost", "refused"}]
  /\ request.kind # "in" => request.user = Nobody
  /\ save \in [pc : {"none", "sent", "ok", "failed"}, on : Session!Protected, of : SUBSET User,
               before : BOOLEAN]
  /\ lookup \in [pc : {"none", "asked", "found"}, user : User \cup {Nobody}]
  /\ cookie \in User \cup {Nobody} /\ loading \in User \cup {Nobody} /\ owners \subseteq User

OneReader == mixed \/ SignedInUnheard \/ \E r \in User \cup {Nobody} : ReadFor(r)

SessionInv == SessionType /\ RouteInv /\ OneReader

LEMMA SessionInit == Session!Init => SessionInv
<1> SUFFICES ASSUME Session!Init PROVE SessionInv
  OBVIOUS
<1> USE DEF Session!Init, Session!NoRequest, Session!AskedAgain, Session!NoSave
<1>1. SessionType
  BY DEF SessionType, Session!Protected
<1>2. RouteInv
  BY DEF RouteInv, Destination, Session!Protected
<1>3. ReadFor(cookie) /\ cookie \in User \cup {Nobody}
  BY DEF ReadFor
<1> QED BY <1>1, <1>2, <1>3 DEF SessionInv, OneReader

LEMMA TypeStep ==
  ASSUME SessionType, Session!Next
  PROVE  SessionType'
<1> USE DEF SessionType, Session!store, Session!data, Session!NoRequest, Session!AskedAgain,
            Session!NoLookup, Session!NoSave
<1>1. CASE Session!Refocus \/ Session!GetSession \/ Session!LookupEnds \/ Session!Expire
  BY <1>1 DEF Session!Refocus, Session!GetSession, Session!LookupEnds, Session!Expire
<1>2. ASSUME NEW p, Session!FollowLink(p) PROVE SessionType'
  BY <1>2 DEF Session!FollowLink
<1>3. CASE \/ Session!RequireSession \/ Session!LogInToAccept \/ Session!LogIn
           \/ Session!LeaveSignIn
  BY <1>3 DEF Session!RequireSession, Session!LogInToAccept, Session!LogIn, Session!LeaveSignIn
<1>4. ASSUME NEW u \in User, Session!SignIn(u) PROVE SessionType'
  BY <1>4 DEF Session!SignIn
<1>5. CASE Session!SignOut \/ Session!SwitchAccount
  BY <1>5 DEF Session!SignOut, Session!SwitchAccount
<1>6. CASE Session!ServerSigns
  BY <1>6 DEF Session!ServerSigns
<1>7. CASE Session!Cleared /\ request' = Session!NoRequest /\ UNCHANGED cookie
           /\ lookup' = Session!AskedAgain
  BY <1>7 DEF Session!Cleared
<1>8. CASE Session!SignedIn \/ Session!SignedOut
  BY <1>7, <1>8 DEF Session!SignedIn, Session!SignedOut
<1>9. CASE Session!RequestFails
  BY <1>9 DEF Session!RequestFails
<1>10. CASE Session!Query \/ Session!QueryEnds
  BY <1>10 DEF Session!Query, Session!QueryEnds
<1>11. CASE Session!Save \/ Session!ServerSaves \/ Session!SaveEnds
  <2>1. CASE Session!Save
    BY <2>1 DEF Session!Save
  <2>2. CASE Session!ServerSaves
    <3>1. CASE save' = [save EXCEPT !.pc = "failed"]
      BY <2>2, <3>1 DEF Session!ServerSaves
    <3>2. CASE /\ cookie # Nobody
               /\ save' = [save EXCEPT !.pc = "ok",
                                       !.of = IF save.on = "board" THEN @ ELSE {cookie}]
      <4>1. cookie \in User
        BY <3>2
      <4>2. (IF save.on = "board" THEN save.of ELSE {cookie}) \in SUBSET User
        BY <4>1
      <4>3. save' \in [pc : {"none", "sent", "ok", "failed"}, on : Session!Protected,
                       of : SUBSET User, before : BOOLEAN]
        BY <3>2, <4>2
      <4> QED BY <2>2, <4>3 DEF Session!ServerSaves
    <3> QED BY <2>2, <3>1, <3>2 DEF Session!ServerSaves
  <2>3. CASE Session!SaveEnds
    <3>1. Session!PutBack \subseteq User
      BY DEF Session!PutBack
    <3>2. /\ save' = Session!NoSave /\ "boards" \in Session!Protected
          /\ owners' \subseteq User /\ loading' \in User \cup {Nobody}
      BY <2>3, <3>1 DEF Session!SaveEnds, Session!Protected
    <3> QED BY <2>3, <3>2 DEF Session!SaveEnds
  <2> QED BY <1>11, <2>1, <2>2, <2>3
<1>12. CASE Session!Accept \/ Session!ServerAccepts \/ Session!Accepted
  BY <1>12 DEF Session!Accept, Session!ServerAccepts, Session!Accepted
<1> QED BY <1>1, <1>2, <1>3, <1>4, <1>5, <1>6, <1>8, <1>9, <1>10, <1>11, <1>12 DEF Session!Next

LEMMA RouteStep ==
  ASSUME RouteInv, Session!Next
  PROVE  RouteInv'
<1> USE DEF RouteInv, Destination, Session!SafeRedirect, Session!route
<1>1. CASE UNCHANGED <<path, redirect, wanted>>
  BY <1>1
<1>2. ASSUME NEW p \in Session!Protected \cup {"invitation"}, Session!FollowLink(p) PROVE RouteInv'
  BY <1>2 DEF Session!FollowLink, Session!Protected
<1>3. CASE Session!RequireSession \/ Session!LogInToAccept \/ Session!LogIn
  BY <1>3 DEF Session!RequireSession, Session!LogInToAccept, Session!LogIn, Session!Protected
<1>4. CASE Session!LeaveSignIn
  BY <1>4 DEF Session!LeaveSignIn
<1>5. CASE Session!SignedOut
  BY <1>5 DEF Session!SignedOut
<1>6. CASE Session!Accepted
  BY <1>6 DEF Session!Accepted, Session!Arrive
<1>7. CASE Session!SaveEnds
  BY <1>7 DEF Session!SaveEnds, Session!Arrive
<1>8. CASE \/ Session!Refocus \/ Session!GetSession \/ Session!LookupEnds \/ Session!Expire
           \/ \E u \in User : Session!SignIn(u)
           \/ Session!SignOut \/ Session!SwitchAccount \/ Session!ServerSigns \/ Session!SignedIn
           \/ Session!RequestFails \/ Session!Query \/ Session!QueryEnds \/ Session!Save
           \/ Session!ServerSaves \/ Session!Accept \/ Session!ServerAccepts
  BY <1>1, <1>8
     DEF Session!Refocus, Session!GetSession, Session!LookupEnds, Session!Expire, Session!SignIn,
         Session!SignOut, Session!SwitchAccount, Session!ServerSigns, Session!SignedIn,
         Session!RequestFails, Session!Query, Session!QueryEnds, Session!Save,
         Session!ServerSaves, Session!Accept, Session!ServerAccepts
<1> QED BY <1>2, <1>3, <1>4, <1>5, <1>6, <1>7, <1>8 DEF Session!Next

(* A cleared cache may be anybody's. *)
LEMMA ClearedForAll ==
  ASSUME SessionType, Session!Cleared, lookup' = Session!AskedAgain, UNCHANGED cookie
  PROVE  \E r \in User \cup {Nobody} : ReadFor(r)'
<1>1. PICK r \in User \cup {Nobody} : r = cookie
  BY DEF SessionType
<1>2. lookup'.pc = "asked" /\ owners' = {} /\ loading' = Nobody /\ cookie' = r
  BY <1>1 DEF Session!Cleared, Session!AskedAgain
<1>3. save'.before \/ save'.of \subseteq {r}
  <2>1. CASE save = Session!NoSave
    BY <2>1 DEF Session!Cleared, SessionType, Session!NoSave
  <2>2. CASE save # Session!NoSave
    BY <2>2 DEF Session!Cleared, SessionType
  <2> QED BY <2>1, <2>2
<1> QED BY <1>2, <1>3 DEF ReadFor

LEMMA ReaderStep ==
  ASSUME SessionType, OneReader, Session!Next
  PROVE  OneReader'
<1> USE DEF SessionType, Session!store, Session!data
<1> DEFINE Reader == User \cup {Nobody}
<1>a. CASE mixed' \/ SignedInUnheard'
  BY <1>a DEF OneReader
<1>b. ASSUME NEW r \in Reader, ReadFor(r)' PROVE OneReader'
  BY <1>b DEF OneReader
<1>c. ASSUME NEW r \in Reader, ReadFor(r), ~mixed, ~SignedInUnheard, Session!Next PROVE OneReader'
  <2> SUFFICES ASSUME ~mixed', ~SignedInUnheard'
               PROVE  OneReader'
    BY <1>a
  <2>0. CASE UNCHANGED <<cookie, known, lookup, owners, loading, save>>
    BY <1>b, <1>c, <2>0 DEF ReadFor
  <2>1. CASE Session!Refocus \/ Session!GetSession \/ Session!LookupEnds \/ Session!Expire
    <3>1. ReadFor(r)'
      BY <1>c, <2>1 DEF ReadFor, Session!Refocus, Session!GetSession, Session!LookupEnds,
         Session!Expire, Session!AskedAgain, Session!NoLookup
    <3> QED BY <1>b, <3>1
  <2>2. CASE Session!ServerSigns
    <3>1. request' \in {[request EXCEPT !.pc = "ok"], [request EXCEPT !.pc = "lost"],
                        [request EXCEPT !.pc = "refused"]}
          /\ cookie' \in {cookie, request.user}
          /\ (cookie' # cookie => request' # [request EXCEPT !.pc = "refused"])
          /\ UNCHANGED <<known, lookup, owners, loading, save>>
      BY <2>2 DEF Session!ServerSigns
    <3>2. cookie' # cookie => cookie' = Nobody
      BY <3>1 DEF SignedInUnheard
    <3>3. ReadFor(r)'
      BY <1>c, <3>1, <3>2 DEF ReadFor
    <3> QED BY <1>b, <3>3
  <2>3. CASE Session!SignedIn \/ Session!SignedOut
    <3>1. Session!Cleared /\ lookup' = Session!AskedAgain /\ UNCHANGED cookie
      BY <2>3 DEF Session!SignedIn, Session!SignedOut
    <3> QED BY <1>b, <3>1, ClearedForAll
  <2>4. CASE Session!RequestFails
    BY <2>0, <2>4 DEF Session!RequestFails
  <2>5. CASE Session!Query \/ Session!QueryEnds
    <3>1. ReadFor(r)'
      BY <1>c, <2>5 DEF ReadFor, Session!Query, Session!QueryEnds
    <3> QED BY <1>b, <3>1
  <2>6. CASE Session!Save
    <3>1. ReadFor(r)'
      BY <1>c, <2>6 DEF ReadFor, Session!Save
    <3> QED BY <1>b, <3>1
  <2>8. CASE Session!ServerSaves
    <3>1. /\ save'.of \in {save.of, {cookie}} /\ save'.before = save.before
          /\ cookie = Nobody => save'.of = save.of
      BY <2>8 DEF Session!ServerSaves
    <3>2. save'.before \/ save'.of \subseteq {r}
      BY <1>c, <3>1 DEF ReadFor
    <3>3. ReadFor(r)'
      BY <1>c, <2>8, <3>2 DEF ReadFor, Session!ServerSaves
    <3> QED BY <1>b, <3>3
  <2>9. CASE Session!SaveEnds
    <3>1. Session!PutBack \subseteq {r}
      BY <1>c, <2>9 DEF Session!SaveEnds, Session!PutBack, ReadFor
    <3>2. owners' \subseteq {r} /\ loading' \in {r, Nobody}
      BY <1>c, <2>9, <3>1 DEF Session!SaveEnds, ReadFor
    <3>3. ReadFor(r)'
      BY <1>c, <2>9, <3>2 DEF ReadFor, Session!SaveEnds, Session!NoSave
    <3> QED BY <1>b, <3>3
  <2>7. CASE \/ \E p \in Session!Protected \cup {"invitation"} : Session!FollowLink(p)
             \/ Session!RequireSession \/ Session!LogInToAccept \/ Session!LogIn
             \/ Session!LeaveSignIn
             \/ \E u \in User : Session!SignIn(u)
             \/ Session!SignOut \/ Session!SwitchAccount
             \/ Session!Accept \/ Session!ServerAccepts \/ Session!Accepted
    BY <2>0, <2>7
       DEF Session!FollowLink, Session!RequireSession, Session!LogInToAccept, Session!LogIn,
           Session!LeaveSignIn, Session!Arrive, Session!SignIn, Session!SignOut, Session!SwitchAccount, Session!Accept,
           Session!ServerAccepts, Session!Accepted
  <2> QED BY <1>c, <2>1, <2>2, <2>3, <2>4, <2>5, <2>6, <2>7, <2>8, <2>9 DEF Session!Next
<1>d. CASE mixed
  <2>1. CASE Session!SignedIn \/ Session!SignedOut
    <3>1. Session!Cleared /\ lookup' = Session!AskedAgain /\ UNCHANGED cookie
      BY <2>1 DEF Session!SignedIn, Session!SignedOut
    <3> QED BY <1>b, <3>1, ClearedForAll
  <2>2. CASE ~(Session!SignedIn \/ Session!SignedOut)
    BY <1>a, <1>d, <2>2
       DEF Session!Next, Session!Refocus, Session!GetSession, Session!LookupEnds, Session!Expire,
           Session!FollowLink, Session!RequireSession, Session!LogInToAccept, Session!LogIn,
           Session!LeaveSignIn, Session!SignIn, Session!SignOut, Session!SwitchAccount, Session!ServerSigns,
           Session!RequestFails, Session!Query, Session!QueryEnds, Session!Save,
           Session!ServerSaves, Session!SaveEnds, Session!Accept, Session!ServerAccepts, Session!Accepted
  <2> QED BY <2>1, <2>2
<1>e. CASE SignedInUnheard
  <2>1. CASE Session!SignedIn \/ Session!SignedOut
    <3>1. Session!Cleared /\ lookup' = Session!AskedAgain /\ UNCHANGED cookie
      BY <2>1 DEF Session!SignedIn, Session!SignedOut
    <3> QED BY <1>b, <3>1, ClearedForAll
  <2>2. CASE Session!RequestFails
    BY <1>a, <1>e, <2>2 DEF Session!RequestFails, SignedInUnheard
  <2>3. CASE ~(Session!SignedIn \/ Session!SignedOut \/ Session!RequestFails)
    <3>1. UNCHANGED request
      BY <1>e, <2>3
         DEF SignedInUnheard, Session!NoRequest,
             Session!Next, Session!Refocus, Session!GetSession, Session!LookupEnds, Session!Expire,
             Session!FollowLink, Session!RequireSession, Session!LogInToAccept, Session!LogIn,
             Session!LeaveSignIn, Session!SignIn, Session!SignOut, Session!SwitchAccount,
             Session!ServerSigns, Session!Query, Session!QueryEnds, Session!Save,
             Session!ServerSaves, Session!SaveEnds, Session!Accept, Session!ServerAccepts, Session!Accepted
    <3> QED BY <1>a, <1>e, <3>1 DEF SignedInUnheard
  <2> QED BY <2>1, <2>2, <2>3
<1> QED BY <1>c, <1>d, <1>e DEF OneReader

LEMMA SessionNext == SessionInv /\ [Session!Next]_(Session!vars) => SessionInv'
<1>1. CASE UNCHANGED Session!vars
  BY <1>1 DEF Session!vars, SessionInv, SessionType, RouteInv, Destination, OneReader,
              SignedInUnheard, ReadFor
<1>2. CASE Session!Next
  BY <1>2, TypeStep, RouteStep, ReaderStep DEF SessionInv
<1> QED BY <1>1, <1>2

(* AuthScreen.tsx, UserMenu.tsx, RequireSession.tsx: when a sign-in or sign-out is   *)
(* over, a reader sees what was read for her only, and is on the page she last asked  *)
(* for, however lookups, answers, saves and the expiry of the session interleave.       *)
THEOREM SessionAlwaysFollowed == Session!Spec => []SessionFollowed
<1>1. SessionInv => SessionFollowed
  <2> SUFFICES ASSUME SessionInv, lookup = Session!NoLookup, request = Session!NoRequest,
                      known # Nobody
               PROVE  /\ owners \subseteq {known} \/ mixed
                      /\ path \in {wanted, Session!SafeRedirect(wanted), "login"}
    BY DEF SessionFollowed, Session!SessionFollowed
  <2>1. path \in {wanted, Session!SafeRedirect(wanted), "login"}
    BY DEF SessionInv, RouteInv, Destination
  <2>2. ~SignedInUnheard /\ lookup.pc = "none"
    BY DEF SignedInUnheard, Session!NoRequest, Session!NoLookup
  <2>3. ASSUME ~mixed PROVE owners \subseteq {known}
    <3>1. PICK r \in User \cup {Nobody} : ReadFor(r)
      BY <2>2, <2>3 DEF SessionInv, OneReader
    <3>2. known = r
      BY <2>2, <3>1 DEF ReadFor
    <3> QED BY <3>1, <3>2 DEF ReadFor
  <2> QED BY <2>1, <2>3
<1> QED BY <1>1, SessionInit, SessionNext, PTL DEF Session!Spec

-----------------------------------------------------------------------------
(* The task list *)

(* The model's marks for a missing date and for a filter that is left out are no *)
(* dates and no values of a filter.                                              *)
ListAssumption ==
  /\ NoDate \notin Int
  /\ Unset \notin List!Active \cup {"NONE", "OVERDUE", "TODAY", "NEXT_7_DAYS"}

DueFilters == {Unset, "NONE", "OVERDUE", "TODAY", "NEXT_7_DAYS"}

Sorts == {"DUE_DATE", "PRIORITY", "NEWEST", "OLDEST", "NAME"}

QueryTyped(q) ==
  /\ q = [q |-> q.q, assignee |-> q.assignee, priority |-> q.priority, status |-> q.status,
          blocking |-> q.blocking, includeArchived |-> q.includeArchived, due |-> q.due,
          sort |-> q.sort, limit |-> q.limit]
  /\ q.status \in List!Active \cup {Unset}
  /\ q.includeArchived \in BOOLEAN
  /\ q.due \in DueFilters
  /\ q.sort \in Sorts /\ q.limit \in Nat \ {0}

RowTyped(row) ==
  /\ row.status \in List!Active \cup {"ARCHIVED"}
  /\ row.due \in Int \cup {NoDate}
  /\ row.priority \in Int /\ row.name \in Int /\ row.made \in Int

ListInv == QueryTyped(query) /\ \A n \in DOMAIN rows : RowTyped(rows[n])

LEMMA KeyedIsTyped ==
  ASSUME NEW sort, NEW key \in List!Keys(sort), NEW status \in List!Active \cup {"ARCHIVED"}
  PROVE  RowTyped(List!Keyed(sort, key, status))
<1>1. List!Keyed(sort, key, status).status = status
  BY DEF List!Keyed, List!Row
<1>2. List!Keyed(sort, key, status).due = IF sort = "DUE_DATE" THEN key ELSE NoDate
  BY DEF List!Keyed, List!Row
<1>3. key \in Int \cup {NoDate} /\ (sort # "DUE_DATE" => key \in Int)
  BY DEF List!Keys
<1>4. /\ List!Keyed(sort, key, status).priority = IF sort = "PRIORITY" THEN key ELSE 1
      /\ List!Keyed(sort, key, status).name = IF sort = "NAME" THEN key ELSE 1
      /\ List!Keyed(sort, key, status).made = IF sort \in {"NEWEST", "OLDEST"} THEN key ELSE 0
  BY DEF List!Keyed, List!Row
<1> QED BY <1>1, <1>2, <1>3, <1>4 DEF RowTyped

LEMMA ListInit == ASSUME Limits \subseteq Nat \ {0}, List!Init PROVE ListInv
<1>0. ASSUME NEW sort \in Sorts, NEW limit \in Nat \ {0} PROVE QueryTyped(List!Query(sort, limit))
  BY DEF QueryTyped, List!Query, DueFilters
<1>1. CASE List!Paging
  <2>1. QueryTyped(query)
    BY <1>0, <1>1 DEF List!Paging, Sorts
  <2>2. ASSUME NEW n \in DOMAIN rows PROVE RowTyped(rows[n])
    <3>1. PICK key \in List!Keys(query.sort), status \in {"NOT_STARTED", "ARCHIVED"} :
            rows[n] = List!Keyed(query.sort, key, status)
      BY <1>1, <2>2 DEF List!Paging
    <3> QED BY <3>1, KeyedIsTyped DEF List!Active
  <2> QED BY <2>1, <2>2 DEF ListInv
<1>2. CASE List!Filtering
  <2> DEFINE none == List!Query("DUE_DATE", 1)
             one(q) == {[q EXCEPT !.q = t] : t \in List!Terms}
                  \cup {[q EXCEPT !.assignee = a] : a \in {"none", "me"}}
                  \cup {[q EXCEPT !.priority = p] : p \in {1, 2}}
                  \cup {[q EXCEPT !.status = s] : s \in List!Active}
                  \cup {[q EXCEPT !.blocking = b] : b \in {"BLOCKED", "UNBLOCKED"}}
                  \cup {[q EXCEPT !.includeArchived = TRUE]}
                  \cup {[q EXCEPT !.due = d] : d \in {"NONE", "OVERDUE", "TODAY", "NEXT_7_DAYS"}}
  <2>1. query \in {none} \cup one(none) \cup UNION {one(q) : q \in one(none)}
    BY <1>2, Zenon DEF List!Filtering
  <2>2. ASSUME NEW q, QueryTyped(q), NEW p \in one(q) PROVE QueryTyped(p)
    <3> USE <2>2 DEF QueryTyped
    <3>1. CASE \E t : p = [q EXCEPT !.q = t]
      BY <3>1
    <3>2. CASE \E a : p = [q EXCEPT !.assignee = a]
      BY <3>2
    <3>3. CASE \E n : p = [q EXCEPT !.priority = n]
      BY <3>3
    <3>4. CASE \E s \in List!Active : p = [q EXCEPT !.status = s]
      BY <3>4
    <3>5. CASE \E b : p = [q EXCEPT !.blocking = b]
      BY <3>5
    <3>6. CASE \E i \in BOOLEAN : p = [q EXCEPT !.includeArchived = i]
      BY <3>6
    <3>7. CASE \E d \in {"NONE", "OVERDUE", "TODAY", "NEXT_7_DAYS"} : p = [q EXCEPT !.due = d]
      BY <3>7 DEF DueFilters
    <3> HIDE DEF QueryTyped
    <3> QED BY <2>2, <3>1, <3>2, <3>3, <3>4, <3>5, <3>6, <3>7, Zenon
  <2>3. QueryTyped(none)
    BY <1>0 DEF Sorts
  <2> HIDE DEF one, none
  <2>4. QueryTyped(query)
    BY <2>1, <2>2, <2>3
  <2>5. \A n \in DOMAIN rows : RowTyped(rows[n])
    BY <1>2 DEF List!Filtering, List!Row, RowTyped
  <2> QED BY <2>4, <2>5 DEF ListInv
<1> QED BY <1>1, <1>2 DEF List!Init

LEMMA ListNext == ListInv /\ [List!Next]_(List!vars) => ListInv'
<1> SUFFICES ASSUME ListInv, [List!Next]_(List!vars) PROVE ListInv'
  OBVIOUS
<1>1. CASE UNCHANGED List!vars
  BY <1>1 DEF List!vars, ListInv
<1>2. CASE List!ListTasks
  BY <1>2 DEF List!ListTasks, ListInv
<1>3. ASSUME NEW n, NEW key \in List!Keys(query.sort), NEW status \in {"NOT_STARTED", "ARCHIVED"},
             List!Write(n, List!Keyed(query.sort, key, status))
      PROVE  ListInv'
  <2> DEFINE row == List!Keyed(query.sort, key, status)
  <2>1. RowTyped(row)
    BY KeyedIsTyped DEF List!Active
  <2> HIDE DEF row
  <2>2. /\ rows' = [m \in DOMAIN rows \cup {n} |-> IF m = n THEN row ELSE rows[m]]
        /\ query' = query
    BY <1>3 DEF List!Write, row
  <2> QED BY <2>1, <2>2 DEF ListInv
<1>4. CASE List!Create
  BY <1>3, <1>4 DEF List!Create
<1>5. ASSUME NEW n \in DOMAIN rows, List!Edit(n) PROVE ListInv'
  BY <1>3, <1>5 DEF List!Edit
<1>6. ASSUME NEW n \in DOMAIN rows, List!Delete(n) PROVE ListInv'
  BY <1>6 DEF List!Delete, ListInv
<1> QED BY <1>1, <1>2, <1>4, <1>5, <1>6 DEF List!Next, List!PageRefused

(* tasks.repository.ts and taskBoard.ts: where both have a filter, the client keeps *)
(* a task in view exactly when the API would list it, whatever tasks and query the      *)
(* list is started with; the blocking filter and archived tasks under a status filter     *)
(* are the exceptions.                                                                    *)
THEOREM FilterTestsAgree ==
  (List!Init \/ ListInv) /\ [][List!Next]_(List!vars) => []ClientMirrorsServer
<1>. ListAssumption
  BY ClientAssumption DEF ListAssumption
<1>1. ListInv => ClientMirrorsServer
  <2> SUFFICES ASSUME ListInv, NEW n \in DOMAIN rows, query.blocking = Unset,
                      query.status = Unset \/ rows[n].status # "ARCHIVED"
               PROVE  n \in List!Matching <=> List!MatchesTaskFilters(query, n, rows[n])
    BY DEF ClientMirrorsServer, List!ClientMirrorsServer
  <2> DEFINE row == rows[n]
  <2>1. List!Forwarded = query
    BY DEF List!Forwarded, ListInv, QueryTyped
  <2>2. n \in List!Matching <=> List!FiltersWhere(query, n, row)
    BY <2>1 DEF List!Matching
  <2>3. /\ row.status \in List!Active \cup {"ARCHIVED"} /\ row.due \in Int \cup {NoDate}
        /\ query.status \in List!Active \cup {Unset} /\ query.includeArchived \in BOOLEAN
        /\ query.due \in DueFilters
    BY DEF ListInv, QueryTyped, RowTyped
  <2>4. row.status \in List!ResolveStatuses(query)
          <=> /\ query.includeArchived \/ row.status # "ARCHIVED"
              /\ query.status # Unset => row.status = query.status
    BY <2>3 DEF List!ResolveStatuses, List!Active, ListAssumption
  <2>5. query.due # Unset =>
          (List!DueMatches(row.due, query.due) <=> List!DueDateMatchesFilter(row.due, query.due))
    <3> USE <2>3 DEF List!DueMatches, List!DueDateMatchesFilter, ListAssumption
    <3>1. CASE query.due = "NONE"
      BY <3>1
    <3>2. CASE query.due = "OVERDUE"
      BY <3>2
    <3>3. CASE query.due = "TODAY"
      BY <3>3
    <3>4. CASE query.due = "NEXT_7_DAYS"
      BY <3>4 DEF List!NextSevenDaysSpan
    <3> QED BY <3>1, <3>2, <3>3, <3>4 DEF DueFilters
  <2>6. List!IsBlocked(row) <=> row.needs \cap List!Unfinished # {}
    BY DEF List!IsBlocked
  <2> HIDE DEF row
  <2>7. List!FiltersWhere(query, n, row) <=> List!MatchesTaskFilters(query, n, row)
    BY <2>4, <2>5, <2>6, Zenon
       DEF List!FiltersWhere, List!MatchesTaskFilters, List!SearchMatches
  <2> QED BY <2>2, <2>7 DEF row
<1>2. List!Init => ListInv
  BY ListInit, ClientAssumption
<1> QED BY <1>1, <1>2, ListNext, PTL

-----------------------------------------------------------------------------
(* Reading a list page by page *)

(* A strict order of the rows, as the set of its pairs. *)
StrictOrder(R, rowSet) ==
  /\ \A x \in rowSet : <<x, x>> \notin R
  /\ \A x, y, z \in rowSet : <<x, y>> \in R /\ <<y, z>> \in R => <<x, z>> \in R
  /\ \A x, y \in rowSet : x = y \/ <<x, y>> \in R \/ <<y, x>> \in R

(* Where the reader of a list stands: of the untouched rows U it has read those  *)
(* that match (M) and are not after its cursor (A), no other, and in the order R. *)
ReadSoFar(seq, R, M, A, U) ==
  /\ \A i \in DOMAIN seq : seq[i] \in U => seq[i] \in M \ A
  /\ \A n \in U : n \in M \ A => \E i \in DOMAIN seq : seq[i] = n
  /\ \A i, j \in DOMAIN seq : i < j /\ seq[i] \in U /\ seq[j] \in U => <<seq[i], seq[j]>> \in R

(* Whatever is after a row that is after the cursor is after the cursor. *)
Upward(A, R, rowSet) == \A m \in A, n \in rowSet : <<m, n>> \in R => n \in A

(* The rows of a page, of those that match after the cursor; the rest is left. *)
PageOf(items, R, found, rest) ==
  /\ \A i \in DOMAIN items : items[i] \in found
  /\ \A i, j \in DOMAIN items : i < j => <<items[i], items[j]>> \in R
  /\ \A n \in found : n \in rest \/ \E i \in DOMAIN items : items[i] = n
  /\ \A i \in DOMAIN items : items[i] \notin rest

(* A page keeps the reader's place: what it read before is ahead of the page. *)
LEMMA PageAppends ==
  ASSUME NEW D, NEW R, NEW M \in SUBSET D, NEW A \in SUBSET D, NEW B, NEW U \in SUBSET D,
         NEW X, NEW seq \in Seq(X), NEW items \in Seq(X),
         StrictOrder(R, D), Upward(A, R, D), \A n \in M : n \in B => n \in A,
         PageOf(items, R, M \cap A, B), ReadSoFar(seq, R, M, A, U)
  PROVE  ReadSoFar(seq \o items, R, M, B, U)
<1> DEFINE both == seq \o items
<1>1. /\ Len(seq) \in Nat /\ Len(items) \in Nat
      /\ DOMAIN seq = 1..Len(seq) /\ DOMAIN items = 1..Len(items)
  OBVIOUS
<1>2. /\ Len(both) = Len(seq) + Len(items)
      /\ both \in Seq(X) /\ DOMAIN both = 1..(Len(seq) + Len(items))
  OBVIOUS
<1>3. ASSUME NEW i \in DOMAIN both
      PROVE  \/ i \in DOMAIN seq /\ both[i] = seq[i]
             \/ i - Len(seq) \in DOMAIN items /\ both[i] = items[i - Len(seq)]
  BY <1>1, <1>2
<1>4. \A i \in DOMAIN seq : i \in DOMAIN both /\ both[i] = seq[i]
  BY <1>1, <1>2
<1>5. \A i \in DOMAIN items : i + Len(seq) \in DOMAIN both /\ both[i + Len(seq)] = items[i]
  BY <1>1, <1>2
<1> HIDE DEF both
<1>6. \A i \in DOMAIN seq : seq[i] \in U => seq[i] \in M \ A
  BY DEF ReadSoFar
<1>7. \A i \in DOMAIN items : items[i] \in (M \cap A) \ B
  BY DEF PageOf
<1>8. ASSUME NEW i \in DOMAIN both, both[i] \in U PROVE both[i] \in M \ B
  BY <1>3, <1>6, <1>7, <1>8
<1>9. ASSUME NEW n \in U, n \in M \ B PROVE \E i \in DOMAIN both : both[i] = n
  <2>1. CASE n \in A
    <3>1. PICK i \in DOMAIN items : items[i] = n
      BY <1>9, <2>1 DEF PageOf
    <3> QED BY <3>1, <1>5
  <2>2. CASE n \notin A
    <3>1. PICK i \in DOMAIN seq : seq[i] = n
      BY <1>9, <2>2 DEF ReadSoFar
    <3> QED BY <3>1, <1>4
  <2> QED BY <2>1, <2>2
<1>10. ASSUME NEW i \in DOMAIN both, NEW j \in DOMAIN both, i < j, both[i] \in U, both[j] \in U
       PROVE  <<both[i], both[j]>> \in R
  <2>1. CASE i \in DOMAIN seq /\ j \in DOMAIN seq
    BY <1>4, <1>10, <2>1 DEF ReadSoFar
  <2>2. CASE i \in DOMAIN seq /\ j \notin DOMAIN seq
    <3>1. both[i] \in M \ A /\ both[j] \in M \cap A
      BY <1>3, <1>4, <1>6, <1>7, <1>10, <2>2
    <3>2. both[i] # both[j] /\ <<both[j], both[i]>> \notin R
      BY <3>1 DEF Upward
    <3> QED BY <3>1, <3>2 DEF StrictOrder
  <2>3. CASE i \notin DOMAIN seq
    <3>1. /\ i - Len(seq) \in DOMAIN items /\ both[i] = items[i - Len(seq)]
          /\ j - Len(seq) \in DOMAIN items /\ both[j] = items[j - Len(seq)]
      BY <1>1, <1>2, <1>3, <1>10, <2>3
    <3>2. i - Len(seq) < j - Len(seq)
      BY <1>1, <1>2, <1>10
    <3> HIDE <1>3
    <3> QED BY <3>1, <3>2 DEF PageOf
  <2> QED BY <2>1, <2>2, <2>3
<1> QED BY <1>8, <1>9, <1>10 DEF ReadSoFar, both

(* The first rows in the order: every row that is not among them follows them. *)
FirstRows(items, size, R, found) ==
  /\ items \in [1..size -> found]
  /\ \A i, j \in DOMAIN items : i < j => <<items[i], items[j]>> \in R
  /\ \A i \in DOMAIN items, n \in found :
       <<items[i], n>> \in R \/ \E k \in DOMAIN items : items[k] = n

(* Those rows are what follows a row. *)
Follows(rest, R, rowSet, row) == \A n \in rowSet : n \in rest <=> <<row, n>> \in R

(* A page that takes less than everything leaves what is after its last row. *)
LEMMA PageLeaves ==
  ASSUME NEW D, NEW R, NEW M \in SUBSET D, NEW A \in SUBSET D,
         NEW items, NEW size \in Nat \ {0}, FirstRows(items, size, R, M \cap A),
         StrictOrder(R, D), Upward(A, R, D), NEW B, Follows(B, R, D, items[size])
  PROVE  PageOf(items, R, M \cap A, B) /\ \A n \in M : n \in B => n \in A
<1> USE DEF FirstRows, Follows
<1>1. size \in DOMAIN items /\ items[size] \in M \cap A
  OBVIOUS
<1>2. \A n \in M : n \in B => n \in A
  BY <1>1 DEF Upward
<1>3. \A n \in M \cap A : n \in B \/ \E i \in DOMAIN items : items[i] = n
  BY <1>1
<1>4. ASSUME NEW i \in DOMAIN items, <<items[size], items[i]>> \in R PROVE FALSE
  <2>1. items[i] \in D /\ items[size] \in D
    BY <1>1
  <2>2. <<items[i], items[size]>> \in R
    <3>1. i = size \/ i < size
      OBVIOUS
    <3> QED BY <3>1, <1>1, <1>4
  <2> QED BY <1>4, <2>1, <2>2 DEF StrictOrder
<1> QED BY <1>2, <1>3, <1>4 DEF PageOf

(* Writes touch rows: of the others neither the order nor the filter changes. *)
LEMMA WritesKeepPlace ==
  ASSUME NEW X, NEW seq \in Seq(X), NEW R, NEW M, NEW A, NEW U, ReadSoFar(seq, R, M, A, U),
         NEW S, NEW N, NEW B, NEW V, V \subseteq U,
         \A n \in V : (n \in N <=> n \in M) /\ (n \in B <=> n \in A),
         \A m, n \in V : <<m, n>> \in R => <<m, n>> \in S
  PROVE  ReadSoFar(seq, S, N, B, V)
BY DEF ReadSoFar

(* Who is at the end has read each row exactly once, in order. *)
LEMMA ReadOnce ==
  ASSUME NEW D, NEW R, NEW M \in SUBSET D, NEW U \in SUBSET D, NEW X, NEW seq \in Seq(X),
         StrictOrder(R, D), ReadSoFar(seq, R, M, {}, U), NEW n \in U
  PROVE  Cardinality({i \in DOMAIN seq : seq[i] = n}) = (IF n \in M THEN 1 ELSE 0)
<1> DEFINE at == {i \in DOMAIN seq : seq[i] = n}
<1>0. DOMAIN seq = 1..Len(seq) /\ Len(seq) \in Nat
  OBVIOUS
<1>1. CASE n \in M
  <2>1. PICK i \in DOMAIN seq : seq[i] = n
    BY <1>1 DEF ReadSoFar
  <2>2. ASSUME NEW j \in at PROVE j = i
    <3>1. ~(i < j) /\ ~(j < i)
      BY <2>1, <2>2 DEF ReadSoFar, StrictOrder
    <3> QED BY <1>0, <2>1, <2>2, <3>1
  <2>3. at = {i}
    BY <2>1, <2>2
  <2> QED BY <1>1, <2>3, FS_Singleton
<1>2. CASE n \notin M
  <2>1. at = {}
    BY <1>2 DEF ReadSoFar
  <2> QED BY <1>2, <2>1, FS_EmptySet
<1> QED BY <1>1, <1>2

(* Boards, members, invitations and attachments *)

PagesOrder ==
  {pair \in (DOMAIN entries) \X (DOMAIN entries) : Pages!OrderBy(pair[1], pair[2])}

(* Only a list of attachments can lose the row under its cursor. *)
PlaceKnown ==
  listing.list = "ATTACHMENTS" => place.id \in {Pages!Start.id} \cup DOMAIN entries

PageRow == [at : Int, shown : BOOLEAN]

PagesTyped ==
  /\ DOMAIN entries \subseteq Nat /\ \A n \in DOMAIN entries : entries[n] \in PageRow
  /\ listing \in [list : Pages!Lists, limit : Nat \ {0}]
  /\ ids \in Seq(Nat) /\ \A i \in DOMAIN ids : ids[i] \in DOMAIN entries \cup written
  /\ \/ place = Pages!Start
     \/ place \in [at : Int, id : Nat] /\ place.id \in DOMAIN entries \cup written

PagesRead ==
  PlaceKnown => ReadSoFar(ids, PagesOrder, Pages!Listable, IF further THEN Pages!After ELSE {},
                          DOMAIN entries \ written)

PagesInv == PagesTyped /\ PagesRead

(* Any rows, before their first page is read. *)
AnyRows ==
  /\ DOMAIN entries \subseteq Nat /\ \A n \in DOMAIN entries : entries[n] \in PageRow
  /\ listing \in [list : Pages!Lists, limit : Nat \ {0}]
  /\ ids = << >> /\ place = Pages!Start /\ further = TRUE /\ written = {}

LEMMA RowsInit == ASSUME Limits \subseteq Nat \ {0}, Pages!Init PROVE AnyRows
<1>1. DOMAIN entries \subseteq Nat /\ \A n \in DOMAIN entries : entries[n] \in PageRow
  <2>1. entries \in [1..3 -> [at : 1..2, shown : BOOLEAN]]
    BY DEF Pages!Init
  <2>2. \A n \in 1..3 : entries[n].at \in Int /\ entries[n] \in [at : 1..2, shown : BOOLEAN]
    BY <2>1
  <2> QED BY <2>1, <2>2 DEF PageRow
<1>2. listing \in [list : Pages!Lists, limit : Nat \ {0}]
  BY DEF Pages!Init
<1> QED BY <1>1, <1>2 DEF AnyRows, Pages!Init

LEMMA PagesInit == ASSUME AnyRows PROVE PagesInv
<1>1. PagesTyped
  BY DEF AnyRows, PagesTyped
<1>2. Pages!After = DOMAIN entries /\ further = TRUE /\ ids = << >>
  BY DEF AnyRows, Pages!After
<1>3. ReadSoFar(ids, PagesOrder, Pages!Listable, Pages!After, DOMAIN entries \ written)
  BY <1>2 DEF ReadSoFar, Pages!Listable
<1> QED BY <1>1, <1>2, <1>3 DEF PagesInv, PagesRead

LEMMA PagesOrdered ==
  ASSUME PagesTyped
  PROVE  /\ StrictOrder(PagesOrder, DOMAIN entries)
         /\ Upward(Pages!After, PagesOrder, DOMAIN entries)
<1>1. \A m, n : <<m, n>> \in PagesOrder
                  <=> m \in DOMAIN entries /\ n \in DOMAIN entries /\ Pages!OrderBy(m, n)
  BY DEF PagesOrder
<1>2. \A n \in DOMAIN entries : n \in Nat /\ entries[n].at \in Int
  BY DEF PagesTyped, PageRow
<1>3. \A n \in DOMAIN entries : ~Pages!OrderBy(n, n)
  BY <1>2 DEF Pages!OrderBy, Pages!Newest, Pages!Oldest
<1>4. \A m, n, k \in DOMAIN entries :
         Pages!OrderBy(m, n) /\ Pages!OrderBy(n, k) => Pages!OrderBy(m, k)
  BY <1>2 DEF Pages!OrderBy, Pages!Newest, Pages!Oldest
<1>5. \A m, n \in DOMAIN entries : m = n \/ Pages!OrderBy(m, n) \/ Pages!OrderBy(n, m)
  BY <1>2 DEF Pages!OrderBy, Pages!Newest, Pages!Oldest
<1>6. ASSUME NEW m \in Pages!After, NEW n \in DOMAIN entries, Pages!OrderBy(m, n)
      PROVE  n \in Pages!After
  <2>1. m \in DOMAIN entries
    BY DEF Pages!After
  <2>2. CASE place = Pages!Start
    BY <2>2 DEF Pages!After
  <2>3. CASE place # Pages!Start /\ listing.list = "ATTACHMENTS"
    <3>1. place.id \in DOMAIN entries /\ Pages!OrderBy(place.id, m)
      BY <2>3 DEF Pages!After, Pages!AfterRow, Pages!OrderBy
    <3>2. Pages!OrderBy(place.id, n)
      BY <1>4, <1>6, <2>1, <3>1
    <3> QED BY <2>3, <3>1, <3>2 DEF Pages!After, Pages!AfterRow, Pages!OrderBy
  <2>4. CASE place # Pages!Start /\ listing.list # "ATTACHMENTS"
    <3>1. place.at \in Int /\ place.id \in Nat
      BY <2>4 DEF PagesTyped
    <3>2. Pages!CursorFilter(m) /\ Pages!Newest(m, n)
      BY <1>6, <2>4 DEF Pages!After, Pages!OrderBy
    <3>3. Pages!CursorFilter(n)
      BY <1>2, <2>1, <3>1, <3>2 DEF Pages!CursorFilter, Pages!Newest
    <3> QED BY <2>4, <3>3 DEF Pages!After
  <2> QED BY <2>2, <2>3, <2>4
<1>7. StrictOrder(PagesOrder, DOMAIN entries)
  BY <1>1, <1>3, <1>4, <1>5 DEF StrictOrder
<1>8. Upward(Pages!After, PagesOrder, DOMAIN entries)
  BY <1>1, <1>6 DEF Upward
<1> QED BY <1>7, <1>8

LEMMA PagesAnswer == ASSUME PagesInv, Pages!Answer, further PROVE PagesInv'
<1> DEFINE found == Pages!Listable \cap Pages!After
           D == DOMAIN entries
<1>1. PICK items : \E size \in 0..listing.limit :
        /\ items \in [1..size -> found] /\ Pages!FirstOf(items, found)
        /\ Len(items) < listing.limit => Pages!Range(items) = found
        /\ ids' = ids \o items /\ further' = (Pages!Range(items) # found)
        /\ place' = IF Pages!Range(items) # found
                    THEN [at |-> entries[items[Len(items)]].at, id |-> items[Len(items)]]
                    ELSE place
  <2>1. PICK answer \in Pages!Page :
          /\ ids' = ids \o answer.items /\ further' = answer.hasMore
          /\ place' = IF answer.hasMore
                      THEN [at |-> entries[answer.items[Len(answer.items)]].at,
                            id |-> answer.items[Len(answer.items)]]
                      ELSE place
    BY DEF Pages!Answer
  <2>2. PICK items \in UNION {[1..size -> found] : size \in 0..listing.limit} :
          /\ Pages!FirstOf(items, found)
          /\ Len(items) < listing.limit => Pages!Range(items) = found
          /\ answer = [items |-> items, hasMore |-> Pages!Range(items) # found]
    BY Zenon DEF Pages!Page
  <2>3. answer.items = items /\ answer.hasMore = (Pages!Range(items) # found)
    BY <2>2, Zenon
  <2> QED BY <2>1, <2>2, <2>3
<1>2. PICK size \in 0..listing.limit : items \in [1..size -> found]
  BY <1>1
<1>3. /\ DOMAIN items = 1..size /\ size \in Nat /\ listing.limit \in Nat \ {0}
      /\ found \subseteq D /\ D \subseteq Nat /\ ids \in Seq(Nat)
      /\ \A i \in DOMAIN ids : ids[i] \in D \cup written
  BY <1>2 DEF PagesInv, PagesTyped, Pages!Listable
<1>4. items \in Seq(Nat) /\ Len(items) = size
  BY <1>2, <1>3
<1>12. ids \o items \in Seq(Nat)
  BY <1>3, <1>4
<1>13. ASSUME NEW i \in DOMAIN (ids \o items) PROVE (ids \o items)[i] \in D \cup written
  <2>1. Len(ids) \in Nat /\ Len(items) \in Nat /\ DOMAIN ids = 1..Len(ids)
    BY <1>3, <1>4
  <2>2. \A k \in DOMAIN items : items[k] \in D
    BY <1>2, <1>3
  <2>3. CASE i \in DOMAIN ids
    BY <1>3, <1>4, <2>1, <2>3
  <2>4. CASE i \notin DOMAIN ids
    <3> HIDE DEF D
    <3>1. i - Len(ids) \in DOMAIN items /\ (ids \o items)[i] = items[i - Len(ids)]
      BY <1>3, <1>4, <2>1, <2>4
    <3> QED BY <2>2, <3>1
  <2> QED BY <2>3, <2>4
<1>5. entries' = entries /\ listing' = listing /\ written' = written
  BY DEF Pages!Answer
<1>6. /\ PagesOrder' = PagesOrder /\ Pages!Listable' = Pages!Listable
      /\ (DOMAIN entries \ written)' = D \ written
  BY <1>5 DEF PagesOrder, Pages!OrderBy, Pages!Newest, Pages!Oldest, Pages!Listable
<1>7. Pages!Range(items) = {items[k] : k \in DOMAIN items}
  BY DEF Pages!Range
<1>8. /\ StrictOrder(PagesOrder, D) /\ Upward(Pages!After, PagesOrder, D)
      /\ Pages!Listable \in SUBSET D /\ Pages!After \in SUBSET D
      /\ D \ written \in SUBSET D
  BY PagesOrdered DEF PagesInv, Pages!Listable, Pages!After
<1>9. /\ \A i, j \in DOMAIN items : i < j => <<items[i], items[j]>> \in PagesOrder
      /\ \A i \in DOMAIN items, n \in found :
            <<items[i], n>> \in PagesOrder \/ \E k \in DOMAIN items : items[k] = n
  <2>1. \A i \in DOMAIN items : items[i] \in D
    BY <1>2, <1>3
  <2>2. \A m, n \in D : Pages!OrderBy(m, n) => <<m, n>> \in PagesOrder
    BY DEF PagesOrder
  <2> HIDE DEF found, D
  <2> QED BY <1>1, <1>3, <1>7, <2>1, <2>2 DEF Pages!FirstOf
<1>10. CASE Pages!Range(items) # found
  <2> DEFINE final == items[size]
  <2>1. size \in Nat \ {0} /\ size \in DOMAIN items
    BY <1>1, <1>3, <1>4, <1>10
  <2>2. final \in found /\ final \in D /\ final \in Nat
    BY <1>2, <1>3, <2>1
  <2>3. /\ place' = [at |-> entries[final].at, id |-> final] /\ further' = TRUE
        /\ ids' = ids \o items
    BY <1>1, <1>4, <1>10
  <2>4. entries[final].at \in Int
    BY <2>2 DEF PagesInv, PagesTyped, PageRow
  <2> HIDE DEF final
  <2>5. place' # Pages!Start
    BY <2>2, <2>3 DEF Pages!Start
  <2>6. Pages!After' = {n \in D : <<final, n>> \in PagesOrder}
    <3>1. Pages!After' = {n \in D : Pages!OrderBy(final, n)}
      <4>1. CASE listing.list = "ATTACHMENTS"
        <5>1. Pages!After' = {n \in D : Pages!AfterRow(n)'}
          BY <1>5, <2>5, <4>1 DEF Pages!After
        <5>2. \A n \in D : Pages!AfterRow(n)' <=> Pages!Oldest(final, n)
          BY <1>5, <2>2, <2>3 DEF Pages!AfterRow, Pages!Oldest
        <5> QED BY <5>1, <5>2, <4>1 DEF Pages!OrderBy
      <4>2. CASE listing.list # "ATTACHMENTS"
        <5>1. Pages!After' = {n \in D : Pages!CursorFilter(n)'}
          BY <1>5, <2>5, <4>2 DEF Pages!After
        <5>2. \A n \in D : n \in Nat /\ entries[n].at \in Int
          BY DEF PagesInv, PagesTyped, PageRow
        <5>3. \A n \in D : Pages!CursorFilter(n)' <=> Pages!Newest(final, n)
          BY <1>5, <2>2, <2>3, <2>4, <5>2 DEF Pages!CursorFilter, Pages!Newest
        <5> QED BY <5>1, <5>3, <4>2 DEF Pages!OrderBy
      <4> QED BY <4>1, <4>2
    <3>2. \A n \in D : <<final, n>> \in PagesOrder <=> Pages!OrderBy(final, n)
      BY <2>2 DEF PagesOrder
    <3> QED BY <3>1, <3>2
  <2>7. /\ PageOf(items, PagesOrder, found, Pages!After')
        /\ \A n \in Pages!Listable : n \in Pages!After' => n \in Pages!After
    <3>1. \A n \in D : n \in Pages!After' <=> <<items[size], n>> \in PagesOrder
      BY <2>6 DEF final
    <3> DEFINE M == Pages!Listable
               A == Pages!After
               B == Pages!After'
    <3>2. /\ M \in SUBSET D /\ A \in SUBSET D
          /\ StrictOrder(PagesOrder, D) /\ Upward(A, PagesOrder, D)
      BY <1>8
    <3>3. FirstRows(items, size, PagesOrder, M \cap A)
      BY <1>2, <1>9 DEF FirstRows
    <3>4. Follows(B, PagesOrder, D, items[size])
      BY <3>1 DEF Follows
    <3> HIDE DEF D, M, A, B
    <3>7. PageOf(items, PagesOrder, M \cap A, B) /\ \A n \in M : n \in B => n \in A
      BY <2>1, <3>2, <3>3, <3>4, PageLeaves
    <3> QED BY <3>7 DEF M, A, B
  <2>8. ReadSoFar(ids, PagesOrder, Pages!Listable, Pages!After, D \ written)
    <3>1. PlaceKnown
      BY <2>2 DEF PlaceKnown, Pages!After, Pages!AfterRow
    <3> QED BY <3>1 DEF PagesInv, PagesRead
  <2>9. ids \in Seq(Nat)
    BY DEF PagesInv, PagesTyped
  <2>10. ReadSoFar(ids \o items, PagesOrder, Pages!Listable, Pages!After', D \ written)
    <3> HIDE DEF D
    <3> QED BY <1>4, <1>8, <2>7, <2>8, <2>9, PageAppends
  <2>11. PagesRead'
    BY <1>6, <2>3, <2>10 DEF PagesRead
  <2>12. PagesTyped'
    <3>1. ids' \in Seq(Nat) /\ \A i \in DOMAIN ids' : ids'[i] \in D \cup written
      BY <1>12, <1>13, <2>3
    <3>2. place' \in [at : Int, id : Nat] /\ place'.id \in D
      BY <2>2, <2>3, <2>4
    <3> QED BY <1>3, <1>5, <3>1, <3>2 DEF PagesInv, PagesTyped
  <2> QED BY <2>11, <2>12 DEF PagesInv
<1>11. CASE Pages!Range(items) = found
  <2>1. place' = place /\ further' = FALSE /\ ids' = ids \o items
    BY <1>1, <1>11
  <2>2. ids \in Seq(Nat)
    BY DEF PagesInv, PagesTyped
  <2>3. PagesTyped'
    <3>1. ids' \in Seq(Nat) /\ \A i \in DOMAIN ids' : ids'[i] \in D \cup written
      BY <1>12, <1>13, <2>1
    <3> QED BY <1>5, <2>1, <3>1 DEF PagesInv, PagesTyped
  <2>4. PageOf(items, PagesOrder, found, {})
    BY <1>2, <1>7, <1>9, <1>11 DEF PageOf
  <2>5. ASSUME PlaceKnown
        PROVE  ReadSoFar(ids \o items, PagesOrder, Pages!Listable, {}, D \ written)
    <3>1. ReadSoFar(ids, PagesOrder, Pages!Listable, Pages!After, D \ written)
      BY <2>5 DEF PagesInv, PagesRead
    <3>2. \A n \in Pages!Listable : n \in {} => n \in Pages!After
      OBVIOUS
    <3> HIDE DEF D
    <3> QED BY <1>4, <1>8, <2>2, <2>4, <3>1, <3>2, PageAppends
  <2>6. PlaceKnown' <=> PlaceKnown
    BY <1>5, <2>1 DEF PlaceKnown
  <2>7. PagesRead'
    BY <1>6, <2>1, <2>5, <2>6 DEF PagesRead
  <2> QED BY <2>3, <2>7 DEF PagesInv
<1> QED BY <1>10, <1>11

(* A write between the pages: of the rows that nobody wrote, none changes. *)
LEMMA PagesWrite ==
  ASSUME PagesInv, NEW n \in Nat, Pages!Write(n),
         \A m \in DOMAIN entries' : entries'[m] \in PageRow,
         \A m \in DOMAIN entries' \ {n} : m \in DOMAIN entries /\ entries'[m] = entries[m],
         DOMAIN entries \subseteq DOMAIN entries' \cup {n},
         listing.list = "ATTACHMENTS" =>
           n \notin DOMAIN entries \cup written \/ n \notin DOMAIN entries'
  PROVE  PagesInv'
<1>1. /\ written' = written \cup {n} /\ listing' = listing /\ ids' = ids
      /\ place' = place /\ further' = further
  BY DEF Pages!Write
<1>2. PagesTyped'
  <2>1. DOMAIN entries' \subseteq Nat
    BY DEF PagesInv, PagesTyped
  <2>2. DOMAIN entries \cup written \subseteq DOMAIN entries' \cup written'
    BY <1>1
  <2> QED BY <1>1, <2>1, <2>2 DEF PagesInv, PagesTyped
<1>3. ASSUME PlaceKnown'
      PROVE  ReadSoFar(ids, PagesOrder', Pages!Listable', (IF further THEN Pages!After ELSE {})',
                       DOMAIN entries' \ written')
  <2>1. listing.list = "ATTACHMENTS" /\ place # Pages!Start => place.id # n
    BY <1>1, <1>3 DEF PlaceKnown, PagesInv, PagesTyped, Pages!Start
  <2>2. PlaceKnown
    BY <1>1, <1>3, <2>1 DEF PlaceKnown
  <2> DEFINE V == DOMAIN entries' \ written'
  <2>3. \A m \in V : m \in DOMAIN entries \ written /\ m # n /\ entries'[m] = entries[m]
    BY <1>1
  <2> HIDE DEF V
  <2>4. \A m \in V : m \in DOMAIN entries'
    BY DEF V
  <2>5. \A m \in V : m \in Pages!Listable' <=> m \in Pages!Listable
    BY <2>3, <2>4 DEF Pages!Listable
  <2>6. \A m \in V : m \in Pages!After' <=> m \in Pages!After
    <3>1. CASE place = Pages!Start
      BY <1>1, <2>3, <2>4, <3>1 DEF Pages!After
    <3>2. CASE place # Pages!Start /\ listing.list = "ATTACHMENTS"
      <4>1. place.id \in DOMAIN entries' <=> place.id \in DOMAIN entries
        BY <2>1, <3>2
      <4>2. place.id \in DOMAIN entries => entries'[place.id] = entries[place.id]
        BY <2>1, <3>2
      <4> QED BY <1>1, <2>3, <2>4, <3>2, <4>1, <4>2
              DEF Pages!After, Pages!AfterRow, Pages!Oldest
    <3>3. CASE place # Pages!Start /\ listing.list # "ATTACHMENTS"
      BY <1>1, <2>3, <2>4, <3>3 DEF Pages!After, Pages!CursorFilter
    <3> QED BY <3>1, <3>2, <3>3
  <2>7. \A m, k \in V : <<m, k>> \in PagesOrder => <<m, k>> \in PagesOrder'
    BY <1>1, <2>3, <2>4 DEF PagesOrder, Pages!OrderBy, Pages!Newest, Pages!Oldest
  <2>8. V \subseteq DOMAIN entries \ written
    BY <2>3
  <2>9. ReadSoFar(ids, PagesOrder, Pages!Listable, IF further THEN Pages!After ELSE {},
                  DOMAIN entries \ written)
    BY <2>2 DEF PagesInv, PagesRead
  <2>10. ids \in Seq(Nat)
    BY DEF PagesInv, PagesTyped
  <2>11. \A m \in V : m \in (IF further THEN Pages!After ELSE {})'
                        <=> m \in (IF further THEN Pages!After ELSE {})
    BY <1>1, <2>6
  <2>12. ReadSoFar(ids, PagesOrder', Pages!Listable', (IF further THEN Pages!After ELSE {})', V)
    BY <2>5, <2>7, <2>8, <2>9, <2>10, <2>11, WritesKeepPlace
  <2> QED BY <2>12 DEF V
<1> QED BY <1>1, <1>2, <1>3 DEF PagesInv, PagesRead

LEMMA PagesNext == PagesInv /\ [Pages!Next]_(Pages!vars) => PagesInv'
<1> SUFFICES ASSUME PagesInv, [Pages!Next]_(Pages!vars) PROVE PagesInv'
  OBVIOUS
<1>0. DOMAIN entries \subseteq Nat /\ \A n \in DOMAIN entries : entries[n] \in PageRow
  BY DEF PagesInv, PagesTyped
<1>1. CASE UNCHANGED Pages!vars
  BY <1>1 DEF Pages!vars, PagesInv, PagesTyped, PagesRead, PlaceKnown, PagesOrder,
     Pages!OrderBy, Pages!Newest, Pages!Oldest, Pages!Listable, Pages!After, Pages!AfterRow,
     Pages!CursorFilter
<1>2. CASE further /\ Pages!Answer
  BY <1>2, PagesAnswer
<1>3. ASSUME NEW n \in Pages!RandomIds, Pages!Insert(n) PROVE PagesInv'
  <2>1. n \in Nat
    BY DEF Pages!RandomIds
  <2>2. [at |-> Pages!Now, shown |-> TRUE] \in PageRow
    BY DEF Pages!Now, PageRow
  <2>3. /\ Pages!Write(n) /\ n \notin DOMAIN entries \cup written
        /\ entries' = [m \in DOMAIN entries \cup {n} |->
                         IF m = n THEN [at |-> Pages!Now, shown |-> TRUE] ELSE entries[m]]
    BY <1>3 DEF Pages!Insert
  <2>4. \A m \in DOMAIN entries' : entries'[m] \in PageRow
    BY <1>0, <2>2, <2>3
  <2>5. /\ \A m \in DOMAIN entries' \ {n} : m \in DOMAIN entries /\ entries'[m] = entries[m]
        /\ DOMAIN entries \subseteq DOMAIN entries' \cup {n}
    BY <2>3
  <2> QED BY <2>1, <2>3, <2>4, <2>5, PagesWrite
<1>4. ASSUME NEW n \in DOMAIN entries, Pages!UpdateBoard(n) PROVE PagesInv'
  <2>1. /\ Pages!Write(n) /\ listing.list = "BOARDS"
        /\ entries' = [entries EXCEPT ![n].at = Pages!Now]
    BY <1>4 DEF Pages!UpdateBoard
  <2>2. [entries[n] EXCEPT !.at = Pages!Now] \in PageRow
    BY <1>0 DEF Pages!Now, PageRow
  <2>3. /\ DOMAIN entries' = DOMAIN entries
        /\ \A m \in DOMAIN entries :
             entries'[m] = IF m = n THEN [entries[n] EXCEPT !.at = Pages!Now] ELSE entries[m]
    BY <2>1
  <2>4. \A m \in DOMAIN entries' : entries'[m] \in PageRow
    BY <1>0, <2>2, <2>3
  <2>5. /\ \A m \in DOMAIN entries' \ {n} : m \in DOMAIN entries /\ entries'[m] = entries[m]
        /\ DOMAIN entries \subseteq DOMAIN entries' \cup {n}
    BY <2>3
  <2> QED BY <1>0, <2>1, <2>4, <2>5, PagesWrite
<1>5. ASSUME NEW n \in DOMAIN entries, Pages!Decide(n) PROVE PagesInv'
  <2>1. /\ Pages!Write(n) /\ listing.list = "INVITATIONS"
        /\ entries' = [entries EXCEPT ![n].shown = FALSE]
    BY <1>5 DEF Pages!Decide
  <2>2. [entries[n] EXCEPT !.shown = FALSE] \in PageRow
    BY <1>0 DEF PageRow
  <2>3. /\ DOMAIN entries' = DOMAIN entries
        /\ \A m \in DOMAIN entries :
             entries'[m] = IF m = n THEN [entries[n] EXCEPT !.shown = FALSE] ELSE entries[m]
    BY <2>1
  <2>4. \A m \in DOMAIN entries' : entries'[m] \in PageRow
    BY <1>0, <2>2, <2>3
  <2>5. /\ \A m \in DOMAIN entries' \ {n} : m \in DOMAIN entries /\ entries'[m] = entries[m]
        /\ DOMAIN entries \subseteq DOMAIN entries' \cup {n}
    BY <2>3
  <2> QED BY <1>0, <2>1, <2>4, <2>5, PagesWrite
<1>6. ASSUME NEW n \in DOMAIN entries, Pages!RemoveAttachment(n) PROVE PagesInv'
  <2>1. Pages!Write(n) /\ entries' = [m \in DOMAIN entries \ {n} |-> entries[m]]
    BY <1>6 DEF Pages!RemoveAttachment
  <2>2. /\ DOMAIN entries' = DOMAIN entries \ {n}
        /\ \A m \in DOMAIN entries' : entries'[m] = entries[m]
    BY <2>1
  <2>3. \A m \in DOMAIN entries' : entries'[m] \in PageRow
    BY <1>0, <2>2
  <2>4. /\ \A m \in DOMAIN entries' \ {n} : m \in DOMAIN entries /\ entries'[m] = entries[m]
        /\ DOMAIN entries \subseteq DOMAIN entries' \cup {n} /\ n \notin DOMAIN entries'
    BY <2>2
  <2> QED BY <1>0, <2>1, <2>3, <2>4, PagesWrite
<1> QED BY <1>1, <1>2, <1>3, <1>4, <1>5, <1>6
        DEF Pages!Next, Pages!ListBoards, Pages!ListMembers, Pages!ListPending,
            Pages!ListAttachments

LEMMA PagesReadOnce == PagesInv => Pages!PagesComplete
<1> SUFFICES ASSUME PagesInv, ~further, PlaceKnown
             PROVE  /\ \A n \in DOMAIN entries \ written :
                         Pages!Cardinality({i \in DOMAIN ids : ids[i] = n})
                           = (IF entries[n].shown THEN 1 ELSE 0)
                    /\ \A i, j \in DOMAIN ids :
                         (i < j /\ {ids[i], ids[j]} \cap written = {})
                           => Pages!OrderBy(ids[i], ids[j])
  BY Zenon DEF Pages!PagesComplete, PlaceKnown
<1> DEFINE D == DOMAIN entries
           U == D \ written
           M == Pages!Listable
<1>1. ReadSoFar(ids, PagesOrder, M, {}, U)
  BY DEF PagesInv, PagesRead
<1>2. /\ StrictOrder(PagesOrder, D) /\ ids \in Seq(Nat) /\ U \in SUBSET D /\ M \in SUBSET D
  BY PagesOrdered DEF PagesInv, PagesTyped, Pages!Listable
<1>3. ASSUME NEW n \in U
      PROVE  Pages!Cardinality({i \in DOMAIN ids : ids[i] = n}) = (IF entries[n].shown THEN 1 ELSE 0)
  <2>1. Cardinality({i \in DOMAIN ids : ids[i] = n}) = (IF n \in M THEN 1 ELSE 0)
    <3> HIDE DEF D, U, M
    <3> QED BY <1>1, <1>2, ReadOnce
  <2>2. n \in M <=> entries[n].shown
    BY DEF Pages!Listable
  <2>3. \A S : Pages!Cardinality(S) = Cardinality(S)
    BY DEF Cardinality, Pages!Cardinality
  <2> QED BY <2>1, <2>2, <2>3
<1>4. ASSUME NEW i \in DOMAIN ids, NEW j \in DOMAIN ids, i < j,
             {ids[i], ids[j]} \cap written = {}
      PROVE  Pages!OrderBy(ids[i], ids[j])
  <2>1. ids[i] \in U /\ ids[j] \in U
    BY <1>4 DEF PagesInv, PagesTyped
  <2>2. <<ids[i], ids[j]>> \in PagesOrder
    BY <1>1, <1>4, <2>1 DEF ReadSoFar
  <2> QED BY <2>2 DEF PagesOrder
<1> QED BY <1>3, <1>4

(* The tasks of a board *)

TaskKey == Int \cup {NoDate}

TaskOrder == {pair \in (DOMAIN rows) \X (DOMAIN rows) : List!OrderBy(pair[1], pair[2])}

TasksAfter == {n \in DOMAIN rows : List!CursorWhere(n)}

CursorTyped ==
  \/ cursor = List!Start
  \/ /\ cursor \in [key : TaskKey, sequence : Nat \ {0}]
     /\ query.sort # "DUE_DATE" => cursor.key \in Int

TasksTyped ==
  /\ ListInv /\ CursorTyped
  /\ DOMAIN rows \subseteq Nat \ {0} /\ IsFiniteSet(DOMAIN rows) /\ IsFiniteSet(touched)
  /\ listed \in Seq(Nat) /\ \A i \in DOMAIN listed : listed[i] \in DOMAIN rows \cup touched

TasksRead ==
  more \/ listed # << >> =>
    ReadSoFar(listed, TaskOrder, List!Matching, IF more THEN TasksAfter ELSE {},
              DOMAIN rows \ touched)

TasksInv == TasksTyped /\ TasksRead

(* Any tasks, any filters and any sort, before the first page is read. *)
AnyTasks ==
  /\ ListInv /\ DOMAIN rows \subseteq Nat \ {0} /\ IsFiniteSet(DOMAIN rows)
  /\ listed = << >> /\ cursor = List!Start /\ touched = {}

LEMMA TasksFresh == ASSUME Limits \subseteq Nat \ {0}, List!Init PROVE AnyTasks
<1>1. cursor = List!Start /\ listed = << >> /\ touched = {}
  BY DEF List!Init
<1>2. DOMAIN rows \subseteq Nat \ {0} /\ IsFiniteSet(DOMAIN rows)
  <2>1. CASE List!Paging
    <3>1. DOMAIN rows = 1..3
      BY <2>1 DEF List!Paging
    <3>2. \A b \in Int : IsFiniteSet(1..b)
      BY FS_Interval
    <3>3. IsFiniteSet(1..3)
      BY <3>2, 3 \in Int, Zenon
    <3> QED BY <3>1, <3>3
  <2>2. CASE List!Filtering
    <3>1. DOMAIN rows = {1}
      BY <2>2 DEF List!Filtering
    <3>2. IsFiniteSet({1})
      BY FS_Singleton
    <3> QED BY <3>1, <3>2
  <2> QED BY <2>1, <2>2 DEF List!Init
<1> QED BY <1>1, <1>2, ListInit DEF AnyTasks

LEMMA TasksInit == ASSUME ListAssumption, AnyTasks PROVE TasksInv
<1>1. cursor = List!Start /\ listed = << >> /\ touched = {}
  BY DEF AnyTasks
<1>3. TasksTyped
  BY <1>1, FS_EmptySet DEF AnyTasks, TasksTyped, CursorTyped
<1>4. TasksAfter = DOMAIN rows
  BY <1>1 DEF TasksAfter, List!CursorWhere
<1>5. ASSUME more PROVE ReadSoFar(listed, TaskOrder, List!Matching, TasksAfter, DOMAIN rows \ touched)
  BY <1>1, <1>4 DEF ReadSoFar
<1> QED BY <1>1, <1>3, <1>5 DEF TasksInv, TasksRead

(* Keys in the order of a sort: missing dates are last and all the same. *)
LEMMA KeysOrdered ==
  ASSUME ListAssumption, NEW sort, NEW a \in TaskKey, NEW b \in TaskKey, NEW c \in TaskKey
  PROVE  /\ ~List!KeyBefore(a, a, sort)
         /\ List!KeyBefore(a, b, sort) /\ List!KeyBefore(b, c, sort) => List!KeyBefore(a, c, sort)
         /\ a = b \/ List!KeyBefore(a, b, sort) \/ List!KeyBefore(b, a, sort)
<1>1. CASE sort \in List!Descending
  BY <1>1 DEF ListAssumption, TaskKey, List!KeyBefore
<1>2. CASE sort \notin List!Descending
  BY <1>2 DEF ListAssumption, TaskKey, List!KeyBefore
<1> QED BY <1>1, <1>2

LEMMA TasksHaveKeys ==
  ASSUME TasksTyped, NEW n \in DOMAIN rows
  PROVE  /\ n \in Nat \ {0} /\ List!SortKeyOf(n, query.sort) \in TaskKey
         /\ query.sort # "DUE_DATE" => List!SortKeyOf(n, query.sort) \in Int
         /\ query.sort = "DUE_DATE" => List!SortKeyOf(n, query.sort) = rows[n].due
<1>1. query.sort \in Sorts /\ RowTyped(rows[n]) /\ n \in Nat \ {0}
  BY DEF TasksTyped, ListInv, QueryTyped
<1> QED BY <1>1 DEF Sorts, RowTyped, TaskKey, List!SortKeyOf

(* A cursor's key compares as the key of a row does. *)
LEMMA KeysCompare ==
  ASSUME ListAssumption, TasksTyped, NEW n \in DOMAIN rows,
         NEW key \in TaskKey, query.sort # "DUE_DATE" => key \in Int
  PROVE  List!KeyAfter(n, key)
           <=> List!KeyBefore(key, List!SortKeyOf(n, query.sort), query.sort)
<1> DEFINE k == List!SortKeyOf(n, query.sort)
<1>1. /\ k \in TaskKey
      /\ query.sort # "DUE_DATE" => k \in Int
      /\ query.sort = "DUE_DATE" => k = rows[n].due
  BY TasksHaveKeys
<1>2. CASE query.sort = "DUE_DATE"
  BY <1>1, <1>2 DEF List!KeyAfter, List!Undated, List!KeyBefore, ListAssumption, TaskKey
<1>3. CASE query.sort # "DUE_DATE"
  BY <1>1, <1>3 DEF List!KeyAfter, List!Undated, List!KeyBefore, ListAssumption, TaskKey
<1> QED BY <1>2, <1>3

LEMMA TasksOrdered ==
  ASSUME ListAssumption, TasksTyped
  PROVE  StrictOrder(TaskOrder, DOMAIN rows) /\ Upward(TasksAfter, TaskOrder, DOMAIN rows)
<1> DEFINE Key(n) == List!SortKeyOf(n, query.sort)
           Before(a, b) == List!KeyBefore(a, b, query.sort)
<1>1. \A m, n : <<m, n>> \in TaskOrder
                  <=> m \in DOMAIN rows /\ n \in DOMAIN rows /\ List!OrderBy(m, n)
  BY DEF TaskOrder
<1>2. \A n \in DOMAIN rows : n \in Nat /\ Key(n) \in TaskKey
  BY TasksHaveKeys
<1>3. \A m, n : List!OrderBy(m, n) <=> Before(Key(m), Key(n)) \/ (Key(m) = Key(n) /\ m < n)
  BY DEF List!OrderBy
<1>4. \A a, b, c \in TaskKey :
         /\ ~Before(a, a) /\ (Before(a, b) /\ Before(b, c) => Before(a, c))
         /\ a = b \/ Before(a, b) \/ Before(b, a)
  BY KeysOrdered
<1>5. ASSUME NEW m \in TasksAfter, NEW n \in DOMAIN rows, List!OrderBy(m, n)
      PROVE  n \in TasksAfter
  <2>1. m \in DOMAIN rows /\ List!CursorWhere(m)
    BY DEF TasksAfter
  <2>2. CASE cursor = List!Start
    BY <2>2 DEF TasksAfter, List!CursorWhere
  <2>3. CASE cursor # List!Start
    <3> DEFINE c == cursor.key
               s == cursor.sequence
    <3>1. c \in TaskKey /\ s \in Nat /\ (query.sort # "DUE_DATE" => c \in Int)
      BY <2>3 DEF TasksTyped, CursorTyped
    <3>2. \A k \in DOMAIN rows :
            List!CursorWhere(k) <=> Before(c, Key(k)) \/ (c = Key(k) /\ s < k)
      BY <1>2, <2>3, <3>1, KeysCompare DEF List!CursorWhere
    <3>3. m \in Nat /\ n \in Nat /\ Key(m) \in TaskKey /\ Key(n) \in TaskKey
      BY <1>2, <2>1
    <3>4. Before(c, Key(m)) \/ (c = Key(m) /\ s < m)
      BY <2>1, <3>2
    <3>5. Before(Key(m), Key(n)) \/ (Key(m) = Key(n) /\ m < n)
      BY <1>3, <1>5
    <3> HIDE DEF Key, Before, c, s
    <3>6. Before(c, Key(n)) \/ (c = Key(n) /\ s < n)
      BY <1>4, <3>1, <3>3, <3>4, <3>5
    <3> QED BY <3>2, <3>6 DEF TasksAfter
  <2> QED BY <2>2, <2>3
<1> HIDE DEF Key, Before
<1>6. StrictOrder(TaskOrder, DOMAIN rows)
  <2>1. \A n \in DOMAIN rows : ~List!OrderBy(n, n)
    BY <1>2, <1>3, <1>4
  <2>2. \A m, n, k \in DOMAIN rows :
          List!OrderBy(m, n) /\ List!OrderBy(n, k) => List!OrderBy(m, k)
    BY <1>2, <1>3, <1>4
  <2>3. \A m, n \in DOMAIN rows : m = n \/ List!OrderBy(m, n) \/ List!OrderBy(n, m)
    BY <1>2, <1>3, <1>4
  <2> QED BY <1>1, <2>1, <2>2, <2>3 DEF StrictOrder
<1>7. Upward(TasksAfter, TaskOrder, DOMAIN rows)
  BY <1>1, <1>5 DEF Upward
<1> QED BY <1>6, <1>7

LEMMA TasksAnswer ==
  ASSUME ListAssumption, TasksInv, List!ListTasks PROVE TasksInv'
<1> DEFINE D == DOMAIN rows
           M == List!Matching
           A == TasksAfter
           found == M \cap A
           R == TaskOrder
           U == D \ touched
<1>1. PICK items : \E size \in 0..query.limit :
        /\ items \in [1..size -> found] /\ List!FirstOf(items, found)
        /\ Len(items) < query.limit => List!Range(items) = found
        /\ listed' = listed \o items /\ more' = (List!Range(items) # found)
        /\ cursor' = IF List!Range(items) # found
                     THEN [key |-> List!SortKeyOf(items[Len(items)], query.sort),
                           sequence |-> items[Len(items)]]
                     ELSE cursor
  <2>1. PICK answer \in List!ListForMember :
          /\ listed' = listed \o answer.items /\ more' = answer.hasMore
          /\ cursor' = IF answer.hasMore
                       THEN [key |-> List!SortKeyOf(answer.items[Len(answer.items)], query.sort),
                             sequence |-> answer.items[Len(answer.items)]]
                       ELSE cursor
    BY DEF List!ListTasks
  <2>0. {n \in List!Matching : List!CursorWhere(n)} = found
    BY DEF List!Matching, TasksAfter
  <2> HIDE DEF found
  <2>2. PICK items \in UNION {[1..size -> found] : size \in 0..query.limit} :
          /\ List!FirstOf(items, found)
          /\ Len(items) < query.limit => List!Range(items) = found
          /\ answer = [items |-> items, hasMore |-> List!Range(items) # found]
    BY <2>0, Zenon DEF List!ListForMember
  <2>3. answer.items = items /\ answer.hasMore = (List!Range(items) # found)
    BY <2>2, Zenon
  <2> QED BY <2>1, <2>2, <2>3
<1>2. PICK size \in 0..query.limit : items \in [1..size -> found]
  BY <1>1
<1>3. /\ DOMAIN items = 1..size /\ size \in Nat /\ query.limit \in Nat \ {0}
      /\ found \subseteq D /\ D \subseteq Nat \ {0} /\ listed \in Seq(Nat)
      /\ \A i \in DOMAIN listed : listed[i] \in D \cup touched
  BY <1>2 DEF TasksInv, TasksTyped, ListInv, QueryTyped, List!Matching
<1>4. items \in Seq(Nat) /\ Len(items) = size
  BY <1>2, <1>3
<1>5. listed \o items \in Seq(Nat)
  BY <1>3, <1>4
<1>6. ASSUME NEW i \in DOMAIN (listed \o items) PROVE (listed \o items)[i] \in D \cup touched
  <2>1. Len(listed) \in Nat /\ Len(items) \in Nat /\ DOMAIN listed = 1..Len(listed)
    BY <1>3, <1>4
  <2>2. \A k \in DOMAIN items : items[k] \in D
    BY <1>2, <1>3
  <2>3. CASE i \in DOMAIN listed
    BY <1>3, <1>4, <2>1, <2>3
  <2>4. CASE i \notin DOMAIN listed
    <3> HIDE DEF D
    <3>1. i - Len(listed) \in DOMAIN items /\ (listed \o items)[i] = items[i - Len(listed)]
      BY <1>3, <1>4, <2>1, <2>4
    <3> QED BY <2>2, <3>1
  <2> QED BY <2>3, <2>4
<1>7. rows' = rows /\ query' = query /\ touched' = touched /\ more
  BY DEF List!ListTasks
<1>8. R' = R /\ M' = M /\ U' = U
  <2>1. R' = R
    BY <1>7 DEF TaskOrder, List!OrderBy, List!SortKeyOf
  <2>2. M' = M
    BY <1>7 DEF List!Matching, List!Forwarded
  <2> QED BY <1>7, <2>1, <2>2
<1>9. /\ StrictOrder(R, D) /\ Upward(A, R, D)
      /\ M \in SUBSET D /\ A \in SUBSET D /\ U \in SUBSET D
  BY TasksOrdered DEF TasksInv, List!Matching, TasksAfter
<1>10. List!Range(items) = {items[k] : k \in DOMAIN items}
  BY DEF List!Range
<1>11. FirstRows(items, size, R, found)
  <2>1. \A i \in DOMAIN items : items[i] \in D
    BY <1>2, <1>3
  <2>2. \A m, n \in D : List!OrderBy(m, n) => <<m, n>> \in R
    BY DEF TaskOrder
  <2>3. /\ \A i, j \in DOMAIN items : i < j => List!OrderBy(items[i], items[j])
        /\ \A i \in DOMAIN items, n \in found \ List!Range(items) : List!OrderBy(items[i], n)
    BY <1>1, Zenon DEF List!FirstOf
  <2> HIDE DEF found, D, R
  <2> QED BY <1>2, <1>3, <1>10, <2>1, <2>2, <2>3 DEF FirstRows
<1>12. ReadSoFar(listed, R, M, A, U)
  BY <1>7 DEF TasksInv, TasksRead
<1>13. ASSUME CursorTyped', TasksRead' PROVE TasksInv'
  <2>1. listed' = listed \o items
    BY <1>1
  <2>2. ListInv'
    BY <1>7 DEF TasksInv, TasksTyped, ListInv
  <2>3. IsFiniteSet(DOMAIN rows)' /\ IsFiniteSet(touched)' /\ (DOMAIN rows \subseteq Nat \ {0})'
    BY <1>7 DEF TasksInv, TasksTyped
  <2> QED BY <1>5, <1>6, <1>7, <1>13, <2>1, <2>2, <2>3 DEF TasksInv, TasksTyped
<1>14. CASE List!Range(items) # found
  <2> DEFINE final == items[size]
             key == List!SortKeyOf(final, query.sort)
  <2>1. size \in Nat \ {0} /\ size \in DOMAIN items
    BY <1>1, <1>3, <1>4, <1>14
  <2>2. final \in D /\ final \in Nat \ {0}
    BY <1>2, <1>3, <2>1
  <2>3. cursor' = [key |-> key, sequence |-> final] /\ more' = TRUE /\ listed' = listed \o items
    BY <1>1, <1>4, <1>14
  <2>4. key \in TaskKey /\ (query.sort # "DUE_DATE" => key \in Int)
    BY <2>2, TasksHaveKeys DEF TasksInv
  <2> HIDE DEF final, key
  <2>5. CursorTyped' /\ cursor' # List!Start
    BY <1>7, <2>2, <2>3, <2>4 DEF CursorTyped, List!Start
  <2>7. A' = {n \in D : List!CursorWhere(n)'}
    BY <1>7 DEF TasksAfter
  <2>8. ASSUME NEW n \in D PROVE List!CursorWhere(n)' <=> <<final, n>> \in R
    <3>1. /\ (List!KeyAfter(n, cursor.key))' <=> List!KeyAfter(n, key)
          /\ List!SortKeyOf(n, query.sort)' = List!SortKeyOf(n, query.sort)
      BY <1>7, <2>3 DEF List!KeyAfter, List!Undated, List!SortKeyOf
    <3>2. List!KeyAfter(n, key)
            <=> List!KeyBefore(key, List!SortKeyOf(n, query.sort), query.sort)
      BY <2>4, KeysCompare DEF TasksInv
    <3>4. /\ n \in Nat /\ final \in Nat
          /\ List!CursorWhere(n)' <=> \/ (List!KeyAfter(n, cursor.key))'
                                     \/ /\ List!SortKeyOf(n, query.sort)' = cursor'.key
                                        /\ n > cursor'.sequence
      BY <1>3, <2>2, <2>5 DEF List!CursorWhere
    <3>3. <<final, n>> \in R <=> List!OrderBy(final, n)
      BY <2>2 DEF TaskOrder
    <3> QED BY <2>3, <3>1, <3>2, <3>3, <3>4 DEF List!OrderBy, key
  <2>9. Follows(A', R, D, items[size])
    BY <2>7, <2>8 DEF Follows, final
  <2> DEFINE B == A'
  <2> HIDE DEF D, M, A, B, R, U
  <2>10. PageOf(items, R, M \cap A, B) /\ \A n \in M : n \in B => n \in A
    BY <1>9, <1>11, <2>1, <2>9, PageLeaves DEF B
  <2>11. ReadSoFar(listed \o items, R, M, B, U)
    BY <1>3, <1>4, <1>9, <1>12, <2>10, PageAppends
  <2>12. TasksRead'
    BY <1>8, <2>3, <2>11 DEF TasksRead, D, M, A, B, R, U
  <2> QED BY <1>13, <2>5, <2>12
<1>15. CASE List!Range(items) = found
  <2>1. cursor' = cursor /\ more' = FALSE /\ listed' = listed \o items
    BY <1>1, <1>15
  <2>2. CursorTyped'
    BY <1>7, <2>1 DEF TasksInv, TasksTyped, CursorTyped
  <2>3. PageOf(items, R, found, {})
    BY <1>2, <1>10, <1>11, <1>15 DEF PageOf, FirstRows
  <2> HIDE DEF D, M, A, R, U
  <2>4. \A n \in M : n \in {} => n \in A
    OBVIOUS
  <2>5. ReadSoFar(listed \o items, R, M, {}, U)
    BY <1>3, <1>4, <1>9, <1>12, <2>3, <2>4, PageAppends
  <2>6. TasksRead'
    BY <1>8, <2>1, <2>5 DEF TasksRead, D, M, R, U
  <2> QED BY <1>13, <2>2, <2>6
<1> QED BY <1>14, <1>15

(* A write between the pages: of the tasks that nobody touched, none changes. *)
LEMMA TasksWrite ==
  ASSUME ListAssumption, TasksInv, ListInv', more, NEW n \in Nat \ {0},
         touched' = touched \cup {n}, UNCHANGED <<query, listed, cursor, more>>,
         \A m \in DOMAIN rows' \ {n} : m \in DOMAIN rows /\ rows'[m] = rows[m],
         DOMAIN rows \subseteq DOMAIN rows' \cup {n}, DOMAIN rows' \subseteq DOMAIN rows \cup {n}
  PROVE  TasksInv'
<1>1. TasksTyped'
  <2>1. (DOMAIN rows \subseteq Nat \ {0})' /\ CursorTyped'
    BY DEF TasksInv, TasksTyped, CursorTyped
  <2>2. IsFiniteSet(touched)'
    BY FS_AddElement DEF TasksInv, TasksTyped
  <2>3. IsFiniteSet(DOMAIN rows \cup {n})
    BY FS_AddElement DEF TasksInv, TasksTyped
  <2>4. IsFiniteSet(DOMAIN rows)'
    BY <2>3, FS_Subset
  <2>5. DOMAIN rows \cup touched \subseteq DOMAIN rows' \cup touched'
    OBVIOUS
  <2> QED BY <2>1, <2>2, <2>4, <2>5 DEF TasksInv, TasksTyped
<1> DEFINE V == DOMAIN rows' \ touched'
<1>2. \A m \in V : m \in DOMAIN rows \ touched /\ m # n /\ rows'[m] = rows[m] /\ m \in DOMAIN rows'
  OBVIOUS
<1> HIDE DEF V
<1>3. \A m \in V : m \in List!Matching' <=> m \in List!Matching
  <2>1. List!Forwarded' = List!Forwarded
    BY DEF List!Forwarded
  <2> QED BY <1>2, <2>1 DEF List!Matching
<1>4. \A m \in V : List!SortKeyOf(m, query.sort)' = List!SortKeyOf(m, query.sort)
  BY <1>2 DEF List!SortKeyOf
<1>5. \A m \in V : m \in TasksAfter' <=> m \in TasksAfter
  <2>1. \A m \in V : (List!KeyAfter(m, cursor.key))' <=> List!KeyAfter(m, cursor.key)
    BY <1>2, <1>4 DEF List!KeyAfter, List!Undated
  <2>2. \A m \in V : List!CursorWhere(m)' <=> List!CursorWhere(m)
    BY <1>4, <2>1 DEF List!CursorWhere
  <2> QED BY <1>2, <2>2 DEF TasksAfter
<1>6. \A m, k \in V : <<m, k>> \in TaskOrder => <<m, k>> \in TaskOrder'
  <2>1. \A m, k \in V : List!OrderBy(m, k)' <=> List!OrderBy(m, k)
    BY <1>4 DEF List!OrderBy
  <2> QED BY <1>2, <2>1 DEF TaskOrder
<1>7. ReadSoFar(listed, TaskOrder, List!Matching, TasksAfter, DOMAIN rows \ touched)
  BY DEF TasksInv, TasksRead
<1>8. V \subseteq DOMAIN rows \ touched /\ listed \in Seq(Nat)
  BY <1>2 DEF TasksInv, TasksTyped
<1>9. ReadSoFar(listed, TaskOrder', List!Matching', TasksAfter', V)
  BY <1>3, <1>5, <1>6, <1>7, <1>8, WritesKeepPlace
<1> QED BY <1>1, <1>9 DEF TasksInv, TasksRead, V

LEMMA TasksNext ==
  ASSUME ListAssumption, TasksInv, [List!Next]_(List!vars) PROVE TasksInv'
<1>0. ListInv'
  BY ListNext DEF TasksInv, TasksTyped
<1>1. CASE UNCHANGED List!vars
  <2>1. TasksTyped'
    BY <1>0, <1>1 DEF List!vars, TasksInv, TasksTyped, CursorTyped
  <2>2. TasksRead'
    BY <1>1 DEF List!vars, TasksInv, TasksRead, TaskOrder, List!OrderBy, List!SortKeyOf,
       List!Matching, List!Forwarded, TasksAfter, List!CursorWhere, List!KeyAfter, List!Undated
  <2> QED BY <2>1, <2>2 DEF TasksInv
<1>2. CASE List!ListTasks
  BY <1>2, TasksAnswer
<1>3. ASSUME NEW n \in Nat \ {0}, NEW row, List!Write(n, row) PROVE TasksInv'
  <2>1. /\ rows' = [m \in DOMAIN rows \cup {n} |-> IF m = n THEN row ELSE rows[m]]
        /\ more /\ touched' = touched \cup {n} /\ UNCHANGED <<query, listed, cursor, more>>
    BY <1>3 DEF List!Write
  <2>2. /\ \A m \in DOMAIN rows' \ {n} : m \in DOMAIN rows /\ rows'[m] = rows[m]
        /\ DOMAIN rows \subseteq DOMAIN rows' \cup {n} /\ DOMAIN rows' \subseteq DOMAIN rows \cup {n}
    BY <2>1
  <2> QED BY <1>0, <2>1, <2>2, TasksWrite
<1>4. CASE List!Create
  <2>1. PICK row : List!Write(List!Cardinality(DOMAIN rows \cup touched) + 1, row)
    BY <1>4 DEF List!Create
  <2>2. IsFiniteSet(DOMAIN rows \cup touched)
    BY FS_Union DEF TasksInv, TasksTyped
  <2>3. Cardinality(DOMAIN rows \cup touched) \in Nat
    BY <2>2, FS_CardinalityType
  <2>4. \A S : List!Cardinality(S) = Cardinality(S)
    BY DEF Cardinality, List!Cardinality
  <2>5. List!Cardinality(DOMAIN rows \cup touched) + 1 \in Nat \ {0}
    BY <2>3, <2>4
  <2> QED BY <1>3, <2>1, <2>5
<1>5. ASSUME NEW n \in DOMAIN rows, List!Edit(n) PROVE TasksInv'
  <2>1. n \in Nat \ {0}
    BY DEF TasksInv, TasksTyped
  <2> QED BY <1>3, <1>5, <2>1 DEF List!Edit
<1>6. ASSUME NEW n \in DOMAIN rows, List!Delete(n) PROVE TasksInv'
  <2>1. n \in Nat \ {0}
    BY DEF TasksInv, TasksTyped
  <2>2. /\ rows' = [m \in DOMAIN rows \ {n} |-> rows[m]]
        /\ more /\ touched' = touched \cup {n} /\ UNCHANGED <<query, listed, cursor, more>>
    BY <1>6 DEF List!Delete
  <2>3. /\ \A m \in DOMAIN rows' \ {n} : m \in DOMAIN rows /\ rows'[m] = rows[m]
        /\ DOMAIN rows \subseteq DOMAIN rows' \cup {n} /\ DOMAIN rows' \subseteq DOMAIN rows \cup {n}
    BY <2>2
  <2> QED BY <1>0, <2>1, <2>2, <2>3, TasksWrite
<1> QED BY <1>1, <1>2, <1>4, <1>5, <1>6 DEF List!Next, List!PageRefused

LEMMA TasksReadOnce == ListAssumption /\ TasksInv => List!ListedExactlyOnce
<1> SUFFICES ASSUME ListAssumption, TasksInv, ~more, listed # << >>
             PROVE  /\ \A n \in DOMAIN rows \ touched :
                         List!Cardinality({i \in DOMAIN listed : listed[i] = n})
                           = (IF n \in List!Matching THEN 1 ELSE 0)
                    /\ \A i, j \in DOMAIN listed :
                         (i < j /\ {listed[i], listed[j]} \cap touched = {})
                           => List!OrderBy(listed[i], listed[j])
  BY Zenon DEF List!ListedExactlyOnce
<1> DEFINE D == DOMAIN rows
           U == D \ touched
           M == List!Matching
<1>1. ReadSoFar(listed, TaskOrder, M, {}, U)
  BY DEF TasksInv, TasksRead
<1>2. /\ StrictOrder(TaskOrder, D) /\ listed \in Seq(Nat) /\ U \in SUBSET D /\ M \in SUBSET D
  BY TasksOrdered DEF TasksInv, TasksTyped, List!Matching
<1>3. ASSUME NEW n \in U
      PROVE  List!Cardinality({i \in DOMAIN listed : listed[i] = n}) = (IF n \in M THEN 1 ELSE 0)
  <2>1. Cardinality({i \in DOMAIN listed : listed[i] = n}) = (IF n \in M THEN 1 ELSE 0)
    <3> HIDE DEF D, U, M
    <3> QED BY <1>1, <1>2, ReadOnce
  <2>2. \A S : List!Cardinality(S) = Cardinality(S)
    BY DEF Cardinality, List!Cardinality
  <2> QED BY <2>1, <2>2
<1>4. ASSUME NEW i \in DOMAIN listed, NEW j \in DOMAIN listed, i < j,
             {listed[i], listed[j]} \cap touched = {}
      PROVE  List!OrderBy(listed[i], listed[j])
  <2>1. listed[i] \in U /\ listed[j] \in U
    BY <1>4 DEF TasksInv, TasksTyped
  <2>2. <<listed[i], listed[j]>> \in TaskOrder
    BY <1>1, <1>4, <2>1 DEF ReadSoFar
  <2> QED BY <2>2 DEF TaskOrder
<1> QED BY <1>3, <1>4

(* tasks.repository.ts, boards.repository.ts, invitations.repository.ts and            *)
(* attachments.repository.ts: whoever reads one of the API's lists to its end gets each  *)
(* matching row that nobody wrote meanwhile exactly once and in order, and no other of    *)
(* them: for every filter, sort and page size and any rows to start with, whatever rows    *)
(* are written between the pages, the one under the cursor as well. The attachments whose   *)
(* cursor row was removed are the one exception; a list by priority can be read to its end    *)
(* when one page holds it, as the API answers no second page of it.                             *)
THEOREM PagesListOnce ==
      /\ List!Init \/ AnyTasks
      /\ Pages!Init \/ AnyRows
      /\ [][List!Next]_(List!vars) /\ [][Pages!Next]_(Pages!vars)
  => []ListedExactlyOnce
<1>. ListAssumption /\ Limits \subseteq Nat \ {0}
  BY ClientAssumption DEF ListAssumption
<1>1. (List!Init \/ AnyTasks) /\ (Pages!Init \/ AnyRows) => TasksInv /\ PagesInv
  BY TasksInit, TasksFresh, PagesInit, RowsInit
<1>2. TasksInv /\ PagesInv /\ [List!Next]_(List!vars) /\ [Pages!Next]_(Pages!vars)
        => TasksInv' /\ PagesInv'
  BY TasksNext, PagesNext
<1>3. TasksInv /\ PagesInv => ListedExactlyOnce
  BY TasksReadOnce, PagesReadOnce DEF ListedExactlyOnce
<1> QED BY <1>1, <1>2, <1>3, PTL

-----------------------------------------------------------------------------
(* Repeat rules over a change of the clock *)

(* The clock changes by less than a day, and nextAfter's passes reach over the *)
(* time that a clock which is set back repeats.                                 *)
SeriesAssumption ==
  /\ Day \in Nat \ {0} /\ MaxAttempts \in Nat \ {0}
  /\ Days \subseteq Nat \ {0}
  /\ Jump \subseteq Int /\ \A jump \in Jump : -Day < jump /\ jump < Day /\ -jump <= MaxAttempts
  /\ None \notin Int /\ Failed \notin Int /\ None # Failed

ClockTyped ==
  /\ clock.change \in Int /\ clock.change >= Day
  /\ clock.jump \in Jump

(* One time on each of the days of the rule, all at the same time of day. *)
RuleTyped ==
  /\ \A t \in rule : t \in Nat /\ t > 0
  /\ \A s, t \in rule : s < t => s + Day <= t

(* A clock that is set forward leaves out these times. *)
LeftOut(t) == clock.change <= t /\ t < clock.change + clock.jump

LEMMA NatMinimum ==
  ASSUME NEW S, S \subseteq Nat, S # {} PROVE \E m \in S : \A n \in S : m <= n
<1>1. PICK m \in S : \A n \in S : ~(<<n, m>> \in OpToRel(<, Nat))
  BY WFMin, NatLessThanWellFounded
<1>2. \A n \in S : ~(n < m)
  BY <1>1 DEF OpToRel
<1> QED BY <1>2

(* fromFloating reads a time in either offset; only a time that is left out is   *)
(* the time of no instant, and moves forward by the change.                       *)
LEMMA FloatingRead ==
  ASSUME SeriesAssumption, ClockTyped, NEW t \in Int, NEW guess \in Series!Guesses
  PROVE  /\ Series!FromFloating(t, guess) \in {t, t - clock.jump}
         /\ LeftOut(t) => Series!FromFloating(t, guess) = t
         /\ ~LeftOut(t) => Series!Local(Series!FromFloating(t, guess)) = t
<1> DEFINE c == clock.change
           j == clock.jump
           first == Series!Offset(t - guess)
           second == Series!Offset(t - first)
           f == Series!FromFloating(t, guess)
<1>1. c \in Int /\ j \in Int /\ guess \in {0, j}
  BY DEF ClockTyped, SeriesAssumption, Series!Guesses
<1>2. \A x \in Int : Series!Offset(x) = IF x < c THEN 0 ELSE j
  BY DEF Series!Offset
<1>3. first = (IF t - guess < c THEN 0 ELSE j)
  BY <1>1, <1>2
<1>4. second = (IF t - first < c THEN 0 ELSE j)
  BY <1>1, <1>2, <1>3
<1>5. f = IF first = guess THEN t - guess
          ELSE IF second = first THEN t - first
          ELSE t - (IF first < second THEN first ELSE second)
  BY DEF Series!FromFloating
<1>6. LeftOut(t) <=> c <= t /\ t < c + j
  BY DEF LeftOut
<1>7. \A x \in Int : Series!Local(x) = x + (IF x < c THEN 0 ELSE j)
  BY <1>2 DEF Series!Local
<1> HIDE DEF c, j, first, second, f
<1>8. f \in {t, t - j} /\ (LeftOut(t) => f = t)
  BY <1>1, <1>3, <1>4, <1>5, <1>6
<1>9. f \in Int
  BY <1>1, <1>8
<1>10. ~LeftOut(t) => f + (IF f < c THEN 0 ELSE j) = t
  BY <1>1, <1>3, <1>4, <1>5, <1>6
<1> QED BY <1>7, <1>8, <1>9, <1>10 DEF f, j

LEMMA EarliestIsFirst ==
  ASSUME NEW times, times \subseteq Nat, times # {}
  PROVE  /\ Series!Earliest(times) \in times
         /\ \A t \in times : Series!Earliest(times) <= t
<1>1. \E t \in times : \A s \in times : t <= s
  BY NatMinimum
<1>2. Series!Earliest(times) = CHOOSE t \in times : \A s \in times : t <= s
  BY DEF Series!Earliest
<1> QED BY <1>1, <1>2

(* rrule's after: the first time of the rule that is later, or none. *)
LEMMA AfterIsFirst ==
  ASSUME SeriesAssumption, RuleTyped, NEW time \in Int
  PROVE  \/ Series!After(time) = None /\ \A t \in rule : t <= time
         \/ /\ Series!After(time) \in rule /\ Series!After(time) > time
            /\ Series!After(time) # None /\ \A t \in rule : t > time => Series!After(time) <= t
<1> DEFINE later == {t \in rule : t > time}
<1>1. Series!After(time) = Series!Earliest(later)
  BY DEF Series!After
<1>2. CASE later = {}
  <2>1. Series!After(time) = None
    BY <1>1, <1>2 DEF Series!Earliest
  <2> QED BY <1>2, <2>1 DEF RuleTyped
<1>3. CASE later # {}
  <2>1. later \subseteq Nat
    BY DEF RuleTyped
  <2>2. Series!Earliest(later) \in later /\ \A t \in later : Series!Earliest(later) <= t
    BY <1>3, <2>1, EarliestIsFirst
  <2>3. Series!After(time) \in Nat
    BY <1>1, <2>1, <2>2
  <2> QED BY <1>1, <2>2, <2>3 DEF SeriesAssumption
<1> QED BY <1>2, <1>3

(* nextAfter takes the first of its passes that settles; one that does is enough. *)
LEMMA PassSettles ==
  ASSUME SeriesAssumption, NEW after \in Int, NEW guess, NEW n \in 0..(MaxAttempts - 1),
         LET candidate == Series!After(Series!Local(after + n))
         IN candidate = None \/ Series!FromFloating(candidate, guess) > after
  PROVE  \E pass \in 0..n :
           LET candidate == Series!After(Series!Local(after + pass))
           IN \/ candidate = None /\ Series!NextAfter(after, guess) = None
              \/ /\ candidate # None
                 /\ Series!NextAfter(after, guess) = Series!FromFloating(candidate, guess)
                 /\ Series!NextAfter(after, guess) > after
<1> DEFINE candidate(m) == Series!After(Series!Local(after + m))
           settles(m) == \/ candidate(m) = None
                         \/ Series!IsLater(Series!FromFloating(candidate(m), guess), after)
           passes == {m \in 0..(MaxAttempts - 1) : settles(m)}
           pass == CHOOSE m \in passes : \A k \in passes : m <= k
<1>1. Series!NextAfter(after, guess) =
        IF passes = {} THEN Failed
        ELSE IF candidate(pass) = None THEN None
        ELSE Series!FromFloating(candidate(pass), guess)
  BY DEF Series!NextAfter
<1>2. n \in passes /\ passes \subseteq Nat
  BY DEF Series!IsLater, SeriesAssumption
<1>3. \A m \in passes : m \in Nat /\ settles(m)
  BY <1>2
<1> HIDE DEF passes
<1>4. \E m \in passes : \A k \in passes : m <= k
  BY <1>2, NatMinimum
<1>5. pass \in passes /\ pass <= n
  BY <1>2, <1>4
<1> HIDE DEF pass
<1>6. pass \in 0..n /\ settles(pass) /\ passes # {}
  BY <1>2, <1>3, <1>5
<1> QED BY <1>1, <1>6 DEF Series!IsLater

(* Where the clock is not set back, or the instant is before it is, the first pass *)
(* settles; after it, a pass that creeps beyond the repeated time does.              *)
LEMMA NextIsLater ==
  ASSUME SeriesAssumption, ClockTyped, RuleTyped, NEW after \in Int,
         NEW guess \in Series!Guesses
  PROVE  LET next == Series!NextAfter(after, guess)
         IN next # Failed /\ (next # None => next > after)
<1> DEFINE c == clock.change
           j == clock.jump
           n == IF j < 0 /\ after >= c THEN -j - 1 ELSE 0
           t == Series!After(Series!Local(after + n))
           f == Series!FromFloating(t, guess)
<1>0. c \in Int /\ j \in Int /\ -j <= MaxAttempts /\ MaxAttempts \in Nat \ {0}
  BY DEF ClockTyped, SeriesAssumption
<1>1. c \in Int /\ j \in Int /\ n \in Nat /\ n \in 0..(MaxAttempts - 1)
  <2> HIDE DEF c, j
  <2> QED BY <1>0
<1>2. \A x \in Int : Series!Local(x) = x + (IF x < c THEN 0 ELSE j)
  BY DEF Series!Local, Series!Offset
<1>3. Series!Local(after + n) \in Int
  BY <1>1, <1>2
<1>4. ASSUME t # None PROVE f > after
  <2>1. t \in Int /\ t > Series!Local(after + n)
    BY <1>3, <1>4, AfterIsFirst DEF RuleTyped
  <2>2. /\ f \in {t, t - j} /\ (LeftOut(t) => f = t)
        /\ ~LeftOut(t) => Series!Local(f) = t
    BY <2>1, FloatingRead
  <2>3. f \in Int /\ (LeftOut(t) <=> c <= t /\ t < c + j)
    BY <1>1, <2>1, <2>2 DEF LeftOut
  <2>4. Series!Local(f) = f + (IF f < c THEN 0 ELSE j)
    BY <1>2, <2>3
  <2>5. Series!Local(after + n) = after + n + (IF after + n < c THEN 0 ELSE j)
    BY <1>1, <1>2
  <2> HIDE DEF c, j, t, f
  <2>6. CASE j < 0 /\ after >= c
    <3>1. t >= c
      BY <1>1, <2>1, <2>5, <2>6
    <3> QED BY <1>1, <2>1, <2>2, <2>3, <2>4, <2>5, <2>6, <3>1
  <2>7. CASE ~(j < 0 /\ after >= c)
    BY <1>1, <2>1, <2>2, <2>3, <2>4, <2>5, <2>7
  <2> QED BY <2>6, <2>7
<1> HIDE DEF n
<1>5. PICK pass \in 0..n :
        LET candidate == Series!After(Series!Local(after + pass))
        IN \/ candidate = None /\ Series!NextAfter(after, guess) = None
           \/ /\ candidate # None
              /\ Series!NextAfter(after, guess) = Series!FromFloating(candidate, guess)
              /\ Series!NextAfter(after, guess) > after
  BY <1>1, <1>4, PassSettles
<1>6. CASE Series!NextAfter(after, guess) = None
  BY <1>6 DEF SeriesAssumption
<1>7. CASE Series!NextAfter(after, guess) > after /\ Series!NextAfter(after, guess) # None
  <2> DEFINE candidate == Series!After(Series!Local(after + pass))
  <2>1. candidate \in Int
    <3>1. Series!Local(after + pass) \in Int
      BY <1>1, <1>2
    <3> QED BY <1>5, <1>7, <3>1, AfterIsFirst DEF RuleTyped
  <2>2. Series!FromFloating(candidate, guess) \in Int
    BY <1>1, <2>1, FloatingRead
  <2>3. Series!NextAfter(after, guess) \in Int
    BY <1>5, <1>7, <2>2
  <2> QED BY <1>7, <2>3 DEF SeriesAssumption
<1> QED BY <1>5, <1>6, <1>7

LEMMA ClockReads ==
  ASSUME SeriesAssumption, ClockTyped, NEW x \in Int
  PROVE  /\ Series!Local(x) = x + (IF x < clock.change THEN 0 ELSE clock.jump)
         /\ Series!Local(x) \in Int
<1>1. clock.change \in Int /\ clock.jump \in Int
  BY DEF ClockTyped, SeriesAssumption
<1> QED BY <1>1 DEF Series!Local, Series!Offset

(* The instants at which a series can stand: its start, and the runs of its rule. *)
Reached(instant) ==
  instant = 0 \/ \E t \in rule, guess \in Series!Guesses : instant = Series!FromFloating(t, guess)

(* The dates that a series has behind it. *)
Done == IF last = None THEN rule ELSE {t \in rule : t <= Series!Local(last)}

(* A due date for each of these times, in order. *)
Dated(days, times) ==
  /\ \A i \in DOMAIN days : \E t \in times : days[i] = t \div Day
  /\ \A t \in times : \E i \in DOMAIN days : days[i] = t \div Day
  /\ \A i, j \in DOMAIN days : i < j => days[i] < days[j]

NoneLeaves == \A t \in rule : ~Series!LeavesItsDay(t)

SeriesInv ==
  /\ ClockTyped /\ RuleTyped
  /\ last # None => last \in Int /\ Reached(last)
  /\ dueDays \in Seq(Int)
  /\ NoneLeaves => Dated(dueDays, Done)

LEMMA DaysApart ==
  ASSUME NEW d \in Nat \ {0}, NEW m \in Int, NEW n \in Int, m < n
  PROVE  d * m + d <= d * n
<1> DEFINE k == n - m - 1
<1>1. k \in Nat /\ n = m + 1 + k
  OBVIOUS
<1> HIDE DEF k
<1>2. d * k >= 0
  BY <1>1
<1>3. d * n = d * m + d + d * k
  BY <1>1
<1>4. d * m \in Int /\ d * k \in Int
  BY <1>1
<1> QED BY <1>2, <1>3, <1>4

LEMMA DayOf ==
  ASSUME NEW d \in Nat \ {0}, NEW t \in Int
  PROVE  t \div d \in Int /\ d * (t \div d) <= t /\ t < d * (t \div d) + d
OBVIOUS

(* A day or more later is another date. *)
LEMMA LaterDate ==
  ASSUME NEW d \in Nat \ {0}, NEW s \in Int, NEW t \in Int, s + d <= t
  PROVE  s \div d < t \div d
<1> DEFINE m == s \div d
           n == t \div d
<1>1. /\ m \in Int /\ d * m <= s
      /\ n \in Int /\ t < d * n + d
  BY DayOf
<1> HIDE DEF m, n
<1>2. n < m => d * n + d <= d * m
  BY <1>1, DaysApart
<1>3. d * m \in Int /\ d * n \in Int
  BY <1>1
<1>4. n # m
  BY <1>1, <1>3
<1>5. m < n
  BY <1>1, <1>2, <1>3, <1>4
<1> QED BY <1>5 DEF m, n

LEMMA SeriesInit == ASSUME SeriesAssumption, Series!Init PROVE SeriesInv
<1>1. ClockTyped
  BY DEF Series!Init, ClockTyped, SeriesAssumption
<1>2. PICK slot \in 0..(Day - 1), days \in SUBSET Days : rule = {Day * d + slot : d \in days}
  BY DEF Series!Init
<1>3. Day \in Nat \ {0} /\ slot \in Nat /\ \A d \in days : d \in Nat \ {0}
  BY DEF SeriesAssumption
<1>4. \A d \in Nat \ {0} : Day * d \in Nat /\ Day * d > 0
  BY <1>3
<1>5. ASSUME NEW t \in rule PROVE t \in Nat /\ t > 0
  <2>1. PICK d \in days : t = Day * d + slot
    BY <1>2
  <2> QED BY <1>3, <1>4, <2>1
<1>6. ASSUME NEW s \in rule, NEW t \in rule, s < t PROVE s + Day <= t
  <2>1. PICK m \in days : s = Day * m + slot
    BY <1>2
  <2>2. PICK n \in days : t = Day * n + slot
    BY <1>2
  <2>3. /\ m \in Nat /\ n \in Nat /\ Day * m \in Nat /\ Day * n \in Nat /\ slot \in Nat
        /\ Day \in Nat \ {0}
    BY <1>3, <1>4
  <2>4. n < m => Day * n + Day <= Day * m
    BY <2>3, DaysApart
  <2>5. m < n => Day * m + Day <= Day * n
    BY <2>3, DaysApart
  <2>6. m # n
    BY <1>6, <2>1, <2>2, <2>3
  <2> DEFINE a == Day * m
             b == Day * n
  <2>7. a \in Nat /\ b \in Nat /\ s = a + slot /\ t = b + slot
        /\ (n < m => b + Day <= a) /\ (m < n => a + Day <= b)
    BY <2>1, <2>2, <2>3, <2>4, <2>5
  <2> HIDE DEF a, b
  <2> QED BY <1>6, <2>3, <2>6, <2>7
<1>7. RuleTyped
  BY <1>5, <1>6 DEF RuleTyped
<1>8. last = 0 /\ dueDays = << >>
  BY DEF Series!Init
<1>9. Done = {}
  <2>1. Series!Local(0) = 0
    BY <1>1 DEF ClockTyped, SeriesAssumption, Series!Local, Series!Offset
  <2> QED BY <1>5, <1>8, <2>1 DEF Done, SeriesAssumption
<1>10. Dated(dueDays, Done)
  BY <1>8, <1>9 DEF Dated
<1> QED BY <1>1, <1>7, <1>8, <1>10 DEF SeriesInv, Reached

(* Where a series stands, the first candidate is already a later instant. *)
LEMMA FirstPassSettles ==
  ASSUME SeriesAssumption, ClockTyped, RuleTyped, NEW at \in Int, Reached(at),
         NEW guess \in Series!Guesses, Series!After(Series!Local(at)) # None
  PROVE  Series!FromFloating(Series!After(Series!Local(at)), guess) > at
<1> DEFINE c == clock.change
           j == clock.jump
           t == Series!After(Series!Local(at))
           f == Series!FromFloating(t, guess)
<1>1. c \in Int /\ j \in Int /\ Day \in Nat \ {0} /\ c >= Day /\ -j < Day
  <2>1. j \in Jump /\ c \in Int /\ c >= Day
    BY DEF ClockTyped
  <2>2. j \in Int /\ Day \in Nat \ {0} /\ -Day < j
    BY <2>1 DEF SeriesAssumption
  <2> HIDE DEF c, j
  <2> QED BY <2>1, <2>2
<1>2. Series!Local(at) = at + (IF at < c THEN 0 ELSE j) /\ Series!Local(at) \in Int
  BY ClockReads
<1>3. t \in rule /\ t \in Nat /\ t > 0 /\ t > Series!Local(at)
  BY <1>2, AfterIsFirst DEF RuleTyped
<1>4. /\ f \in {t, t - j} /\ (LeftOut(t) => f = t)
      /\ ~LeftOut(t) => Series!Local(f) = t
  BY <1>3, FloatingRead
<1>5. f \in Int /\ (LeftOut(t) <=> c <= t /\ t < c + j)
  BY <1>1, <1>3, <1>4 DEF LeftOut
<1>6. Series!Local(f) = f + (IF f < c THEN 0 ELSE j)
  BY <1>5, ClockReads
<1> HIDE DEF t, f
<1>7. ASSUME j >= 0 PROVE f > at
  <2> HIDE DEF c, j
  <2> QED BY <1>1, <1>2, <1>3, <1>4, <1>5, <1>6, <1>7
<1>8. ASSUME j < 0 PROVE f > at
  <2>1. f >= t
    BY <1>1, <1>3, <1>4, <1>8
  <2>2. CASE at = 0
    BY <1>3, <1>5, <2>1, <2>2
  <2>3. CASE at # 0
    <3>1. PICK s \in rule, g \in Series!Guesses : at = Series!FromFloating(s, g)
      BY <2>3 DEF Reached
    <3>2. s \in Nat /\ at \in {s, s - j} /\ (~LeftOut(s) => Series!Local(at) = s)
      BY <3>1, FloatingRead DEF RuleTyped
    <3>3. ~LeftOut(s)
      BY <1>1, <1>8, <3>2 DEF LeftOut
    <3>4. s + Day <= t
      BY <1>3, <3>2, <3>3 DEF RuleTyped
    <3> HIDE DEF c, j
    <3> QED BY <1>1, <1>3, <1>5, <2>1, <3>2, <3>4
  <2> QED BY <2>2, <2>3
<1> QED BY <1>1, <1>7, <1>8 DEF t, f

(* A run's due date is its date, if the change does not shift it out of its day. *)
LEMMA RunIsDated ==
  ASSUME SeriesAssumption, ClockTyped, NEW t \in Int, ~Series!LeavesItsDay(t),
         NEW guess \in Series!Guesses
  PROVE  Series!OccurrenceDueDate(Series!FromFloating(t, guess)) = t \div Day
<1> DEFINE c == clock.change
           j == clock.jump
           f == Series!FromFloating(t, guess)
<1>1. /\ c \in Int /\ j \in Int /\ Day \in Nat
      /\ \A x \in Int : Series!Local(x) = x + (IF x < c THEN 0 ELSE j)
  BY DEF ClockTyped, SeriesAssumption, Series!Local, Series!Offset
<1>2. CASE ~LeftOut(t)
  <2>1. Series!Local(f) = t
    BY <1>2, FloatingRead
  <2> QED BY <2>1 DEF Series!OccurrenceDueDate
<1>3. CASE LeftOut(t)
  <2>1. f = t /\ c <= t /\ t < c + j
    BY <1>3, FloatingRead DEF LeftOut
  <2>2. Series!Local(f) = t + j
    BY <1>1, <2>1
  <2>3. ASSUME NEW instant \in Int PROVE Series!Local(instant) # t
    BY <1>1, <2>1, <2>3
  <2>4. Series!Missing(t)
    BY <1>1, <2>3 DEF Series!Missing
  <2>5. (t + j) \div Day = t \div Day
    BY <2>4 DEF Series!LeavesItsDay
  <2> QED BY <2>2, <2>5 DEF Series!OccurrenceDueDate
<1> QED BY <1>2, <1>3

LEMMA DatesAppended ==
  ASSUME Day \in Nat \ {0}, NEW days \in Seq(Int), NEW times, NEW t \in Int,
         Dated(days, times), \A s \in times : s \in Int /\ s + Day <= t
  PROVE  Dated(Append(days, t \div Day), times \cup {t})
<1> DEFINE longer == Append(days, t \div Day)
           n == Len(days)
<1>1. n \in Nat /\ DOMAIN days = 1..n /\ t \div Day \in Int
  BY DayOf
<1>2. /\ DOMAIN longer = 1..(n + 1) /\ longer[n + 1] = t \div Day
      /\ \A i \in 1..n : longer[i] = days[i]
  BY <1>1
<1> HIDE DEF longer, n
<1>3. ASSUME NEW i \in 1..n PROVE days[i] < t \div Day
  <2>1. PICK s \in times : days[i] = s \div Day
    BY <1>1 DEF Dated
  <2>2. s \in Int /\ s + Day <= t
    OBVIOUS
  <2> QED BY <2>1, <2>2, LaterDate
<1>4. ASSUME NEW i \in DOMAIN longer PROVE i \in 1..n \/ i = n + 1
  BY <1>1, <1>2
<1>5. \A i \in DOMAIN longer : \E s \in times \cup {t} : longer[i] = s \div Day
  BY <1>1, <1>2, <1>4 DEF Dated
<1>6. \A s \in times \cup {t} : \E i \in DOMAIN longer : longer[i] = s \div Day
  <2>1. n + 1 \in DOMAIN longer /\ \A i \in 1..n : i \in DOMAIN longer
    BY <1>1, <1>2
  <2> QED BY <1>1, <1>2, <2>1 DEF Dated
<1>7. ASSUME NEW i \in DOMAIN longer, NEW k \in DOMAIN longer, i < k PROVE longer[i] < longer[k]
  <2>1. i \in 1..n
    BY <1>1, <1>2, <1>7
  <2>2. CASE k \in 1..n
    BY <1>1, <1>2, <1>7, <2>1, <2>2 DEF Dated
  <2>3. CASE k = n + 1
    BY <1>2, <1>3, <2>1, <2>3
  <2> QED BY <1>4, <2>2, <2>3
<1>8. Dated(longer, times \cup {t})
  BY <1>5, <1>6, <1>7 DEF Dated
<1> QED BY <1>8 DEF longer

LEMMA SeriesNext ==
  ASSUME SeriesAssumption, SeriesInv, [Series!Next]_(Series!vars) PROVE SeriesInv'
<1>1. CASE UNCHANGED Series!vars
  BY <1>1 DEF Series!vars, SeriesInv, ClockTyped, RuleTyped, Reached, Done, NoneLeaves,
     Series!LeavesItsDay, Series!Missing, Series!Local, Series!Offset, Series!Guesses,
     Series!FromFloating
<1>2. CASE Series!NextOccurrence
  <2>1. PICK guess \in Series!Guesses :
          /\ last # None /\ last' = Series!NextAfter(last, guess)
          /\ dueDays' = IF last' = None THEN dueDays
                        ELSE Append(dueDays, Series!OccurrenceDueDate(last'))
          /\ rule' = rule /\ clock' = clock
    BY <1>2 DEF Series!NextOccurrence
  <2>2. ClockTyped' /\ RuleTyped' /\ (NoneLeaves' <=> NoneLeaves)
    BY <2>1 DEF SeriesInv, ClockTyped, RuleTyped, NoneLeaves, Series!LeavesItsDay,
       Series!Missing, Series!Local, Series!Offset
  <2>3. \A x : Series!Local(x)' = Series!Local(x)
    BY <2>1 DEF Series!Local, Series!Offset
  <2> DEFINE t == Series!After(Series!Local(last))
             f == Series!FromFloating(t, guess)
  <2>4. last \in Int /\ Reached(last) /\ ClockTyped /\ RuleTyped /\ dueDays \in Seq(Int)
    BY <2>1 DEF SeriesInv
  <2>5. Series!Local(last) \in Int
    BY <2>4, ClockReads
  <2>6. \/ t = None /\ \A s \in rule : s <= Series!Local(last)
        \/ /\ t \in rule /\ t > Series!Local(last) /\ t # None
           /\ \A s \in rule : s > Series!Local(last) => t <= s
    BY <2>4, <2>5, AfterIsFirst
  <2>7. t # None => f > last
    BY <2>4, FirstPassSettles
  <2>8. (t = None /\ last' = None) \/ (t # None /\ last' = f)
    <3>1. last + 0 = last
      BY <2>4
    <3>2. PICK pass \in 0..0 :
            LET candidate == Series!After(Series!Local(last + pass))
            IN \/ candidate = None /\ Series!NextAfter(last, guess) = None
               \/ /\ candidate # None
                  /\ Series!NextAfter(last, guess) = Series!FromFloating(candidate, guess)
                  /\ Series!NextAfter(last, guess) > last
      <4>1. 0 \in 0..(MaxAttempts - 1)
        BY DEF SeriesAssumption
      <4>2. LET candidate == Series!After(Series!Local(last + 0))
            IN candidate = None \/ Series!FromFloating(candidate, guess) > last
        BY <2>7, <3>1
      <4> QED BY <2>4, <4>1, <4>2, PassSettles
    <3>3. pass = 0
      OBVIOUS
    <3> QED BY <2>1, <3>1, <3>2, <3>3
  <2> HIDE DEF t, f
  <2>9. CASE t = None /\ last' = None
    <3>1. Done = rule /\ Done' = rule
      BY <2>1, <2>6, <2>9 DEF Done
    <3> QED BY <2>1, <2>2, <2>4, <2>9, <3>1 DEF SeriesInv
  <2>10. CASE t # None /\ last' = f
    <3>1. t \in rule /\ t \in Nat /\ clock.jump \in Int
      BY <2>4, <2>6, <2>10 DEF RuleTyped, ClockTyped, SeriesAssumption
    <3>2. /\ f \in {t, t - clock.jump} /\ (LeftOut(t) => f = t)
          /\ ~LeftOut(t) => Series!Local(f) = t
      BY <2>4, <3>1, FloatingRead DEF f
    <3>3. f \in Int /\ last' \in Int /\ last' # None
      BY <2>10, <3>1, <3>2 DEF SeriesAssumption
    <3>4. t <= Series!Local(f) /\ Series!Local(f) < t + Day
      <4>1. CASE LeftOut(t)
        BY <2>4, <3>1, <3>2, <4>1
           DEF LeftOut, ClockTyped, SeriesAssumption, Series!Local, Series!Offset
      <4>2. CASE ~LeftOut(t)
        BY <3>1, <3>2, <4>2 DEF SeriesAssumption
      <4> QED BY <4>1, <4>2
    <3>5. Done' = Done \cup {t}
      <4>1. Done' = {s \in rule : s <= Series!Local(f)}
        BY <2>1, <2>3, <2>10, <3>3 DEF Done
      <4>2. Done = {s \in rule : s <= Series!Local(last)}
        BY <2>1 DEF Done
      <4>3. ASSUME NEW s \in rule
            PROVE  s <= Series!Local(f) <=> s <= Series!Local(last) \/ s = t
        <5>1. /\ s \in Nat /\ Day \in Nat \ {0} /\ Series!Local(f) \in Int
              /\ (s < t => s + Day <= t) /\ (t < s => t + Day <= s)
          BY <2>4, <3>1, <3>3
             DEF RuleTyped, SeriesAssumption, ClockTyped, Series!Local, Series!Offset
        <5>2. t > Series!Local(last) /\ (s > Series!Local(last) => t <= s)
          BY <2>6, <2>10
        <5> QED BY <2>5, <3>1, <3>4, <5>1, <5>2
      <4> QED BY <3>1, <4>1, <4>2, <4>3
    <3>6. ASSUME NoneLeaves PROVE Dated(dueDays', Done')
      <4>1. dueDays' = Append(dueDays, t \div Day)
        <5>1. Series!OccurrenceDueDate(f) = t \div Day
          BY <2>4, <3>1, <3>6, RunIsDated DEF NoneLeaves, f
        <5> QED BY <2>1, <2>10, <3>3, <5>1
      <4>2. Dated(dueDays, Done)
        BY <3>6 DEF SeriesInv
      <4>3. \A s \in Done : s \in Int /\ s + Day <= t
        <5> SUFFICES ASSUME NEW s \in Done PROVE s \in Int /\ s + Day <= t
          OBVIOUS
        <5>1. s \in rule /\ s <= Series!Local(last)
          BY <2>1 DEF Done
        <5>2. s \in Nat /\ (s < t => s + Day <= t)
          BY <2>4, <3>1, <5>1 DEF RuleTyped
        <5>3. t > Series!Local(last)
          BY <2>6, <2>10
        <5>4. s < t
          BY <2>5, <3>1, <5>1, <5>2, <5>3
        <5> QED BY <5>2, <5>4
      <4>4. Day \in Nat \ {0} /\ t \in Int
        BY <3>1 DEF SeriesAssumption
      <4>5. Dated(Append(dueDays, t \div Day), Done \cup {t})
        BY <2>4, <4>2, <4>3, <4>4, DatesAppended
      <4> QED BY <3>5, <4>1, <4>5
    <3>7. Reached(last)'
      <4>1. \A s, g : Series!FromFloating(s, g)' = Series!FromFloating(s, g)
        BY <2>1 DEF Series!FromFloating, Series!Offset
      <4>2. Series!Guesses' = Series!Guesses
        BY <2>1 DEF Series!Guesses
      <4>3. PICK s \in rule : last' = Series!FromFloating(s, guess)
        BY <2>10, <3>1 DEF f
      <4>4. last' = Series!FromFloating(s, guess)'
        BY <4>1, <4>3
      <4> QED BY <2>1, <4>2, <4>3, <4>4 DEF Reached
    <3>8. dueDays' \in Seq(Int)
      <4>1. Series!OccurrenceDueDate(f) \in Int
        <5>1. Series!Local(f) \in Int /\ Day \in Nat \ {0}
          BY <2>4, <3>3, ClockReads DEF SeriesAssumption
        <5> QED BY <5>1, DayOf DEF Series!OccurrenceDueDate
      <4> QED BY <2>1, <2>4, <2>10, <3>3, <4>1
    <3> QED BY <2>2, <3>3, <3>6, <3>7, <3>8 DEF SeriesInv
  <2> QED BY <2>8, <2>9, <2>10
<1> QED BY <1>1, <1>2 DEF Series!Next

(* In order and without repetition: as many due dates as dates. *)
LEMMA DatesCounted ==
  ASSUME NEW days \in Seq(Int), NEW times, Dated(days, times)
  PROVE  /\ Len(days) = Cardinality({t \div Day : t \in times})
         /\ {days[i] : i \in DOMAIN days} = {t \div Day : t \in times}
<1> DEFINE dates == {t \div Day : t \in times}
<1>1. Len(days) \in Nat /\ DOMAIN days = 1..Len(days) /\ \A i \in DOMAIN days : days[i] \in Int
  OBVIOUS
<1>2. \A i \in DOMAIN days : days[i] \in dates
  BY DEF Dated
<1>3. \A d \in dates : \E i \in DOMAIN days : days[i] = d
  BY DEF Dated
<1> HIDE DEF dates
<1>4. {days[i] : i \in DOMAIN days} = dates
  BY <1>2, <1>3
<1>5. \A i, j \in DOMAIN days : days[i] = days[j] => i = j
  BY <1>1 DEF Dated
<1> DEFINE g == [i \in 1..Len(days) |-> days[i]]
<1>6. g \in Bijection(1..Len(days), dates)
  BY <1>1, <1>2, <1>3, <1>5 DEF Bijection, Injection, Surjection, IsInjective
<1> HIDE DEF g
<1>7. ExistsBijection(1..Len(days), dates)
  BY <1>6 DEF ExistsBijection
<1>8. Cardinality(dates) = Len(days)
  BY <1>1, <1>7, FS_CountingElements
<1> QED BY <1>4, <1>8 DEF dates

(* NextRunIsLater for every instant that there is. *)
ResumesLater ==
  \A after \in Int, guess \in Series!Guesses :
    LET next == Series!NextAfter(after, guess) IN next # Failed /\ (next # None => next > after)

(* recurrence.ts: a series that is completed run by run has each date of its rule    *)
(* once and in order, across any change of the clock by less than a day, on any day of *)
(* any length, whichever side of the change the code runs on; and whatever instant a    *)
(* rule is resumed from, nextAfter finds a later one within its passes.                  *)
THEOREM SeriesHasEveryDateOnce == Series!Spec => [](EveryDateOnce /\ ResumesLater)
<1>. SeriesAssumption
  BY ClockAssumption DEF SeriesAssumption
<1>0. SeriesInv => ResumesLater
  BY NextIsLater DEF SeriesInv, ResumesLater
<1>1. SeriesInv => Series!NextRunIsLater
  <2>1. \A after \in 0..(4 * Day) : after \in Int
    BY DEF SeriesAssumption
  <2> QED BY <1>0, <2>1 DEF ResumesLater, Series!NextRunIsLater
<1>2. SeriesInv => Series!EveryDateOnce
  <2> SUFFICES ASSUME SeriesInv, last = None, NoneLeaves
               PROVE  /\ Len(dueDays) = Series!Cardinality({t \div Day : t \in rule})
                      /\ {dueDays[i] : i \in DOMAIN dueDays} = {t \div Day : t \in rule}
                      /\ \A i, j \in DOMAIN dueDays : i < j => dueDays[i] < dueDays[j]
    BY Zenon DEF Series!EveryDateOnce, NoneLeaves
  <2>1. dueDays \in Seq(Int) /\ Dated(dueDays, rule)
    BY DEF SeriesInv, Done
  <2>2. \A S : Series!Cardinality(S) = Cardinality(S)
    BY DEF Cardinality, Series!Cardinality
  <2>3. /\ Len(dueDays) = Cardinality({t \div Day : t \in rule})
        /\ {dueDays[i] : i \in DOMAIN dueDays} = {t \div Day : t \in rule}
    BY <2>1, DatesCounted
  <2>4. \A i, j \in DOMAIN dueDays : i < j => dueDays[i] < dueDays[j]
    BY <2>1 DEF Dated
  <2> QED BY <2>2, <2>3, <2>4
<1>3. SeriesInv => EveryDateOnce
  BY <1>1, <1>2 DEF EveryDateOnce
<1>4. Series!Init => SeriesInv
  BY SeriesInit
<1>5. SeriesInv /\ [Series!Next]_(Series!vars) => SeriesInv'
  BY SeriesNext
<1> QED BY <1>0, <1>3, <1>4, <1>5, PTL DEF Series!Spec

-----------------------------------------------------------------------------
(* The repeat picker: dates and the parts of a rule *)

(* See CalendarAssumption: the marks for what is missing are values of their own. *)
CalendarOK ==
  /\ Dates \cup {Today} \subseteq Picker!Calendar
  /\ None \notin Picker!Calendar /\ None \notin Int /\ None \notin Picker!ByDays

Frequencies == {"DAILY", "WEEKLY", "MONTHLY", "YEARLY"}

(* A rule as the editor writes it, and what is known of a rule that it reads. *)
Built(frequency, interval, byDay, byMonthDay, byMonth, end) ==
  [freq |-> frequency, interval |-> interval, byDay |-> byDay, byMonthDay |-> byMonthDay,
   byMonth |-> byMonth, end |-> end, foreign |-> FALSE]

RuleOK(r) == r.freq \in Frequencies /\ r.byDay \in Picker!ByDays \cup {None}

PickerInv ==
  /\ dueDate \in Dates \cup {Today, None}
  /\ schedule # None =>
       /\ dueDate \in Dates \cup {Today}
       /\ schedule = [rule |-> schedule.rule, start |-> schedule.start, enabled |-> schedule.enabled]
       /\ RuleOK(schedule.rule)

(* The parts of a date: a weekday, a place in the month, a month and its days. *)
LEMMA DateParts ==
  ASSUME NEW d \in Picker!Calendar
  PROVE  /\ d[2] \in 1..12 /\ d[3] \in 1..31
         /\ d[3] <= Picker!MonthLength(d[1], d[2]) /\ Picker!MonthLength(d[1], d[2]) \in 28..31
         /\ Picker!WeekdayOf(d) \in 0..6
<1>1. /\ d[1] \in 2027..2099 /\ d[2] \in 1..12 /\ d[3] \in 1..31
      /\ d[3] <= Picker!MonthLength(d[1], d[2])
  BY DEF Picker!Calendar
<1>2. Picker!MonthLength(d[1], d[2]) \in 28..31
  BY <1>1 DEF Picker!MonthLength
<1>3. Picker!YearDay(d) \in Int
  <2>1. <<0, 31, 59, 90, 120, 151, 181, 212, 243, 273, 304, 334>>[d[2]] \in Int
    BY <1>1
  <2> QED BY <1>1, <2>1 DEF Picker!YearDay
<1>4. Picker!WeekdayOf(d) \in 0..6
  <2> DEFINE years == 2027..(d[1] - 1)
             leaps == {y \in years : Picker!Leap(y)}
  <2>2. IsFiniteSet(years)
    <3> DEFINE from == 2027
               to == d[1] - 1
    <3>1. from \in Int /\ to \in Int
      BY <1>1
    <3> HIDE DEF from, to
    <3>2. IsFiniteSet(from..to)
      BY <3>1, FS_Interval
    <3> QED BY <3>2 DEF from, to
  <2>3. IsFiniteSet(leaps)
    <3>1. leaps \in SUBSET years
      OBVIOUS
    <3> HIDE DEF years, leaps
    <3> QED BY <2>2, <3>1, FS_Subset
  <2>4. Cardinality(years) \in Nat
    BY <2>2, FS_CardinalityType
  <2>5. Cardinality(leaps) \in Nat
    BY <2>3, FS_CardinalityType
  <2>6. \A S : Picker!Cardinality(S) = Cardinality(S)
    BY DEF Cardinality, Picker!Cardinality
  <2>7. Picker!WeekdayOf(d)
          = (3 + Cardinality(years) * 365 + Cardinality(leaps) + Picker!YearDay(d)) % 7
    BY <2>6 DEF Picker!WeekdayOf
  <2> HIDE DEF years, leaps
  <2> QED BY <1>3, <2>4, <2>5, <2>7
<1> QED BY <1>1, <1>2, <1>4

(* The fifth of a weekday is its last. *)
LEMMA MonthPlace ==
  ASSUME NEW d \in Picker!Calendar
  PROVE  /\ Picker!MonthPosition(d) \in {-1, 1, 2, 3, 4}
         /\ \/ Picker!MonthPosition(d) = (d[3] + 6) \div 7
            \/ Picker!MonthPosition(d) = -1 /\ d[3] + 7 > Picker!MonthLength(d[1], d[2])
<1>1. d[3] \in 1..31 /\ Picker!MonthLength(d[1], d[2]) \in 28..31
  BY DateParts
<1>2. (d[3] + 6) \div 7 \in 1..5 /\ ((d[3] + 6) \div 7 >= 5 => d[3] >= 29)
  BY <1>1
<1> QED BY <1>1, <1>2 DEF Picker!MonthPosition

(* The days that the editor writes are ones that a rule may hold. *)
LEMMA WrittenDays ==
  /\ \A days \in SUBSET (0..6) : Picker!Plain(days) \in Picker!ByDays
  /\ \A d \in Picker!Calendar :
       /\ Picker!Plain({Picker!WeekdayOf(d)}) \in Picker!ByDays
       /\ {Picker!NthWeekday(d)} \in Picker!ByDays
  /\ Picker!Plain(Picker!WorkWeek) \in Picker!ByDays
<1>1. \A days \in SUBSET (0..6) : Picker!Plain(days) \in Picker!ByDays
  BY DEF Picker!ByDays
<1>2. Picker!WorkWeek \in SUBSET (0..6)
  BY DEF Picker!WorkWeek
<1>3. ASSUME NEW d \in Picker!Calendar
      PROVE  /\ Picker!Plain({Picker!WeekdayOf(d)}) \in Picker!ByDays
             /\ {Picker!NthWeekday(d)} \in Picker!ByDays
  <2>1. Picker!WeekdayOf(d) \in 0..6 /\ Picker!MonthPosition(d) \in -1..4
    BY DateParts, MonthPlace
  <2> QED BY <1>1, <2>1 DEF Picker!ByDays, Picker!NthWeekday
<1> QED BY <1>1, <1>2, <1>3

(* Weekdays and the days of a rule determine each other. *)
LEMMA PlainSame ==
  ASSUME NEW S, NEW T, Picker!Plain(S) = Picker!Plain(T) PROVE S = T
<1>1. \A x : <<0, x>> \in Picker!Plain(S) <=> x \in S
  BY DEF Picker!Plain
<1>2. \A x : <<0, x>> \in Picker!Plain(T) <=> x \in T
  BY DEF Picker!Plain
<1> QED BY <1>1, <1>2

LEMMA PlainBack ==
  ASSUME NEW S PROVE /\ \A day \in Picker!Plain(S) : day[1] = 0
                     /\ {day[2] : day \in Picker!Plain(S)} = S
<1>1. \A day \in Picker!Plain(S) : day[1] = 0 /\ day[2] \in S
  BY DEF Picker!Plain
<1>2. \A x \in S : \E day \in Picker!Plain(S) : day[2] = x
  <2> TAKE x \in S
  <2>1. <<0, x>> \in Picker!Plain(S)
    BY DEF Picker!Plain
  <2> QED BY <2>1
<1> QED BY <1>1, <1>2

-----------------------------------------------------------------------------
(* The repeat picker: what the custom editor writes *)

LEMMA WrittenRules ==
  ASSUME NEW custom, NEW d
  PROVE  /\ custom.frequency = "DAILY" => Picker!BuildCustom(custom, d)
              = Built("DAILY", custom.interval, None, None, None, custom.end)
         /\ custom.frequency = "WEEKLY" => Picker!BuildCustom(custom, d)
              = Built("WEEKLY", custom.interval, Picker!Plain(custom.weekdays), None, None, custom.end)
         /\ custom.frequency = "MONTHLY" /\ custom.monthlyMode = "WEEKDAY" =>
              Picker!BuildCustom(custom, d)
              = Built("MONTHLY", custom.interval, {Picker!NthWeekday(d)}, None, None, custom.end)
         /\ custom.frequency = "MONTHLY" /\ custom.monthlyMode # "WEEKDAY" =>
              Picker!BuildCustom(custom, d)
              = Built("MONTHLY", custom.interval, None, d[3], None, custom.end)
         /\ custom.frequency = "YEARLY" => Picker!BuildCustom(custom, d)
              = Built("YEARLY", custom.interval, None, d[3], d[2], custom.end)
<1>1. CASE custom.frequency = "DAILY"
  BY <1>1 DEF Picker!BuildCustom, Picker!Bare, Built
<1>2. CASE custom.frequency = "WEEKLY"
  BY <1>2 DEF Picker!BuildCustom, Picker!Bare, Built
<1>3. CASE custom.frequency = "MONTHLY"
  BY <1>3 DEF Picker!BuildCustom, Picker!Bare, Built
<1>4. CASE custom.frequency = "YEARLY"
  BY <1>4 DEF Picker!BuildCustom, Picker!Bare, Built
<1> QED BY <1>1, <1>2, <1>3, <1>4

(* The presets, part by part. *)

LEMMA PresetParts ==
  ASSUME NEW d
  PROVE  /\ Picker!PresetRule("DAILY", d) = Built("DAILY", 1, None, None, None, "NEVER")
         /\ Picker!PresetRule("WEEKLY", d)
              = Built("WEEKLY", 1, Picker!Plain({Picker!WeekdayOf(d)}), None, None, "NEVER")
         /\ Picker!PresetRule("MONTHLY", d)
              = Built("MONTHLY", 1, {Picker!NthWeekday(d)}, None, None, "NEVER")
         /\ Picker!PresetRule("YEARLY", d) = Built("YEARLY", 1, None, d[3], d[2], "NEVER")
         /\ Picker!PresetRule("WEEKDAYS", d)
              = Built("WEEKLY", 1, Picker!Plain(Picker!WorkWeek), None, None, "NEVER")
BY DEF Picker!PresetRule, Picker!Bare, Built

LEMMA OneDayIsNoWeek ==
  \A d : Picker!Plain({Picker!WeekdayOf(d)}) # Picker!Plain(Picker!WorkWeek)
<1> TAKE d
<1>1. 0 \in Picker!WorkWeek /\ 1 \in Picker!WorkWeek
  BY DEF Picker!WorkWeek
<1>2. {Picker!WeekdayOf(d)} # Picker!WorkWeek
  BY <1>1
<1> QED BY <1>2, PlainSame

(* The editor opens on a preset as it is, and no two presets are the same rule. *)
LEMMA PresetsDiffer ==
  ASSUME CalendarOK, NEW d \in Picker!Calendar
  PROVE  /\ \A p \in Picker!Presets : Picker!Rebuilt(Picker!PresetRule(p, d), d) = Picker!PresetRule(p, d)
         /\ \A p, q \in Picker!Presets : Picker!PresetRule(p, d) = Picker!PresetRule(q, d) => p = q
<1>1. \A p \in Picker!Presets : Picker!Rebuilt(Picker!PresetRule(p, d), d) = Picker!PresetRule(p, d)
  <2>1. ASSUME NEW r, r = Built("DAILY", 1, None, None, None, "NEVER")
        PROVE  Picker!Rebuilt(r, d) = r
    <3>1. LET c == Picker!ParseCustom(r, d)
          IN c.frequency = "DAILY" /\ c.interval = 1 /\ c.end = "NEVER"
      BY <2>1 DEF Picker!ParseCustom, Built
    <3> QED BY <2>1, <3>1, WrittenRules DEF Picker!Rebuilt
  <2>2. ASSUME NEW days \in SUBSET (0..6), NEW r,
               r = Built("WEEKLY", 1, Picker!Plain(days), None, None, "NEVER")
        PROVE  Picker!Rebuilt(r, d) = r
    <3>1. Picker!Plain(days) # None
      BY WrittenDays DEF CalendarOK
    <3>2. LET c == Picker!ParseCustom(r, d)
          IN /\ c.frequency = "WEEKLY" /\ c.interval = 1 /\ c.end = "NEVER"
             /\ c.weekdays = {day[2] : day \in Picker!Plain(days)}
      BY <2>2, <3>1, PlainBack DEF Picker!ParseCustom, Built
    <3>3. {day[2] : day \in Picker!Plain(days)} = days
      BY PlainBack
    <3> QED BY <2>2, <3>2, <3>3, WrittenRules DEF Picker!Rebuilt
  <2>3. ASSUME NEW r, r = Built("MONTHLY", 1, {Picker!NthWeekday(d)}, None, None, "NEVER")
        PROVE  Picker!Rebuilt(r, d) = r
    <3>1. {Picker!NthWeekday(d)} # None
      BY WrittenDays DEF CalendarOK
    <3>2. LET c == Picker!ParseCustom(r, d)
          IN c.frequency = "MONTHLY" /\ c.interval = 1 /\ c.end = "NEVER" /\ c.monthlyMode = "WEEKDAY"
      BY <2>3, <3>1 DEF Picker!ParseCustom, Built
    <3> QED BY <2>3, <3>2, WrittenRules DEF Picker!Rebuilt
  <2>4. ASSUME NEW r, r = Built("YEARLY", 1, None, d[3], d[2], "NEVER")
        PROVE  Picker!Rebuilt(r, d) = r
    <3>1. LET c == Picker!ParseCustom(r, d)
          IN c.frequency = "YEARLY" /\ c.interval = 1 /\ c.end = "NEVER"
      BY <2>4 DEF Picker!ParseCustom, Built
    <3> QED BY <2>4, <3>1, WrittenRules DEF Picker!Rebuilt
  <2>5. {Picker!WeekdayOf(d)} \in SUBSET (0..6) /\ Picker!WorkWeek \in SUBSET (0..6)
    BY DateParts DEF Picker!WorkWeek
  <2> QED BY <2>1, <2>2, <2>3, <2>4, <2>5, PresetParts DEF Picker!Presets
<1>2. \A p, q \in Picker!Presets : Picker!PresetRule(p, d) = Picker!PresetRule(q, d) => p = q
  <2>1. Picker!Plain({Picker!WeekdayOf(d)}) # Picker!Plain(Picker!WorkWeek)
    BY OneDayIsNoWeek
  <2>3. Picker!PresetRule("DAILY", d).freq = "DAILY"
    BY DEF Picker!PresetRule, Picker!Bare
  <2>5. Picker!PresetRule("WEEKLY", d).freq = "WEEKLY"
    BY DEF Picker!PresetRule, Picker!Bare
  <2>6. Picker!PresetRule("WEEKDAYS", d).freq = "WEEKLY"
    BY DEF Picker!PresetRule, Picker!Bare
  <2>7. Picker!PresetRule("MONTHLY", d).freq = "MONTHLY"
    BY DEF Picker!PresetRule, Picker!Bare
  <2>8. Picker!PresetRule("YEARLY", d).freq = "YEARLY"
    BY DEF Picker!PresetRule, Picker!Bare
  <2>4. Picker!PresetRule("WEEKLY", d).byDay # Picker!PresetRule("WEEKDAYS", d).byDay
    BY <2>1, PresetParts DEF Built
  <2> QED BY <2>3, <2>4, <2>5, <2>6, <2>7, <2>8 DEF Picker!Presets
<1> QED BY <1>1, <1>2

(* The presets that a rule matches stay selected when all of them are matched after it. *)
Matching(r, d) ==
  {p \in Picker!Presets :
     Picker!Exact(r, d) /\ Picker!Rebuilt(Picker!PresetRule(p, d), d) = Picker!Rebuilt(r, d)}

LEMMA StaysSelected ==
  ASSUME CalendarOK, NEW d \in Picker!Calendar, NEW e \in Picker!Calendar, NEW r, NEW moved,
         Picker!Exact(moved, e),
         \A p \in Picker!Presets : Picker!PresetRule(p, d) = Picker!Rebuilt(r, d)
                                     => Picker!PresetRule(p, e) = Picker!Rebuilt(moved, e)
  PROVE  Picker!MatchPreset(r, d) \in {None, Picker!MatchPreset(moved, e)}
<1>1. ASSUME NEW p \in Matching(r, d) PROVE p \in Matching(moved, e)
  <2>1. p \in Picker!Presets /\ Picker!PresetRule(p, d) = Picker!Rebuilt(r, d)
    BY PresetsDiffer DEF Matching
  <2> QED BY <2>1, PresetsDiffer DEF Matching
<1>2. \A p, q \in Matching(moved, e) : p = q
  <2>1. \A p \in Matching(moved, e) :
          p \in Picker!Presets /\ Picker!PresetRule(p, e) = Picker!Rebuilt(moved, e)
    BY PresetsDiffer DEF Matching
  <2> QED BY <2>1, PresetsDiffer
<1>3. /\ Picker!MatchPreset(r, d)
           = IF Matching(r, d) = {} THEN None ELSE CHOOSE p \in Matching(r, d) : TRUE
      /\ Picker!MatchPreset(moved, e)
           = IF Matching(moved, e) = {} THEN None ELSE CHOOSE p \in Matching(moved, e) : TRUE
  BY Zenon DEF Picker!MatchPreset, Matching
<1>4. CASE Matching(r, d) = {}
  BY <1>3, <1>4
<1>5. CASE Matching(r, d) # {}
  <2>1. Matching(r, d) = Matching(moved, e)
    BY <1>1, <1>2, <1>5
  <2> QED BY <1>3, <2>1
<1> QED BY <1>4, <1>5

-----------------------------------------------------------------------------
(* The repeat picker: a rule moves with the due date *)

(* What a rule that is read off the due date turns into, by how often it repeats. *)
LEMMA DailyMoves ==
  ASSUME CalendarOK, NEW d \in Picker!Calendar, NEW e \in Picker!Calendar, d # e,
         NEW r, RuleOK(r), Picker!Exact(r, d), r.freq = "DAILY"
  PROVE  /\ Picker!RetargetRule(r, d, e) = r
         /\ Picker!Exact(r, e) /\ Picker!Occurs(r, e)
         /\ Picker!Rebuilt(r, d) = Built("DAILY", r.interval, None, None, None, r.end)
         /\ Picker!Rebuilt(r, e) = Picker!Rebuilt(r, d)
<1>1. Picker!ParseCustom(r, d).frequency = "DAILY"
  BY DEF Picker!ParseCustom
<1>2. Picker!RetargetRule(r, d, e) = r
  BY <1>1 DEF Picker!RetargetRule, Picker!RetargetWeekly
<1>3. Picker!Exact(r, e)
  BY DEF Picker!Exact
<1>4. Picker!Occurs(r, e)
  BY DEF Picker!Occurs
<1>5. ASSUME NEW x
      PROVE  Picker!Rebuilt(r, x) = Built("DAILY", r.interval, None, None, None, r.end)
  <2>1. LET c == Picker!ParseCustom(r, x)
        IN c.frequency = "DAILY" /\ c.interval = r.interval /\ c.end = r.end
    BY DEF Picker!ParseCustom
  <2> QED BY <2>1, WrittenRules DEF Picker!Rebuilt
<1> QED BY <1>2, <1>3, <1>4, <1>5

(* The days of the week that the editor shows for a weekly rule. *)
Weekdays(r, d) ==
  IF r.byDay # None THEN {day[2] : day \in r.byDay} ELSE {Picker!WeekdayOf(d)}

LEMMA WeeklyShown ==
  ASSUME NEW d, NEW r, Picker!Exact(r, d), r.freq = "WEEKLY"
  PROVE  LET c == Picker!ParseCustom(r, d)
         IN /\ c.frequency = "WEEKLY" /\ c.interval = r.interval /\ c.end = r.end
            /\ c.weekdays = Weekdays(r, d)
            /\ Picker!Rebuilt(r, d)
                 = Built("WEEKLY", r.interval, Picker!Plain(Weekdays(r, d)), None, None, r.end)
<1>1. r.byDay # None => \A day \in r.byDay : day[1] = 0
  BY DEF Picker!Exact
<1>2. LET c == Picker!ParseCustom(r, d)
      IN /\ c.frequency = "WEEKLY" /\ c.interval = r.interval /\ c.end = r.end
         /\ c.weekdays = Weekdays(r, d)
  BY <1>1 DEF Picker!ParseCustom, Weekdays
<1> QED BY <1>2, WrittenRules DEF Picker!Rebuilt

LEMMA OneDayMoves ==
  ASSUME CalendarOK, NEW d \in Picker!Calendar, NEW e \in Picker!Calendar, d # e,
         NEW r, RuleOK(r), Picker!Exact(r, d), r.freq = "WEEKLY",
         Weekdays(r, d) = {Picker!WeekdayOf(d)},
         NEW moved, moved = Picker!RetargetRule(r, d, e)
  PROVE  /\ moved = Built("WEEKLY", r.interval, Picker!Plain({Picker!WeekdayOf(e)}), None, None, r.end)
         /\ Picker!Exact(moved, e) /\ Picker!Occurs(moved, e)
         /\ Picker!Rebuilt(moved, e) = moved
<1> DEFINE c == Picker!ParseCustom(r, d)
           there == {Picker!WeekdayOf(e)}
           n == [c EXCEPT !.weekdays = there]
<1>1. c.frequency = "WEEKLY" /\ c.weekdays = {Picker!WeekdayOf(d)}
  BY WeeklyShown
<1>2. /\ n.frequency = "WEEKLY" /\ n.interval = r.interval /\ n.end = r.end
      /\ n.weekdays = there
  BY DEF Picker!ParseCustom
<1>3. moved = Picker!BuildCustom(n, e)
  BY <1>1, Zenon DEF Picker!RetargetRule, Picker!RetargetWeekly
<1> HIDE DEF c, n
<1>4. moved = Built("WEEKLY", r.interval, Picker!Plain(there), None, None, r.end)
  BY <1>2, <1>3, WrittenRules
<1> HIDE DEF there
<1>5. /\ moved.freq = "WEEKLY" /\ moved.byDay = Picker!Plain(there) /\ ~moved.foreign
      /\ moved.byMonthDay = None /\ moved.byMonth = None
      /\ moved.interval = r.interval /\ moved.end = r.end
  BY <1>4 DEF Built
<1>6. Picker!Plain(there) # None
  BY WrittenDays DEF CalendarOK, there
<1>7. Picker!Exact(moved, e)
  BY <1>5, PlainBack DEF Picker!Exact
<1>8. <<0, Picker!WeekdayOf(e)>> \in Picker!Plain(there)
  BY DEF Picker!Plain, there
<1>9. Picker!Occurs(moved, e)
  BY <1>5, <1>8 DEF Picker!Occurs
<1>10. Weekdays(moved, e) = there
  BY <1>5, <1>6, PlainBack DEF Weekdays
<1>11. Picker!Rebuilt(moved, e) = moved
  BY <1>4, <1>5, <1>7, <1>10, WeeklyShown
<1> QED BY <1>4, <1>7, <1>9, <1>11 DEF there

LEMMA FiniteDays == ASSUME NEW days \in Picker!ByDays PROVE IsFiniteSet(days)
<1>1. IsFiniteSet((-1..4) \X (0..6))
  <2> DEFINE lowest == -1
             none == 0
             highest == 4
             final == 6
  <2>1. lowest \in Int /\ none \in Int /\ highest \in Int /\ final \in Int
    OBVIOUS
  <2> HIDE DEF lowest, none, highest, final
  <2>2. IsFiniteSet(lowest..highest)
    BY <2>1, FS_Interval
  <2>3. IsFiniteSet(none..final)
    BY <2>1, FS_Interval
  <2>4. IsFiniteSet((lowest..highest) \X (none..final))
    BY <2>2, <2>3, FS_Product
  <2> QED BY <2>4 DEF lowest, none, highest, final
<1>2. days \in SUBSET ((-1..4) \X (0..6))
  BY DEF Picker!ByDays, Picker!Plain
<1> QED BY <1>1, <1>2, FS_Subset

(* Days of the week that are not the one of the due date stay, and they are several *)
(* if the due date is one of them.                                                    *)
LEMMA SeveralDaysStay ==
  ASSUME CalendarOK, NEW d \in Picker!Calendar, NEW e \in Picker!Calendar, d # e,
         NEW r, RuleOK(r), Picker!Exact(r, d), r.freq = "WEEKLY",
         Weekdays(r, d) # {Picker!WeekdayOf(d)}
  PROVE  /\ Picker!RetargetRule(r, d, e) = r
         /\ Picker!Exact(r, e)
         /\ Picker!Occurs(r, d) => Picker!Cardinality(r.byDay) > 1
         /\ Weekdays(r, e) = Weekdays(r, d)
         /\ Picker!Rebuilt(r, e) = Picker!Rebuilt(r, d)
<1> DEFINE c == Picker!ParseCustom(r, d)
<1>1. c.frequency = "WEEKLY" /\ c.weekdays = Weekdays(r, d)
  BY WeeklyShown
<1>2. Picker!RetargetRule(r, d, e) = r
  BY <1>1 DEF Picker!RetargetRule, Picker!RetargetWeekly
<1>3. r.byDay # None
  BY DEF Weekdays
<1>4. Picker!Exact(r, e)
  BY DEF Picker!Exact
<1>5. Weekdays(r, e) = Weekdays(r, d)
  BY <1>3 DEF Weekdays
<1>6. ASSUME Picker!Occurs(r, d) PROVE Picker!Cardinality(r.byDay) > 1
  <2> DEFINE here == <<0, Picker!WeekdayOf(d)>>
  <2>1. here \in r.byDay
    BY <1>3, <1>6 DEF Picker!Occurs
  <2>2. r.byDay # {here}
    <3>1. ASSUME r.byDay = {here} PROVE FALSE
      <4>1. {day[2] : day \in {here}} = {here[2]} /\ here[2] = Picker!WeekdayOf(d)
        OBVIOUS
      <4>2. {day[2] : day \in r.byDay} = {Picker!WeekdayOf(d)}
        BY <3>1, <4>1
      <4> QED BY <1>3, <4>2 DEF Weekdays
    <3> QED BY <3>1
  <2>3. PICK other \in r.byDay : other # here
    BY <2>1, <2>2
  <2>4. IsFiniteSet(r.byDay)
    BY <1>3, FiniteDays DEF RuleOK
  <2>5. Cardinality({here, other}) = 2
    <3>1. IsFiniteSet({here}) /\ Cardinality({here}) = 1
      BY FS_Singleton
    <3>2. Cardinality({here} \cup {other}) = 2
      BY <2>3, <3>1, FS_AddElement
    <3>3. {here} \cup {other} = {here, other}
      OBVIOUS
    <3> QED BY <3>2, <3>3
  <2>6. {here, other} \in SUBSET r.byDay
    BY <2>1, <2>3
  <2>7. Cardinality({here, other}) <= Cardinality(r.byDay) /\ Cardinality(r.byDay) \in Nat
    BY <2>4, <2>6, FS_Subset, FS_CardinalityType
  <2>8. Picker!Cardinality(r.byDay) = Cardinality(r.byDay)
    BY DEF Cardinality, Picker!Cardinality
  <2> QED BY <2>5, <2>7, <2>8
<1>7. Picker!Rebuilt(r, e) = Picker!Rebuilt(r, d)
  BY <1>4, <1>5, WeeklyShown
<1> QED BY <1>2, <1>4, <1>5, <1>6, <1>7

LEMMA MonthlyShown ==
  ASSUME NEW d, NEW r, r.freq = "MONTHLY"
  PROVE  LET c == Picker!ParseCustom(r, d)
         IN /\ c.frequency = "MONTHLY" /\ c.interval = r.interval /\ c.end = r.end
            /\ r.byDay # None <=> c.monthlyMode = "WEEKDAY"
BY DEF Picker!ParseCustom

(* The one day of a rule for a weekday of the month. *)
NthDays(d) == {Picker!NthWeekday(d)}

LEMMA WeekdayOfMonthMoves ==
  ASSUME CalendarOK, NEW d \in Picker!Calendar, NEW e \in Picker!Calendar, d # e,
         NEW r, Picker!Exact(r, d), r.freq = "MONTHLY", r.byDay # None,
         NEW moved, moved = Picker!RetargetRule(r, d, e)
  PROVE  /\ moved = Built("MONTHLY", r.interval, NthDays(e), None, None, r.end)
         /\ Picker!Exact(moved, e) /\ Picker!Occurs(moved, e)
         /\ Picker!Rebuilt(moved, e) = moved
         /\ Picker!Rebuilt(r, d)
              = Built("MONTHLY", r.interval, NthDays(d), None, None, r.end)
<1> DEFINE c == Picker!ParseCustom(r, d)
           there == {Picker!NthWeekday(e)}
<1>1. /\ c.frequency = "MONTHLY" /\ c.interval = r.interval /\ c.end = r.end
      /\ c.monthlyMode = "WEEKDAY"
  BY MonthlyShown
<1>2. moved = Picker!BuildCustom(c, e)
  BY <1>1, Zenon DEF Picker!RetargetRule
<1>3. Picker!Rebuilt(r, d) = Picker!BuildCustom(c, d)
  BY Zenon DEF Picker!Rebuilt
<1> HIDE DEF c
<1>4. moved = Built("MONTHLY", r.interval, there, None, None, r.end)
  BY <1>1, <1>2, WrittenRules
<1>5. Picker!Rebuilt(r, d) = Built("MONTHLY", r.interval, {Picker!NthWeekday(d)}, None, None, r.end)
  BY <1>1, <1>3, WrittenRules
<1>6. there # None
  BY WrittenDays DEF CalendarOK
<1> HIDE DEF there
<1>7. /\ moved.freq = "MONTHLY" /\ moved.byDay = there /\ ~moved.foreign
      /\ moved.byMonthDay = None /\ moved.byMonth = None
      /\ moved.interval = r.interval /\ moved.end = r.end
  BY <1>4 DEF Built
<1>8. Picker!Exact(moved, e)
  BY <1>6, <1>7 DEF Picker!Exact, there
<1>9. \/ <<(e[3] + 6) \div 7, Picker!WeekdayOf(e)>> \in there
      \/ <<-1, Picker!WeekdayOf(e)>> \in there /\ e[3] + 7 > Picker!MonthLength(e[1], e[2])
  BY MonthPlace DEF Picker!NthWeekday, there
<1>10. Picker!Occurs(moved, e)
  BY <1>7, <1>9 DEF Picker!Occurs
<1>11. Picker!Rebuilt(moved, e) = moved
  <2> DEFINE k == Picker!ParseCustom(moved, e)
  <2>1. /\ k.frequency = "MONTHLY" /\ k.interval = r.interval /\ k.end = r.end
        /\ k.monthlyMode = "WEEKDAY"
    BY <1>6, <1>7, MonthlyShown
  <2>2. Picker!Rebuilt(moved, e) = Picker!BuildCustom(k, e)
    BY Zenon DEF Picker!Rebuilt
  <2> HIDE DEF k
  <2> QED BY <1>4, <2>1, <2>2, WrittenRules DEF there
<1> QED BY <1>4, <1>5, <1>8, <1>10, <1>11 DEF there, NthDays

LEMMA DayOfMonthMoves ==
  ASSUME CalendarOK, NEW d \in Picker!Calendar, NEW e \in Picker!Calendar, d # e,
         NEW r, Picker!Exact(r, d), r.freq = "MONTHLY", r.byDay = None,
         NEW moved, moved = Picker!RetargetRule(r, d, e)
  PROVE  /\ moved = Built("MONTHLY", r.interval, None, e[3], None, r.end)
         /\ Picker!Exact(moved, e) /\ Picker!Occurs(moved, e)
         /\ Picker!Rebuilt(r, d) = Built("MONTHLY", r.interval, None, d[3], None, r.end)
<1> DEFINE c == Picker!ParseCustom(r, d)
<1>1. /\ c.frequency = "MONTHLY" /\ c.interval = r.interval /\ c.end = r.end
      /\ c.monthlyMode # "WEEKDAY"
  BY MonthlyShown
<1>2. moved = Picker!BuildCustom(c, e)
  BY <1>1, Zenon DEF Picker!RetargetRule
<1>3. Picker!Rebuilt(r, d) = Picker!BuildCustom(c, d)
  BY Zenon DEF Picker!Rebuilt
<1> HIDE DEF c
<1>4. moved = Built("MONTHLY", r.interval, None, e[3], None, r.end)
  BY <1>1, <1>2, WrittenRules
<1>5. Picker!Rebuilt(r, d) = Built("MONTHLY", r.interval, None, d[3], None, r.end)
  BY <1>1, <1>3, WrittenRules
<1>6. /\ moved.freq = "MONTHLY" /\ moved.byDay = None /\ ~moved.foreign
      /\ moved.byMonthDay = e[3] /\ moved.byMonth = None
  BY <1>4 DEF Built
<1>7. Picker!Exact(moved, e)
  BY <1>6 DEF Picker!Exact
<1>8. Picker!Occurs(moved, e)
  BY <1>6 DEF Picker!Occurs
<1> QED BY <1>4, <1>5, <1>7, <1>8

LEMMA YearlyMoves ==
  ASSUME CalendarOK, NEW d \in Picker!Calendar, NEW e \in Picker!Calendar, d # e,
         NEW r, Picker!Exact(r, d), r.freq = "YEARLY",
         NEW moved, moved = Picker!RetargetRule(r, d, e)
  PROVE  /\ moved = Built("YEARLY", r.interval, None, e[3], e[2], r.end)
         /\ Picker!Exact(moved, e) /\ Picker!Occurs(moved, e)
         /\ Picker!Rebuilt(moved, e) = moved
         /\ Picker!Rebuilt(r, d) = Built("YEARLY", r.interval, None, d[3], d[2], r.end)
<1> DEFINE c == Picker!ParseCustom(r, d)
<1>1. c.frequency = "YEARLY" /\ c.interval = r.interval /\ c.end = r.end
  BY DEF Picker!ParseCustom
<1>2. moved = Picker!BuildCustom(c, e)
  BY <1>1, Zenon DEF Picker!RetargetRule
<1>3. Picker!Rebuilt(r, d) = Picker!BuildCustom(c, d)
  BY Zenon DEF Picker!Rebuilt
<1> HIDE DEF c
<1>4. moved = Built("YEARLY", r.interval, None, e[3], e[2], r.end)
  BY <1>1, <1>2, WrittenRules
<1>5. Picker!Rebuilt(r, d) = Built("YEARLY", r.interval, None, d[3], d[2], r.end)
  BY <1>1, <1>3, WrittenRules
<1>6. /\ moved.freq = "YEARLY" /\ moved.byDay = None /\ ~moved.foreign
      /\ moved.byMonthDay = e[3] /\ moved.byMonth = e[2]
      /\ moved.interval = r.interval /\ moved.end = r.end
  BY <1>4 DEF Built
<1>7. Picker!Exact(moved, e)
  BY <1>6 DEF Picker!Exact
<1>8. Picker!Occurs(moved, e)
  BY <1>6 DEF Picker!Occurs
<1>9. Picker!Rebuilt(moved, e) = moved
  <2> DEFINE k == Picker!ParseCustom(moved, e)
  <2>1. k.frequency = "YEARLY" /\ k.interval = r.interval /\ k.end = r.end
    BY <1>6 DEF Picker!ParseCustom
  <2>2. Picker!Rebuilt(moved, e) = Picker!BuildCustom(k, e)
    BY Zenon DEF Picker!Rebuilt
  <2> HIDE DEF k
  <2> QED BY <1>4, <2>1, <2>2, WrittenRules
<1> QED BY <1>4, <1>5, <1>7, <1>8, <1>9

(* What is known of a rule that is the same as a preset. *)
LEMMA PresetOf ==
  ASSUME NEW d, NEW p \in Picker!Presets, NEW w, w = Picker!PresetRule(p, d)
  PROVE  /\ w.interval = 1 /\ w.end = "NEVER"
         /\ \/ p = "DAILY" /\ w.freq = "DAILY"
            \/ p = "WEEKLY" /\ w.freq = "WEEKLY" /\ w.byDay = Picker!Plain({Picker!WeekdayOf(d)})
            \/ p = "MONTHLY" /\ w.freq = "MONTHLY" /\ w.byDay = NthDays(d)
            \/ p = "YEARLY" /\ w.freq = "YEARLY"
            \/ p = "WEEKDAYS" /\ w.freq = "WEEKLY" /\ w.byDay = Picker!Plain(Picker!WorkWeek)
<1>1. CASE p = "DAILY"
  BY <1>1 DEF Picker!PresetRule, Picker!Bare
<1>2. CASE p = "WEEKLY"
  BY <1>2 DEF Picker!PresetRule, Picker!Bare
<1>3. CASE p = "MONTHLY"
  BY <1>3 DEF Picker!PresetRule, Picker!Bare, NthDays
<1>4. CASE p = "YEARLY"
  BY <1>4 DEF Picker!PresetRule, Picker!Bare
<1>5. CASE p = "WEEKDAYS"
  BY <1>5 DEF Picker!PresetRule, Picker!Bare
<1> QED BY <1>1, <1>2, <1>3, <1>4, <1>5 DEF Picker!Presets

(* The whole of RuleFollowsDate for one rule and two dates. *)
RuleFollows(r, moved, d, e) ==
  /\ Picker!MatchPreset(r, d) \in {None, Picker!MatchPreset(moved, e)}
  /\ moved.interval = r.interval /\ moved.end = r.end
  /\ Picker!Exact(moved, e)
  /\ \/ Picker!Occurs(r, d) => Picker!Occurs(moved, e)
     \/ Picker!Cardinality(r.byDay) > 1

LEMMA RuleMoves ==
  ASSUME CalendarOK, NEW d \in Picker!Calendar, NEW e \in Picker!Calendar, d # e,
         NEW r, RuleOK(r), Picker!Exact(r, d),
         NEW moved, moved = Picker!RetargetRule(r, d, e)
  PROVE  RuleFollows(r, moved, d, e)
<1> DEFINE Kept == \A p \in Picker!Presets : Picker!PresetRule(p, d) = Picker!Rebuilt(r, d)
                                             => Picker!PresetRule(p, e) = Picker!Rebuilt(moved, e)
<1>1. ASSUME Picker!Exact(moved, e), Kept
      PROVE  Picker!MatchPreset(r, d) \in {None, Picker!MatchPreset(moved, e)}
  BY <1>1, StaysSelected
<1> HIDE DEF Kept
<1>2. CASE r.freq = "DAILY"
  <2>1. /\ moved = r /\ Picker!Exact(r, e) /\ Picker!Occurs(r, e)
        /\ Picker!Rebuilt(r, d) = Built("DAILY", r.interval, None, None, None, r.end)
        /\ Picker!Rebuilt(r, e) = Picker!Rebuilt(r, d)
    BY <1>2, DailyMoves
  <2>2. ASSUME NEW p \in Picker!Presets, Picker!PresetRule(p, d) = Picker!Rebuilt(r, d)
        PROVE  p = "DAILY"
    <3> DEFINE w == Picker!Rebuilt(r, d)
    <3>1. w.freq = "DAILY" /\ w.interval = r.interval /\ w.end = r.end
      BY <2>1 DEF Built
    <3>2. w = Picker!PresetRule(p, d) /\ p \in Picker!Presets
      BY <2>2
    <3> HIDE DEF w
    <3> QED BY <3>1, <3>2, PresetOf
  <2>3. Picker!PresetRule("DAILY", e) = Picker!PresetRule("DAILY", d)
    BY PresetParts
  <2>4. Kept
    BY <2>1, <2>2, <2>3 DEF Kept
  <2> QED BY <1>1, <2>1, <2>4 DEF RuleFollows
<1>3. CASE r.freq = "WEEKLY" /\ Weekdays(r, d) = {Picker!WeekdayOf(d)}
  <2>1. /\ moved = Built("WEEKLY", r.interval, Picker!Plain({Picker!WeekdayOf(e)}), None, None, r.end)
        /\ Picker!Exact(moved, e) /\ Picker!Occurs(moved, e) /\ Picker!Rebuilt(moved, e) = moved
    BY <1>3, OneDayMoves
  <2>2. Picker!Rebuilt(r, d)
          = Built("WEEKLY", r.interval, Picker!Plain({Picker!WeekdayOf(d)}), None, None, r.end)
    BY <1>3, WeeklyShown
  <2>3. ASSUME NEW p \in Picker!Presets, Picker!PresetRule(p, d) = Picker!Rebuilt(r, d)
        PROVE  p = "WEEKLY" /\ r.interval = 1 /\ r.end = "NEVER"
    <3>1. Picker!Plain({Picker!WeekdayOf(d)}) # Picker!Plain(Picker!WorkWeek)
      BY OneDayIsNoWeek
    <3> QED BY <2>2, <2>3, <3>1, PresetOf DEF Built
  <2>4. Kept
    BY <2>1, <2>3, PresetParts DEF Kept
  <2>5. moved.interval = r.interval /\ moved.end = r.end
    BY <2>1 DEF Built
  <2> QED BY <1>1, <2>1, <2>4, <2>5 DEF RuleFollows
<1>4. CASE r.freq = "WEEKLY" /\ Weekdays(r, d) # {Picker!WeekdayOf(d)}
  <2>1. /\ moved = r /\ Picker!Exact(r, e)
        /\ Picker!Occurs(r, d) => Picker!Cardinality(r.byDay) > 1
        /\ Picker!Rebuilt(r, e) = Picker!Rebuilt(r, d)
    BY <1>4, SeveralDaysStay
  <2>2. Picker!Rebuilt(r, d)
          = Built("WEEKLY", r.interval, Picker!Plain(Weekdays(r, d)), None, None, r.end)
    BY <1>4, WeeklyShown
  <2>3. ASSUME NEW p \in Picker!Presets, Picker!PresetRule(p, d) = Picker!Rebuilt(r, d)
        PROVE  p = "WEEKDAYS"
    <3>1. Picker!Plain(Weekdays(r, d)) # Picker!Plain({Picker!WeekdayOf(d)})
      BY <1>4, PlainSame
    <3> QED BY <2>2, <2>3, <3>1, PresetOf DEF Built
  <2>4. Picker!PresetRule("WEEKDAYS", e) = Picker!PresetRule("WEEKDAYS", d)
    BY PresetParts
  <2>5. Kept
    BY <2>1, <2>3, <2>4 DEF Kept
  <2> QED BY <1>1, <2>1, <2>5 DEF RuleFollows
<1>5. CASE r.freq = "MONTHLY" /\ r.byDay # None
  <2>1. /\ moved = Built("MONTHLY", r.interval, NthDays(e), None, None, r.end)
        /\ Picker!Exact(moved, e) /\ Picker!Occurs(moved, e) /\ Picker!Rebuilt(moved, e) = moved
        /\ Picker!Rebuilt(r, d)
             = Built("MONTHLY", r.interval, NthDays(d), None, None, r.end)
    BY <1>5, WeekdayOfMonthMoves
  <2>2. ASSUME NEW p \in Picker!Presets, Picker!PresetRule(p, d) = Picker!Rebuilt(r, d)
        PROVE  p = "MONTHLY" /\ r.interval = 1 /\ r.end = "NEVER"
    <3> DEFINE w == Picker!Rebuilt(r, d)
    <3>1. w.freq = "MONTHLY" /\ w.interval = r.interval /\ w.end = r.end
      BY <2>1 DEF Built
    <3>2. w = Picker!PresetRule(p, d) /\ p \in Picker!Presets
      BY <2>2
    <3> HIDE DEF w
    <3> QED BY <3>1, <3>2, PresetOf
  <2>3. Kept
    BY <2>1, <2>2, PresetParts DEF Kept, NthDays
  <2>4. moved.interval = r.interval /\ moved.end = r.end
    BY <2>1 DEF Built
  <2> QED BY <1>1, <2>1, <2>3, <2>4 DEF RuleFollows
<1>6. CASE r.freq = "MONTHLY" /\ r.byDay = None
  <2>1. /\ moved = Built("MONTHLY", r.interval, None, e[3], None, r.end)
        /\ Picker!Exact(moved, e) /\ Picker!Occurs(moved, e)
        /\ Picker!Rebuilt(r, d) = Built("MONTHLY", r.interval, None, d[3], None, r.end)
    BY <1>6, DayOfMonthMoves
  <2>2. ASSUME NEW p \in Picker!Presets, Picker!PresetRule(p, d) = Picker!Rebuilt(r, d)
        PROVE  FALSE
    <3>1. NthDays(d) # None
      BY WrittenDays DEF CalendarOK, NthDays
    <3> DEFINE w == Picker!Rebuilt(r, d)
    <3>2. w.freq = "MONTHLY"
      BY <2>1 DEF Built
    <3>5. w.byDay = None
      BY <2>1 DEF Built
    <3>3. w = Picker!PresetRule(p, d) /\ p \in Picker!Presets
      BY <2>2
    <3> HIDE DEF w
    <3>4. p = "MONTHLY"
      BY <3>2, <3>3, PresetOf
    <3>6. Picker!PresetRule("MONTHLY", d).byDay = NthDays(d)
      BY DEF Picker!PresetRule, Picker!Bare, NthDays
    <3>7. w.byDay = NthDays(d)
      BY <3>3, <3>4, <3>6
    <3> QED BY <3>1, <3>5, <3>7
  <2>3. Kept
    BY <2>2 DEF Kept
  <2>4. moved.interval = r.interval /\ moved.end = r.end
    BY <2>1 DEF Built
  <2> QED BY <1>1, <2>1, <2>3, <2>4 DEF RuleFollows
<1>7. CASE r.freq = "YEARLY"
  <2>1. /\ moved = Built("YEARLY", r.interval, None, e[3], e[2], r.end)
        /\ Picker!Exact(moved, e) /\ Picker!Occurs(moved, e) /\ Picker!Rebuilt(moved, e) = moved
        /\ Picker!Rebuilt(r, d) = Built("YEARLY", r.interval, None, d[3], d[2], r.end)
    BY <1>7, YearlyMoves
  <2>2. ASSUME NEW p \in Picker!Presets, Picker!PresetRule(p, d) = Picker!Rebuilt(r, d)
        PROVE  p = "YEARLY" /\ r.interval = 1 /\ r.end = "NEVER"
    <3> DEFINE w == Picker!Rebuilt(r, d)
    <3>1. w.freq = "YEARLY" /\ w.interval = r.interval /\ w.end = r.end
      BY <2>1 DEF Built
    <3>2. w = Picker!PresetRule(p, d) /\ p \in Picker!Presets
      BY <2>2
    <3> HIDE DEF w
    <3> QED BY <3>1, <3>2, PresetOf
  <2>3. Kept
    BY <2>1, <2>2, PresetParts DEF Kept
  <2>4. moved.interval = r.interval /\ moved.end = r.end
    BY <2>1 DEF Built
  <2> QED BY <1>1, <2>1, <2>3, <2>4 DEF RuleFollows
<1> QED BY <1>2, <1>3, <1>4, <1>5, <1>6, <1>7 DEF RuleOK, Frequencies

-----------------------------------------------------------------------------
(* The repeat picker: the form *)

LEMMA RetargetedOK ==
  ASSUME CalendarOK, NEW d \in Picker!Calendar, NEW e \in Picker!Calendar,
         NEW r, RuleOK(r)
  PROVE  RuleOK(Picker!RetargetRule(r, d, e))
<1> DEFINE moved == Picker!RetargetRule(r, d, e)
<1>1. CASE d = e \/ ~Picker!Exact(r, d)
  BY <1>1 DEF Picker!RetargetRule, Picker!RetargetWeekly
<1>2. CASE d # e /\ Picker!Exact(r, d)
  <2>1. CASE r.freq = "DAILY"
    BY <1>2, <2>1, DailyMoves
  <2>2. CASE r.freq = "WEEKLY" /\ Weekdays(r, d) = {Picker!WeekdayOf(d)}
    <3>1. moved = Built("WEEKLY", r.interval, Picker!Plain({Picker!WeekdayOf(e)}), None, None, r.end)
      BY <1>2, <2>2, OneDayMoves
    <3> HIDE DEF moved
    <3>2. moved.freq = "WEEKLY" /\ moved.byDay = Picker!Plain({Picker!WeekdayOf(e)})
      BY <3>1 DEF Built
    <3> QED BY <3>2, WrittenDays DEF RuleOK, Frequencies, moved
  <2>3. CASE r.freq = "WEEKLY" /\ Weekdays(r, d) # {Picker!WeekdayOf(d)}
    BY <1>2, <2>3, SeveralDaysStay
  <2>4. CASE r.freq = "MONTHLY" /\ r.byDay # None
    <3>1. moved = Built("MONTHLY", r.interval, NthDays(e), None, None, r.end)
      BY <1>2, <2>4, WeekdayOfMonthMoves
    <3> HIDE DEF moved
    <3>2. moved.freq = "MONTHLY" /\ moved.byDay = NthDays(e)
      BY <3>1 DEF Built
    <3> QED BY <3>2, WrittenDays DEF RuleOK, Frequencies, moved, NthDays
  <2>5. CASE r.freq = "MONTHLY" /\ r.byDay = None
    <3>1. moved = Built("MONTHLY", r.interval, None, e[3], None, r.end)
      BY <1>2, <2>5, DayOfMonthMoves
    <3> HIDE DEF moved
    <3>2. moved.freq = "MONTHLY" /\ moved.byDay = None
      BY <3>1 DEF Built
    <3> QED BY <3>2 DEF RuleOK, Frequencies, moved
  <2>6. CASE r.freq = "YEARLY"
    <3>1. moved = Built("YEARLY", r.interval, None, e[3], e[2], r.end)
      BY <1>2, <2>6, YearlyMoves
    <3> HIDE DEF moved
    <3>2. moved.freq = "YEARLY" /\ moved.byDay = None
      BY <3>1 DEF Built
    <3> QED BY <3>2 DEF RuleOK, Frequencies, moved
  <2> QED BY <2>1, <2>2, <2>3, <2>4, <2>5, <2>6 DEF RuleOK, Frequencies
<1> QED BY <1>1, <1>2

(* What the form may apply is a rule that the editor reads. *)
LEMMA AppliedOK ==
  ASSUME CalendarOK, NEW d \in Picker!Calendar
  PROVE  /\ \A p \in Picker!Presets : RuleOK(Picker!PresetRule(p, d))
         /\ \A custom \in Picker!Customs : RuleOK(Picker!BuildCustom(custom, d))
<1>0. \A f, i, days, n, m, ends :
        f \in Frequencies /\ days \in Picker!ByDays \cup {None} => RuleOK(Built(f, i, days, n, m, ends))
  BY DEF RuleOK, Built
<1>1. ASSUME NEW p \in Picker!Presets PROVE RuleOK(Picker!PresetRule(p, d))
  <2>1. /\ Picker!Plain({Picker!WeekdayOf(d)}) \in Picker!ByDays
        /\ {Picker!NthWeekday(d)} \in Picker!ByDays
        /\ Picker!Plain(Picker!WorkWeek) \in Picker!ByDays
    BY WrittenDays
  <2> QED BY <1>0, <2>1, PresetParts DEF Picker!Presets, Frequencies
<1>2. ASSUME NEW custom \in Picker!Customs PROVE RuleOK(Picker!BuildCustom(custom, d))
  <2>1. /\ custom.frequency \in Frequencies
        /\ custom.weekdays \in SUBSET (0..6)
    BY DEF Picker!Customs, Frequencies, Picker!WorkWeek
  <2>2. Picker!Plain(custom.weekdays) \in Picker!ByDays /\ {Picker!NthWeekday(d)} \in Picker!ByDays
    BY <2>1, WrittenDays
  <2> QED BY <1>0, <2>1, <2>2, WrittenRules DEF Frequencies
<1> QED BY <1>1, <1>2

LEMMA PickerInit == ASSUME CalendarOK, Picker!Init PROVE PickerInv
<1>1. CASE schedule = None
  BY <1>1 DEF PickerInv, Picker!Init
<1>2. CASE schedule # None
  <2> DEFINE first == [Picker!Bare("WEEKLY", 1, "NEVER") EXCEPT !.foreign = TRUE]
             second == [Picker!Bare("MONTHLY", 2, "COUNT") EXCEPT !.byDay = {<<-1, 4>>}]
             third == Picker!Bare("MONTHLY", 1, "NEVER")
  <2>1. dueDate \in Dates /\ schedule \in [rule : {first, second, third}, start : {dueDate}, enabled : {TRUE}]
    BY <1>2 DEF Picker!Init
  <2>2. RuleOK(first)
    BY DEF RuleOK, Frequencies, Picker!Bare
  <2>3. RuleOK(second)
    <3>1. {<<-1, 4>>} \in Picker!ByDays
      <4>1. -1 \in -1..4 /\ 4 \in 0..6
        OBVIOUS
      <4> QED BY <4>1 DEF Picker!ByDays
    <3>2. second.freq = "MONTHLY" /\ second.byDay = {<<-1, 4>>}
      BY DEF Picker!Bare
    <3> QED BY <3>1, <3>2 DEF RuleOK, Frequencies
  <2>4. RuleOK(third)
    BY DEF RuleOK, Frequencies, Picker!Bare
  <2> HIDE DEF first, second, third
  <2>5. RuleOK(schedule.rule)
    BY <2>1, <2>2, <2>3, <2>4
  <2>6. schedule = [rule |-> schedule.rule, start |-> schedule.start, enabled |-> schedule.enabled]
    BY <2>1
  <2> QED BY <2>1, <2>5, <2>6 DEF PickerInv
<1> QED BY <1>1, <1>2

(* The date of a schedule is one of the calendar, and the date that a rule is read from *)
(* is the due date as soon as there is one.                                              *)
LEMMA ApplyKeeps ==
  ASSUME CalendarOK, PickerInv, NEW r, RuleOK(r), Picker!Apply(r)
  PROVE  PickerInv' /\ (schedule # None => dueDate' = dueDate)
<1>1. schedule # None => Picker!Anchor = dueDate
  BY DEF PickerInv, CalendarOK, Picker!Anchor
<1>2. Picker!Anchor \in Dates \cup {Today}
  BY <1>1 DEF PickerInv, Picker!Anchor
<1> QED BY <1>1, <1>2 DEF PickerInv, Picker!Apply

(* A step that moves the due date of a schedule retargets its rule. *)
Retargets ==
  dueDate' # dueDate /\ schedule # None /\ schedule' # None =>
    /\ dueDate \in Picker!Calendar /\ dueDate' \in Picker!Calendar
    /\ RuleOK(schedule.rule)
    /\ schedule'.rule = Picker!RetargetRule(schedule.rule, dueDate, dueDate')

(* A date that is picked carries the rule along, and the rule stays one that is read. *)
LEMMA PickKeeps ==
  ASSUME CalendarOK, PickerInv, NEW e \in Dates \cup {None}, Picker!PickDate(e)
  PROVE  PickerInv' /\ Retargets
<1>1. CASE schedule = None \/ e = None
  BY <1>1 DEF Picker!PickDate, PickerInv, CalendarOK, Retargets
<1>2. CASE schedule # None /\ e # None
  <2> DEFINE r == schedule.rule
             moved == Picker!RetargetRule(r, dueDate, e)
  <2>1. /\ dueDate \in Picker!Calendar /\ e \in Picker!Calendar /\ dueDate # None
        /\ RuleOK(r) /\ dueDate' = e /\ e \in Dates
        /\ schedule = [rule |-> r, start |-> schedule.start, enabled |-> schedule.enabled]
    BY <1>2 DEF PickerInv, CalendarOK, Picker!PickDate
  <2>2. RuleOK(moved)
    BY <2>1, RetargetedOK
  <2>3. schedule' = [schedule EXCEPT !.rule = moved, !.start = e]
    BY <1>2, <2>1 DEF Picker!PickDate
  <2> HIDE DEF moved
  <2>4. schedule' = [rule |-> moved, start |-> e, enabled |-> schedule.enabled]
    BY <2>1, <2>3
  <2>5. PickerInv'
    BY <2>1, <2>2, <2>4 DEF PickerInv
  <2> QED BY <2>1, <2>4, <2>5 DEF moved, Retargets
<1> QED BY <1>1, <1>2

LEMMA PickerNext ==
  ASSUME CalendarOK, PickerInv, [Picker!Next]_(Picker!vars)
  PROVE  PickerInv' /\ Retargets
<1>1. CASE UNCHANGED Picker!vars
  BY <1>1 DEF Picker!vars, PickerInv, Retargets
<1>2. ASSUME NEW e \in Dates \cup {None}, Picker!PickDate(e) PROVE PickerInv' /\ Retargets
  BY <1>2, PickKeeps
<1>3. ASSUME NEW r, RuleOK(r), Picker!Apply(r) PROVE PickerInv' /\ Retargets
  BY <1>3, ApplyKeeps DEF Retargets
<1>4. Picker!Anchor \in Picker!Calendar
  BY DEF PickerInv, CalendarOK, Picker!Anchor
<1>5. ASSUME NEW p \in Picker!Presets, Picker!SelectPreset(p) PROVE PickerInv' /\ Retargets
  BY <1>3, <1>4, <1>5, AppliedOK DEF Picker!SelectPreset
<1>6. ASSUME NEW custom \in Picker!Customs, Picker!CustomDone(custom)
      PROVE  PickerInv' /\ Retargets
  BY <1>3, <1>4, <1>6, AppliedOK DEF Picker!CustomDone
<1>7. CASE Picker!SelectNone
  BY <1>7 DEF Picker!SelectNone, PickerInv, Retargets
<1>8. CASE Picker!Pause
  <2>1. UNCHANGED dueDate /\ schedule # None /\ schedule' = [schedule EXCEPT !.enabled = ~@]
    BY <1>8 DEF Picker!Pause
  <2>2. schedule' = [rule |-> schedule.rule, start |-> schedule.start, enabled |-> ~schedule.enabled]
    BY <2>1 DEF PickerInv
  <2> QED BY <2>1, <2>2 DEF PickerInv, Retargets
<1> QED BY <1>1, <1>2, <1>5, <1>6, <1>7, <1>8 DEF Picker!Next

(* recurrenceRules.ts: for any dates of the calendar and any sequence of picks, presets  *)
(* and custom rules, a due date that moves takes the rule that was read off it along:     *)
(* the preset stays selected, the interval and the end are kept, the editor still reads    *)
(* the rule, and the new date belongs to its series if the old one did.                    *)
THEOREM RulesFollowDates == Picker!Spec => RuleFollowsDate
<1>. CalendarOK
  BY CalendarAssumption DEF CalendarOK
<1>1. Picker!Init => PickerInv
  BY PickerInit
<1>2. PickerInv /\ [Picker!Next]_(Picker!vars) => PickerInv' /\ Retargets
  BY PickerNext
<1> DEFINE Moves ==
      dueDate' # dueDate /\ schedule # None /\ schedule' # None =>
        (Picker!Exact(schedule.rule, dueDate)
          => RuleFollows(schedule.rule, schedule'.rule, dueDate, dueDate'))
<1>3. CalendarOK /\ Retargets => Moves
  BY RuleMoves DEF Retargets
<1>4. RuleFollowsDate <=> [][Moves]_(Picker!vars)
  BY DEF RuleFollowsDate, Picker!RuleFollowsDate, RuleFollows
<1> HIDE DEF Moves
<1> QED BY <1>1, <1>2, <1>3, <1>4, PTL DEF Picker!Spec

-----------------------------------------------------------------------------
(* The board page: what the client holds *)

(* The filters show some of the columns, and null is neither a column nor a row. *)
PageAssumption ==
  /\ Shown \subseteq Column /\ Shown # {} /\ Note # {}
  /\ Nothing \notin Column /\ Nothing \notin Page!Row

Lists == [Task -> Page!Row \cup {Nothing}]

(* A version and a note that may be sent for a task: no saved row is older, and    *)
(* the saved row of the same version has the same note. Of a genuine row only the  *)
(* column may be one that was never saved.                                          *)
Vouched(saved, t, version, note) ==
  saved[t] # Nothing =>
    /\ version <= saved[t].version
    /\ version = saved[t].version => note = saved[t].note

Genuine(saved, t, row) == row \in Page!Row /\ Vouched(saved, t, row.version, row.note)

GenuineList(saved, list) ==
  list \in Lists /\ \A t \in Task : list[t] # Nothing => Genuine(saved, t, list[t])

FetchOK(saved, f) ==
  /\ f \in [state : {"none", "asked", "answered"}, data : Lists \cup {Nothing},
            before : Lists \cup {Nothing}]
  /\ f.state # "none" => GenuineList(saved, f.before)
  /\ f.state = "answered" => GenuineList(saved, f.data)

Mutation == [pc : {"idle", "cancelled", "sent", "ok", "failed", "done"},
             task : Task \cup {Nothing}, version : Nat, column : Column \cup {Nothing},
             note : Note \cup {Nothing}, snapshot : Lists \cup {Nothing}, dialog : BOOLEAN]

UnderWay(m) == m.pc \in {"cancelled", "sent", "ok", "failed"}

SlotOK(saved, m) ==
  /\ UnderWay(m) => m.task \in Task
  /\ UnderWay(m) /\ m.column # Nothing => m.note \in Note /\ Vouched(saved, m.task, m.version, m.note)
  /\ m.pc \in {"sent", "ok", "failed"} => GenuineList(saved, m.snapshot)

SlotsOK(saved, all) ==
  all \in [Slot -> Mutation] /\ \A s \in Slot : SlotOK(saved, all[s])

FormOK(saved, f) ==
  /\ f \in [task : Task \cup {Nothing}, opened : Page!Row \cup {Nothing},
            baseline : Page!Row \cup {Nothing}, column : Column \cup {Nothing},
            note : Note \cup {Nothing}, state : {"closed", "open", "saving", "refused"},
            reload : Page!Row \cup {Nothing}]
  /\ f.state # "closed" =>
       /\ f.task \in Task /\ f.opened \in Page!Row /\ f.baseline \in Page!Row
       /\ f.column \in Column /\ f.note \in Note
       /\ Vouched(saved, f.task, f.baseline.version, f.note)
  /\ f.reload # Nothing => f.state # "closed" /\ Genuine(saved, f.task, f.reload)

(* A save of the dialog is under way only while the dialog waits for it. *)
SavesForm(m) == UnderWay(m) /\ m.dialog /\ m.column # Nothing
DialogWaits(all, f) ==
  /\ \A s \in Slot : SavesForm(all[s]) => f.state = "saving"
  /\ \A s, m \in Slot : SavesForm(all[s]) /\ SavesForm(all[m]) => s = m

PageInv ==
  /\ server \in Lists
  /\ GenuineList(server, cache)
  /\ FetchOK(server, fetch)
  /\ SlotsOK(server, slots)
  /\ FormOK(server, form)
  /\ DialogWaits(slots, form)
  /\ confirm # Nothing => confirm.task \in Task /\ confirm.version \in Nat

-----------------------------------------------------------------------------
(* What was genuine stays so, whatever is saved: a saved row has a new version,  *)
(* and a deleted task does not come back.                                         *)

Later(saved, next) ==
  \A t \in Task : next[t] # Nothing =>
    saved[t] # Nothing /\ (next[t] = saved[t] \/ saved[t].version < next[t].version)

LEMMA StaysVouched ==
  ASSUME NEW saved \in Lists, NEW next \in Lists, Later(saved, next),
         NEW t \in Task, NEW version \in Nat, NEW note, Vouched(saved, t, version, note)
  PROVE  Vouched(next, t, version, note)
<1> SUFFICES ASSUME next[t] # Nothing
             PROVE  /\ version <= next[t].version
                    /\ version = next[t].version => note = next[t].note
  BY DEF Vouched
<1>1. saved[t] # Nothing /\ (next[t] = saved[t] \/ saved[t].version < next[t].version)
  BY DEF Later
<1>2. saved[t] \in Page!Row /\ next[t] \in Page!Row
  BY <1>1 DEF Lists
<1>3. saved[t].version \in Nat /\ next[t].version \in Nat
  BY <1>2 DEF Page!Row
<1> QED BY <1>1, <1>3 DEF Vouched

LEMMA StaysGenuine ==
  ASSUME NEW saved \in Lists, NEW next \in Lists, Later(saved, next),
         NEW t \in Task, NEW row, Genuine(saved, t, row)
  PROVE  Genuine(next, t, row)
<1>1. row \in Page!Row /\ row.version \in Nat
  BY DEF Genuine, Page!Row
<1> QED BY <1>1, StaysVouched DEF Genuine

LEMMA ListStays ==
  ASSUME NEW saved \in Lists, NEW next \in Lists, Later(saved, next),
         NEW list, GenuineList(saved, list)
  PROVE  GenuineList(next, list)
BY StaysGenuine DEF GenuineList

LEMMA HeldStays ==
  ASSUME NEW saved \in Lists, NEW next \in Lists, Later(saved, next)
  PROVE  /\ \A f : FetchOK(saved, f) => FetchOK(next, f)
         /\ \A m \in Mutation : SlotOK(saved, m) => SlotOK(next, m)
         /\ \A f : FormOK(saved, f) => FormOK(next, f)
<1>1. ASSUME NEW f, FetchOK(saved, f) PROVE FetchOK(next, f)
  BY <1>1, ListStays DEF FetchOK
<1>2. ASSUME NEW m \in Mutation, SlotOK(saved, m) PROVE SlotOK(next, m)
  <2>1. m.version \in Nat
    BY DEF Mutation
  <2> QED BY <1>2, <2>1, ListStays, StaysVouched DEF SlotOK
<1>3. ASSUME NEW f, FormOK(saved, f) PROVE FormOK(next, f)
  <2>1. f.state # "closed" => f.baseline.version \in Nat /\ f.task \in Task
    BY <1>3 DEF FormOK, Page!Row
  <2>2. f.state # "closed" => Vouched(next, f.task, f.baseline.version, f.note)
    BY <1>3, <2>1, StaysVouched DEF FormOK
  <2>3. f.reload # Nothing => Genuine(next, f.task, f.reload)
    BY <1>3, <2>1, StaysGenuine DEF FormOK
  <2> QED BY <1>3, <2>2, <2>3 DEF FormOK
<1> QED BY <1>1, <1>2, <1>3

(* The rows of the server are genuine, and what the filters let through is. *)
LEMMA SavedIsGenuine ==
  ASSUME NEW saved \in Lists
  PROVE  /\ \A t \in Task : saved[t] # Nothing => Genuine(saved, t, saved[t])
         /\ GenuineList(saved, [t \in Task |-> Page!OnPage(saved[t])])
<1>1. ASSUME NEW t \in Task, saved[t] # Nothing PROVE Genuine(saved, t, saved[t])
  BY <1>1 DEF Genuine, Vouched, Lists, Page!Row
<1>2. \A t \in Task : Page!OnPage(saved[t]) \in {saved[t], Nothing}
  BY DEF Page!OnPage
<1>3. [t \in Task |-> Page!OnPage(saved[t])] \in Lists
  BY <1>2 DEF Lists
<1> QED BY <1>1, <1>2, <1>3 DEF GenuineList

LEMMA PageInit ==
  ASSUME PageAssumption, Page!Init
  PROVE  PageInv
<1> DEFINE column == CHOOSE c \in Shown : TRUE
           note == CHOOSE n \in Note : TRUE
<1>1. column \in Column /\ note \in Note
  BY DEF PageAssumption
<1>2. server = [t \in Task |-> [version |-> 0, column |-> column, note |-> note]]
  BY DEF Page!Init
<1> HIDE DEF column, note
<1>3. server \in Lists
  BY <1>1, <1>2 DEF Lists, Page!Row
<1>4. GenuineList(server, cache)
  BY <1>3, SavedIsGenuine DEF Page!Init, Page!Listed
<1>5. FetchOK(server, fetch)
  BY DEF Page!Init, Page!NoFetch, FetchOK
<1>6. SlotsOK(server, slots) /\ DialogWaits(slots, form)
  BY DEF Page!Init, Page!Idle, SlotsOK, SlotOK, DialogWaits, SavesForm, UnderWay, Mutation
<1>7. FormOK(server, form) /\ confirm = Nothing
  BY DEF Page!Init, Page!Closed, FormOK
<1> QED BY <1>3, <1>4, <1>5, <1>6, <1>7 DEF PageInv

-----------------------------------------------------------------------------
(* The steps of the board page that leave the saved rows alone *)

(* cancelQueries and the mutation of onMutate. *)
LEMMA SubmitKeeps ==
  ASSUME PageInv, NEW s \in Slot, NEW t \in Task, NEW version \in Nat,
         NEW column \in Column \cup {Nothing}, NEW note \in Note \cup {Nothing},
         NEW dialog \in BOOLEAN,
         column # Nothing => note \in Note /\ Vouched(server, t, version, note),
         Page!Submit(s, t, version, column, note, dialog)
  PROVE  /\ server' = server
         /\ GenuineList(server, cache') /\ FetchOK(server, fetch') /\ SlotsOK(server, slots')
         /\ slots'[s].dialog = dialog /\ slots'[s].column = column
         /\ ~UnderWay(slots[s])
         /\ \A m \in Slot \ {s} : slots'[m] = slots[m]
<1> DEFINE new == [pc |-> "cancelled", task |-> t, version |-> version, column |-> column,
                   note |-> note, snapshot |-> Nothing, dialog |-> dialog]
<1>1. /\ slots[s].pc = "idle" /\ slots' = [slots EXCEPT ![s] = new] /\ server' = server
      /\ cache' = IF fetch.state = "none" THEN cache ELSE fetch.before
      /\ fetch' = Page!NoFetch
  BY DEF Page!Submit
<1>2. GenuineList(server, cache')
  BY <1>1 DEF PageInv, FetchOK
<1>3. FetchOK(server, fetch')
  BY <1>1 DEF FetchOK, Page!NoFetch
<1>4. new \in Mutation /\ SlotOK(server, new)
  BY DEF Mutation, SlotOK, UnderWay
<1>5. slots \in [Slot -> Mutation] /\ \A m \in Slot : SlotOK(server, slots[m])
  BY DEF PageInv, SlotsOK
<1>6. new.dialog = dialog /\ new.column = column
  OBVIOUS
<1> HIDE DEF new
<1>7. SlotsOK(server, slots')
  BY <1>1, <1>4, <1>5 DEF SlotsOK
<1> QED BY <1>1, <1>2, <1>3, <1>5, <1>6, <1>7 DEF UnderWay

LEMMA SubmitsStep ==
  ASSUME PageAssumption, PageInv, NEW s \in Slot,
         \/ Page!Save(s) \/ Page!ConfirmDelete(s)
         \/ \E t \in Task, column \in Column : Page!Drag(s, t, column)
  PROVE  PageInv' /\ server' = server
<1>1. CASE Page!Save(s)
  <2>1. /\ form.state \in {"open", "refused"}
        /\ Page!Submit(s, form.task, form.baseline.version, form.column, form.note, TRUE)
        /\ form' = [form EXCEPT !.state = "saving"] /\ confirm' = confirm
    BY <1>1 DEF Page!Save
  <2>2. /\ form.task \in Task /\ form.baseline.version \in Nat
        /\ form.column \in Column /\ form.note \in Note
        /\ Vouched(server, form.task, form.baseline.version, form.note)
    BY <2>1 DEF PageInv, FormOK, Page!Row
  <2>3. /\ server' = server
        /\ GenuineList(server, cache') /\ FetchOK(server, fetch') /\ SlotsOK(server, slots')
        /\ \A m \in Slot \ {s} : slots'[m] = slots[m]
    BY <2>1, <2>2, SubmitKeeps
  <2>4. FormOK(server, form') /\ form'.state = "saving"
    BY <2>1 DEF PageInv, FormOK
  <2>5. \A m \in Slot : ~SavesForm(slots[m])
    BY <2>1 DEF PageInv, DialogWaits
  <2>6. DialogWaits(slots', form')
    BY <2>3, <2>4, <2>5 DEF DialogWaits
  <2> QED BY <2>1, <2>3, <2>4, <2>6 DEF PageInv
<1>2. ASSUME NEW t \in Task, NEW version \in Nat, NEW column \in Column \cup {Nothing},
             NEW note \in Note \cup {Nothing}, NEW dialog \in BOOLEAN,
             column # Nothing => note \in Note /\ Vouched(server, t, version, note),
             Page!Submit(s, t, version, column, note, dialog),
             ~dialog \/ column = Nothing, UNCHANGED <<form, confirm>>
      PROVE  PageInv' /\ server' = server
  <2>1. /\ server' = server
        /\ GenuineList(server, cache') /\ FetchOK(server, fetch') /\ SlotsOK(server, slots')
        /\ slots'[s].dialog = dialog /\ slots'[s].column = column
        /\ \A m \in Slot \ {s} : slots'[m] = slots[m]
    BY <1>2, SubmitKeeps
  <2>2. ~SavesForm(slots'[s])
    BY <1>2, <2>1 DEF SavesForm
  <2>3. DialogWaits(slots', form')
    BY <1>2, <2>1, <2>2 DEF PageInv, DialogWaits
  <2> QED BY <1>2, <2>1, <2>3 DEF PageInv
<1>3. CASE Page!ConfirmDelete(s)
  <2>1. /\ confirm # Nothing /\ UNCHANGED <<form, confirm>>
        /\ Page!Submit(s, confirm.task, confirm.version, Nothing, Nothing, TRUE)
    BY <1>3 DEF Page!ConfirmDelete, Page!Deletion
  <2>2. confirm.task \in Task /\ confirm.version \in Nat
    BY <2>1 DEF PageInv
  <2> QED BY <1>2, <2>1, <2>2
<1>4. ASSUME NEW t \in Task, NEW column \in Column, Page!Drag(s, t, column)
      PROVE  PageInv' /\ server' = server
  <2>1. /\ cache[t] # Nothing /\ UNCHANGED <<form, confirm>>
        /\ Page!Submit(s, t, cache[t].version, column, cache[t].note, FALSE)
    BY <1>4 DEF Page!Drag
  <2>2. Genuine(server, t, cache[t])
    BY <2>1 DEF PageInv, GenuineList
  <2>3. /\ cache[t].version \in Nat /\ cache[t].note \in Note
        /\ Vouched(server, t, cache[t].version, cache[t].note)
    BY <2>2 DEF Genuine, Page!Row
  <2> QED BY <1>2, <2>1, <2>3
<1> QED BY <1>1, <1>3, <1>4

(* The query cache. *)
LEMMA FetchStep ==
  ASSUME PageInv,
         \/ Page!Created \/ Page!Refocus \/ Page!ServerLists \/ Page!FetchArrives \/ Page!FetchFails
  PROVE  PageInv' /\ server' = server
<1>1. UNCHANGED <<server, slots, form, confirm>>
  BY DEF Page!Created, Page!Refocus, Page!ServerLists, Page!FetchArrives, Page!FetchFails
<1>2. SUFFICES GenuineList(server, cache') /\ FetchOK(server, fetch')
  BY <1>1 DEF PageInv
<1>3. cache \in Lists
  BY DEF PageInv, GenuineList
<1>4. CASE Page!Created \/ Page!Refocus
  <2>1. /\ cache' = cache
        /\ fetch' = [state |-> "asked", data |-> Nothing, before |-> cache]
    BY <1>4 DEF Page!Created, Page!Refocus, Page!Restarted
  <2> QED BY <1>3, <2>1 DEF FetchOK, PageInv
<1>5. CASE Page!ServerLists
  <2>1. /\ fetch.state = "asked" /\ cache' = cache
        /\ fetch' = [fetch EXCEPT !.state = "answered", !.data = Page!Listed]
    BY <1>5 DEF Page!ServerLists
  <2>2. GenuineList(server, Page!Listed)
    BY SavedIsGenuine DEF PageInv, Page!Listed
  <2>3. Page!Listed \in Lists
    BY <2>2 DEF GenuineList
  <2> QED BY <2>1, <2>2, <2>3 DEF PageInv, FetchOK
<1>6. CASE Page!FetchArrives
  BY <1>6 DEF Page!FetchArrives, PageInv, FetchOK, Page!NoFetch
<1>7. CASE Page!FetchFails
  BY <1>7 DEF Page!FetchFails, PageInv, FetchOK, Page!NoFetch
<1> QED BY <1>4, <1>5, <1>6, <1>7

(* The row of an edit under way is genuine: it has the version and the note that *)
(* were submitted.                                                               *)
LEMMA OptimisticStep ==
  ASSUME PageAssumption, PageInv, NEW s \in Slot, Page!Optimistic(s)
  PROVE  PageInv' /\ server' = server
<1> DEFINE m == slots[s]
<1>1. /\ m.pc = "cancelled" /\ UNCHANGED <<server, fetch, form, confirm>>
      /\ slots' = [slots EXCEPT ![s].pc = "sent", ![s].snapshot = cache]
      /\ cache' = [cache EXCEPT ![m.task] = Page!Reconciled(m)]
  BY DEF Page!Optimistic
<1>2. m \in Mutation /\ SlotOK(server, m) /\ m.task \in Task /\ cache \in Lists
  BY <1>1 DEF PageInv, SlotsOK, SlotOK, UnderWay, GenuineList
<1>3. ASSUME Page!Reconciled(m) # Nothing PROVE Genuine(server, m.task, Page!Reconciled(m))
  <2>1. m.column # Nothing /\ Page!Reconciled(m) = Page!Updated(m)
    BY <1>3 DEF Page!Reconciled, Page!Deletion, Page!OnPage
  <2>2. Page!Updated(m) = [version |-> m.version, column |-> m.column, note |-> m.note]
    BY DEF Page!Updated
  <2>3. m.version \in Nat /\ m.column \in Column /\ m.note \in Note
        /\ Vouched(server, m.task, m.version, m.note)
    BY <1>1, <1>2, <2>1 DEF Mutation, SlotOK, UnderWay
  <2> QED BY <2>1, <2>2, <2>3 DEF Genuine, Page!Row
<1>4. Page!Reconciled(m) \in Page!Row \cup {Nothing}
  BY <1>3 DEF Genuine
<1>5. cache' \in Lists
  BY <1>1, <1>2, <1>4 DEF Lists
<1>6. ASSUME NEW t \in Task, cache'[t] # Nothing PROVE Genuine(server, t, cache'[t])
  <2>1. CASE t = m.task
    BY <1>1, <1>2, <1>3, <1>6, <2>1 DEF Lists
  <2>2. CASE t # m.task
    BY <1>1, <1>2, <1>6, <2>2 DEF PageInv, GenuineList, Lists
  <2> QED BY <2>1, <2>2
<1>7. GenuineList(server, cache')
  BY <1>5, <1>6 DEF GenuineList
<1>8. slots'[s] = [m EXCEPT !.pc = "sent", !.snapshot = cache]
      /\ \A n \in Slot \ {s} : slots'[n] = slots[n]
  BY <1>1 DEF PageInv, SlotsOK
<1>9. slots'[s] \in Mutation /\ SlotOK(server, slots'[s])
      /\ (SavesForm(slots'[s]) => SavesForm(m))
  <2>1. [m EXCEPT !.pc = "sent", !.snapshot = cache] \in Mutation
    BY <1>2 DEF Mutation
  <2>2. /\ slots'[s].task = m.task /\ slots'[s].version = m.version /\ slots'[s].note = m.note
        /\ slots'[s].column = m.column /\ slots'[s].dialog = m.dialog
        /\ slots'[s].pc = "sent" /\ slots'[s].snapshot = cache
    BY <1>2, <1>8 DEF Mutation
  <2>3. SlotOK(server, slots'[s])
    BY <1>1, <1>2, <2>2 DEF SlotOK, UnderWay, PageInv
  <2> QED BY <1>1, <1>8, <2>1, <2>2, <2>3 DEF SavesForm, UnderWay
<1>10. SlotsOK(server, slots')
  <2>1. slots' \in [Slot -> Mutation]
    BY <1>1, <1>8, <1>9 DEF PageInv, SlotsOK
  <2> QED BY <1>8, <1>9, <2>1 DEF PageInv, SlotsOK
<1>11. DialogWaits(slots', form')
  BY <1>1, <1>8, <1>9 DEF PageInv, DialogWaits
<1> QED BY <1>1, <1>7, <1>10, <1>11 DEF PageInv

(* An answer changes a mutation's state only. *)
LEMMA AnsweredSlot ==
  ASSUME NEW saved, NEW s \in Slot, SlotsOK(saved, slots), slots[s].pc = "sent",
         NEW answer \in {"ok", "failed"}, slots' = [slots EXCEPT ![s].pc = answer]
  PROVE  /\ SlotsOK(saved, slots')
         /\ \A m \in Slot : SavesForm(slots'[m]) => SavesForm(slots[m])
<1> DEFINE m == slots[s]
<1>1. m \in Mutation /\ SlotOK(saved, m) /\ slots \in [Slot -> Mutation]
  BY DEF SlotsOK
<1>2. slots'[s] = [m EXCEPT !.pc = answer] /\ \A n \in Slot \ {s} : slots'[n] = slots[n]
  BY <1>1
<1>3. [m EXCEPT !.pc = answer] \in Mutation
  BY <1>1 DEF Mutation
<1>4. /\ slots'[s].task = m.task /\ slots'[s].version = m.version /\ slots'[s].note = m.note
      /\ slots'[s].column = m.column /\ slots'[s].dialog = m.dialog
      /\ slots'[s].pc = answer /\ slots'[s].snapshot = m.snapshot
  BY <1>1, <1>2 DEF Mutation
<1>5. SlotOK(saved, slots'[s]) /\ (SavesForm(slots'[s]) => SavesForm(m))
  BY <1>1, <1>4 DEF SlotOK, UnderWay, SavesForm
<1>6. slots' \in [Slot -> Mutation]
  BY <1>1, <1>2, <1>3
<1> QED BY <1>1, <1>2, <1>5, <1>6 DEF SlotsOK

LEMMA RefusesStep ==
  ASSUME PageInv, NEW s \in Slot, Page!ServerRefuses(s)
  PROVE  PageInv' /\ server' = server
<1>1. /\ slots[s].pc = "sent" /\ slots' = [slots EXCEPT ![s].pc = "failed"]
      /\ UNCHANGED <<server, cache, fetch, form, confirm>>
  BY DEF Page!ServerRefuses
<1>2. SlotsOK(server, slots') /\ \A m \in Slot : SavesForm(slots'[m]) => SavesForm(slots[m])
  BY <1>1, AnsweredSlot DEF PageInv
<1>3. DialogWaits(slots', form')
  BY <1>1, <1>2 DEF PageInv, DialogWaits
<1> QED BY <1>1, <1>2, <1>3 DEF PageInv

(* The rollback puts back a list that was genuine and still is; the dialog that     *)
(* waited is closed or shows the error.                                              *)
LEMMA SettleStep ==
  ASSUME PageInv, NEW s \in Slot, Page!Settle(s)
  PROVE  PageInv' /\ server' = server
<1> DEFINE m == slots[s]
           data == IF m.pc = "failed" THEN m.snapshot ELSE cache
           over == [Page!Idle EXCEPT !.pc = "done"]
<1>1. /\ m.pc \in {"ok", "failed"} /\ slots' = [slots EXCEPT ![s] = over]
      /\ cache' = data /\ server' = server
      /\ fetch' = [state |-> "asked", data |-> Nothing, before |-> data]
      /\ form' = IF ~m.dialog \/ m.column = Nothing THEN form
                 ELSE IF m.pc = "ok" THEN Page!Closed ELSE [form EXCEPT !.state = "refused"]
      /\ confirm' \in {confirm, Nothing}
  BY DEF Page!Settle, Page!Restarted, Page!Deletion
<1>2. m \in Mutation /\ SlotOK(server, m) /\ slots \in [Slot -> Mutation]
  BY DEF PageInv, SlotsOK
<1>3. GenuineList(server, data)
  BY <1>1, <1>2 DEF PageInv, SlotOK
<1>4. FetchOK(server, fetch')
  BY <1>1, <1>3 DEF FetchOK, GenuineList
<1>5. over \in Mutation /\ ~UnderWay(over)
  BY DEF Mutation, Page!Idle, UnderWay
<1> HIDE DEF data, over
<1>6. slots'[s] = over /\ \A n \in Slot \ {s} : slots'[n] = slots[n]
  BY <1>1, <1>2
<1>7. SlotsOK(server, slots')
  <2>1. slots' \in [Slot -> Mutation]
    BY <1>1, <1>2, <1>5
  <2>2. SlotOK(server, over)
    BY <1>5 DEF SlotOK, UnderWay
  <2> QED BY <1>6, <2>1, <2>2 DEF SlotsOK, PageInv
<1>8. FormOK(server, form') /\ DialogWaits(slots', form')
  <2>1. ~SavesForm(slots'[s])
    BY <1>5, <1>6 DEF SavesForm
  <2>2. CASE ~m.dialog \/ m.column = Nothing
    <3>1. form' = form
      BY <1>1, <2>2
    <3> QED BY <1>6, <2>1, <3>1 DEF PageInv, DialogWaits
  <2>3. CASE m.dialog /\ m.column # Nothing
    <3>1. SavesForm(m)
      BY <1>1, <2>3 DEF SavesForm, UnderWay
    <3>2. form.state = "saving" /\ \A n \in Slot \ {s} : ~SavesForm(slots[n])
      BY <3>1 DEF PageInv, DialogWaits
    <3>3. \A n \in Slot : ~SavesForm(slots'[n])
      BY <1>6, <2>1, <3>2
    <3>4. CASE m.pc = "ok"
      <4>1. form' = Page!Closed
        BY <1>1, <2>3, <3>4
      <4> QED BY <3>3, <4>1 DEF FormOK, Page!Closed, DialogWaits
    <3>5. CASE m.pc # "ok"
      <4>1. form' = [form EXCEPT !.state = "refused"]
        BY <1>1, <2>3, <3>5
      <4>2. FormOK(server, form')
        BY <3>2, <4>1 DEF FormOK, PageInv
      <4> QED BY <3>3, <4>2 DEF DialogWaits
    <3> QED BY <3>4, <3>5
  <2> QED BY <2>2, <2>3
<1> QED BY <1>1, <1>3, <1>4, <1>7, <1>8 DEF PageInv

-----------------------------------------------------------------------------
(* The dialogs *)

LEMMA DialogStep ==
  ASSUME PageAssumption, PageInv,
         \/ \E t \in Task : Page!OpenForm(t)
         \/ \E column \in Column : Page!ChooseColumn(column)
         \/ Page!CloseForm \/ Page!Reload \/ Page!ReloadArrives \/ Page!RequestDelete \/ Page!KeepTask
  PROVE  PageInv' /\ server' = server
<1>1. UNCHANGED <<server, cache, fetch, slots>>
  BY DEF Page!OpenForm, Page!ChooseColumn, Page!CloseForm, Page!Reload, Page!ReloadArrives,
         Page!RequestDelete, Page!KeepTask
<1>2. SUFFICES /\ FormOK(server, form')
               /\ \A s \in Slot : SavesForm(slots[s]) => form'.state = "saving"
               /\ confirm' # Nothing => confirm'.task \in Task /\ confirm'.version \in Nat
  BY <1>1 DEF PageInv, DialogWaits
<1>3. ASSUME form.state # "saving" PROVE \A s \in Slot : ~SavesForm(slots[s])
  BY <1>3 DEF PageInv, DialogWaits
<1>4. ASSUME NEW t \in Task, Page!OpenForm(t)
      PROVE  FormOK(server, form') /\ form.state # "saving" /\ confirm' = confirm
  <2>1. /\ form.state = "closed" /\ cache[t] # Nothing /\ confirm' = confirm
        /\ form' = [Page!Closed EXCEPT !.task = t, !.opened = cache[t], !.baseline = cache[t],
                      !.column = cache[t].column, !.note = cache[t].note, !.state = "open"]
    BY <1>4 DEF Page!OpenForm, Page!DialogOpen
  <2>2. Genuine(server, t, cache[t])
    BY <2>1 DEF PageInv, GenuineList
  <2>3. /\ cache[t] \in Page!Row /\ cache[t].column \in Column /\ cache[t].note \in Note
        /\ Vouched(server, t, cache[t].version, cache[t].note)
    BY <2>2 DEF Genuine, Page!Row
  <2>4. form' = [task |-> t, opened |-> cache[t], baseline |-> cache[t],
                 column |-> cache[t].column, note |-> cache[t].note, state |-> "open",
                 reload |-> Nothing]
    BY <2>1 DEF Page!Closed
  <2>5. /\ form'.task = t /\ form'.opened = cache[t] /\ form'.baseline = cache[t]
        /\ form'.column = cache[t].column /\ form'.note = cache[t].note
        /\ form'.state = "open" /\ form'.reload = Nothing
    BY <2>4
  <2>6. FormOK(server, form')
    BY <2>3, <2>4, <2>5 DEF FormOK
  <2> QED BY <2>1, <2>6
<1>5. ASSUME NEW column \in Column, Page!ChooseColumn(column)
      PROVE  FormOK(server, form') /\ form.state # "saving" /\ confirm' = confirm
  BY <1>5 DEF Page!ChooseColumn, FormOK, PageInv
<1>6. CASE Page!CloseForm
  BY <1>3, <1>6 DEF Page!CloseForm, Page!Closed, FormOK, PageInv
<1>7. CASE Page!Reload
  <2>1. /\ form.state = "refused" /\ server[form.task] # Nothing /\ confirm' = confirm
        /\ form' = [form EXCEPT !.reload = server[form.task]]
    BY <1>7 DEF Page!Reload
  <2>2. form.task \in Task
    BY <2>1 DEF PageInv, FormOK
  <2>3. Genuine(server, form.task, server[form.task])
    BY <2>1, <2>2, SavedIsGenuine DEF PageInv
  <2>4. FormOK(server, form')
    BY <2>1, <2>3 DEF FormOK, PageInv, Genuine
  <2> QED BY <1>3, <2>1, <2>4 DEF PageInv
<1>8. CASE Page!ReloadArrives
  <2> DEFINE row == form.reload
  <2>1. /\ row # Nothing /\ confirm' = confirm
        /\ form' = [form EXCEPT !.baseline = row, !.column = row.column, !.note = row.note,
                      !.reload = Nothing, !.state = IF @ = "saving" THEN @ ELSE "open"]
    BY <1>8 DEF Page!ReloadArrives, Page!ResetFormFrom
  <2>2. Genuine(server, form.task, row) /\ form.state # "closed" /\ form.task \in Task
        /\ form.opened \in Page!Row
    BY <2>1 DEF PageInv, FormOK
  <2>3. /\ row \in Page!Row /\ row.column \in Column /\ row.note \in Note
        /\ Vouched(server, form.task, row.version, row.note)
    BY <2>2 DEF Genuine, Page!Row
  <2>4. /\ form'.task = form.task /\ form'.opened = form.opened /\ form'.baseline = row
        /\ form'.column = row.column /\ form'.note = row.note /\ form'.reload = Nothing
        /\ form'.state = IF form.state = "saving" THEN "saving" ELSE "open"
        /\ form' = [task |-> form'.task, opened |-> form'.opened, baseline |-> form'.baseline,
                    column |-> form'.column, note |-> form'.note, state |-> form'.state,
                    reload |-> form'.reload]
    BY <2>1 DEF PageInv, FormOK
  <2> HIDE DEF row
  <2>5. FormOK(server, form')
    BY <2>2, <2>3, <2>4 DEF FormOK
  <2> QED BY <1>3, <2>1, <2>4, <2>5 DEF PageInv
<1>9. CASE Page!RequestDelete
  <2>1. /\ form.state \in {"open", "refused"} /\ form' = Page!Closed
        /\ confirm' = [task |-> form.task, version |-> form.opened.version]
    BY <1>9 DEF Page!RequestDelete
  <2>2. form.task \in Task /\ form.opened.version \in Nat
    BY <2>1 DEF PageInv, FormOK, Page!Row
  <2>3. FormOK(server, form')
    BY <2>1 DEF FormOK, Page!Closed
  <2> QED BY <1>3, <2>1, <2>2, <2>3
<1>10. CASE Page!KeepTask
  BY <1>10 DEF Page!KeepTask, PageInv, DialogWaits
<1> QED BY <1>3, <1>4, <1>5, <1>6, <1>7, <1>8, <1>9, <1>10 DEF PageInv

-----------------------------------------------------------------------------
(* The steps that save *)

LEMMA SavedStep ==
  ASSUME PageInv, Later(server, server'), server' \in Lists,
         UNCHANGED <<cache, fetch, form, confirm>>,
         SlotsOK(server, slots'), \A m \in Slot : SavesForm(slots'[m]) => SavesForm(slots[m])
  PROVE  PageInv'
<1>1. GenuineList(server', cache')
  BY ListStays DEF PageInv
<1>2. FetchOK(server', fetch') /\ FormOK(server', form')
  BY HeldStays DEF PageInv
<1>3. SlotsOK(server', slots')
  BY HeldStays DEF PageInv, SlotsOK
<1>4. DialogWaits(slots', form')
  BY DEF PageInv, DialogWaits
<1> QED BY <1>1, <1>2, <1>3, <1>4 DEF PageInv

(* updateForMember and deleteForMember: the row of the version that was sent is    *)
(* replaced, and by a row with the same note.                                       *)
LEMMA SavesStep ==
  ASSUME PageAssumption, PageInv, NEW s \in Slot, Page!ServerSaves(s)
  PROVE  /\ PageInv'
         /\ \A t \in Task : server[t] # Nothing /\ server'[t] # Nothing => server'[t].note = server[t].note
<1> DEFINE m == slots[s]
           row == IF m.column = Nothing THEN Nothing ELSE Page!NextVersion(m)
<1>1. /\ m.pc = "sent" /\ server[m.task] # Nothing /\ server[m.task].version = m.version
      /\ server' = [server EXCEPT ![m.task] = row]
      /\ UNCHANGED <<cache, fetch, form, confirm>>
      /\ \E answer \in {"ok", "failed"} : slots' = [slots EXCEPT ![s].pc = answer]
  BY DEF Page!ServerSaves, Page!Saved, Page!Deletion
<1>2. m \in Mutation /\ SlotOK(server, m) /\ m.task \in Task /\ server \in Lists
  BY <1>1 DEF PageInv, SlotsOK, SlotOK, UnderWay
<1>3. m.column # Nothing =>
        /\ row \in Page!Row /\ row.version = server[m.task].version + 1
        /\ row.note = server[m.task].note
  <2> SUFFICES ASSUME m.column # Nothing
               PROVE  /\ row \in Page!Row /\ row.version = server[m.task].version + 1
                      /\ row.note = server[m.task].note
    OBVIOUS
  <2>1. m.version \in Nat /\ m.column \in Column /\ m.note \in Note
        /\ Vouched(server, m.task, m.version, m.note)
    BY <1>1, <1>2 DEF Mutation, SlotOK, UnderWay
  <2>2. m.note = server[m.task].note
    BY <1>1, <2>1 DEF Vouched
  <2>3. row = [version |-> m.version + 1, column |-> m.column, note |-> m.note]
    BY DEF Page!NextVersion
  <2> QED BY <1>1, <2>1, <2>2, <2>3 DEF Page!Row
<1>4. row \in Page!Row \cup {Nothing} /\ (row = Nothing \/ m.column # Nothing)
  BY <1>3
<1>5. server[m.task].version \in Nat
  BY <1>1, <1>2 DEF Lists, Page!Row
<1> HIDE DEF row
<1>6. /\ server' \in Lists /\ server'[m.task] = row
      /\ \A t \in Task : t # m.task => server'[t] = server[t]
  BY <1>1, <1>2, <1>4 DEF Lists
<1>7. Later(server, server')
  BY <1>1, <1>3, <1>4, <1>5, <1>6 DEF Later
<1>8. SlotsOK(server, slots') /\ \A n \in Slot : SavesForm(slots'[n]) => SavesForm(slots[n])
  BY <1>1, AnsweredSlot DEF PageInv
<1>9. PageInv'
  BY <1>1, <1>6, <1>7, <1>8, SavedStep
<1> QED BY <1>3, <1>4, <1>6, <1>9

LEMMA OthersStep ==
  ASSUME PageInv, NEW t \in Task, Page!OtherSaves(t)
  PROVE  PageInv' /\ others' = others + 1
<1>1. PICK column \in Column, note \in Note :
        Page!Saved(t, [version |-> server[t].version + 1, column |-> column, note |-> note])
  BY DEF Page!OtherSaves
<1>2. server[t] # Nothing /\ others' = others + 1 /\ UNCHANGED <<cache, fetch, slots, form, confirm>>
  BY DEF Page!OtherSaves
<1> DEFINE row == [version |-> server[t].version + 1, column |-> column, note |-> note]
<1>3. server' = [server EXCEPT ![t] = row] /\ server \in Lists
  BY <1>1 DEF Page!Saved, PageInv
<1>4. server[t].version \in Nat
  BY <1>2, <1>3 DEF Lists, Page!Row
<1>5. row \in Page!Row /\ row.version = server[t].version + 1
  BY <1>4 DEF Page!Row
<1> HIDE DEF row
<1>6. /\ server' \in Lists /\ server'[t] = row
      /\ \A u \in Task : u # t => server'[u] = server[u]
  BY <1>3, <1>5 DEF Lists
<1>7. Later(server, server')
  BY <1>2, <1>4, <1>5, <1>6 DEF Later
<1>8. PageInv'
  BY <1>2, <1>6, <1>7, SavedStep DEF PageInv
<1> QED BY <1>2, <1>8

LEMMA PageNext ==
  ASSUME PageAssumption, PageInv, [Page!Next]_(Page!vars)
  PROVE  /\ PageInv'
         /\ \A t \in Task : server[t] # Nothing /\ server'[t] # Nothing /\ server'[t].note # server[t].note
              => others' = others + 1
<1>1. CASE UNCHANGED Page!vars
  BY <1>1 DEF Page!vars, PageInv
<1>2. ASSUME PageInv', server' = server
      PROVE  \A t \in Task : server[t] # Nothing /\ server'[t] # Nothing
                               /\ server'[t].note # server[t].note => others' = others + 1
  BY <1>2
<1>3. CASE \E s \in Slot : Page!Optimistic(s) \/ Page!ServerRefuses(s) \/ Page!Settle(s)
  BY <1>2, <1>3, OptimisticStep, RefusesStep, SettleStep
<1>4. CASE \E s \in Slot : Page!ServerSaves(s)
  BY <1>4, SavesStep
<1>5. CASE \E t \in Task : Page!OtherSaves(t)
  BY <1>5, OthersStep
<1>6. CASE \E s \in Slot : \/ Page!Save(s) \/ Page!ConfirmDelete(s)
                           \/ \E t \in Task, column \in Column : Page!Drag(s, t, column)
  BY <1>2, <1>6, SubmitsStep
<1>7. CASE \/ Page!Created \/ Page!Refocus \/ Page!ServerLists \/ Page!FetchArrives \/ Page!FetchFails
  BY <1>2, <1>7, FetchStep
<1>8. CASE \/ \E t \in Task : Page!OpenForm(t)
           \/ \E column \in Column : Page!ChooseColumn(column)
           \/ Page!CloseForm \/ Page!Reload \/ Page!ReloadArrives \/ Page!RequestDelete \/ Page!KeepTask
  BY <1>2, <1>8, DialogStep
<1> QED BY <1>1, <1>3, <1>4, <1>5, <1>6, <1>7, <1>8 DEF Page!Next

(* useTaskMutations.ts, TaskModal.tsx, BoardEditPanel.tsx: whatever mixture of         *)
(* optimistic rows, rollbacks, late refetches, reloads and recoveries the user acts on, *)
(* a save that the server accepts sends back what the row it replaces says in every      *)
(* field that the user did not touch.                                                      *)
THEOREM UpdatesNeverLost == Page!Spec /\ Panel!Spec => NoLostUpdate
<1>. PageAssumption /\ PanelAssumption
  BY ClientAssumption DEF PageAssumption, PanelAssumption
<1> DEFINE Kept == \A t \in DOMAIN server :
              (server[t] # Nothing /\ server'[t] # Nothing /\ server'[t].note # server[t].note)
                => others' = others + 1
<1>1. PageInv /\ [Page!Next]_(Page!vars) => PageInv'
  BY PageNext
<1>2. PageInv /\ [Page!Next]_(Page!vars) => [Kept]_(Page!vars)
  <2>1. PageInv => DOMAIN server = Task
    BY DEF PageInv, Lists
  <2> QED BY <2>1, PageNext
<1>3. Page!Init => PageInv
  BY PageInit
<1>4. Page!Spec => [][Kept]_(Page!vars)
  <2> HIDE DEF Kept
  <2> QED BY <1>1, <1>2, <1>3, PTL DEF Page!Spec
<1> QED BY <1>4, PanelAlways DEF NoLostUpdate, Page!NoLostUpdate

-----------------------------------------------------------------------------
(* The board page: what it shows *)

(* A list that was read, and one that is shown while nothing is under way and the *)
(* last refetch succeeded, is from after the last mutation that settled.           *)
Held(list, rowsSince) == \A t \in Task : list[t] \in {Page!OnPage(row) : row \in rowsSince[t]}
Quiet(all) == \A s \in Slot : all[s].pc \in {"idle", "done"}

ScreenInv ==
  /\ DOMAIN since = Task
  /\ \A t \in Task : server[t] \in since[t]
  /\ fetch.state = "answered" => Held(fetch.data, since)
  /\ Quiet(slots) /\ fetch.state = "none" /\ ~stale => Held(cache, since)

LEMMA ScreenInit == Page!Init => ScreenInv
<1> SUFFICES ASSUME Page!Init PROVE ScreenInv
  OBVIOUS
<1> USE DEF Page!Init
<1>1. ASSUME NEW t \in Task PROVE since[t] = {server[t]} /\ cache[t] = Page!OnPage(server[t])
  BY DEF Page!Listed
<1>2. Held(cache, since)
  BY <1>1 DEF Held
<1> QED BY <1>1, <1>2 DEF ScreenInv, Page!NoFetch

(* What the server saves is remembered, and nothing that was held is forgotten. *)
LEMMA SavedScreen ==
  ASSUME PageInv, ScreenInv, NEW t \in Task, NEW row, Page!Saved(t, row),
         UNCHANGED <<cache, fetch, stale>>, Quiet(slots') => Quiet(slots)
  PROVE  ScreenInv'
<1>1. /\ server' = [server EXCEPT ![t] = row] /\ since' = [since EXCEPT ![t] = @ \cup {row}]
      /\ DOMAIN since = Task /\ DOMAIN server = Task
  BY DEF Page!Saved, ScreenInv, PageInv, Lists
<1>2. ASSUME NEW u \in Task PROVE since[u] \subseteq since'[u] /\ server'[u] \in since'[u]
  <2>1. server[u] \in since[u]
    BY DEF ScreenInv
  <2> QED BY <1>1, <2>1
<1>3. \A list : Held(list, since) => Held(list, since')
  BY <1>2 DEF Held
<1>4. DOMAIN since' = Task
  BY <1>1
<1> QED BY <1>2, <1>3, <1>4 DEF ScreenInv

(* While a mutation is under way the screen may show what it likes, and nothing is *)
(* read that the server does not hold.                                               *)
LEMMA BusyScreen ==
  ASSUME ScreenInv, UNCHANGED <<server, since>>, ~Quiet(slots'),
         fetch' = fetch \/ fetch'.state # "answered"
  PROVE  ScreenInv'
BY DEF ScreenInv

LEMMA AskedScreen ==
  ASSUME ScreenInv, NEW data, fetch' = Page!Restarted(data), UNCHANGED <<server, since>>
  PROVE  ScreenInv'
BY DEF ScreenInv, Page!Restarted

LEMMA SlotsScreen ==
  ASSUME PageInv, NEW s \in Slot, NEW m, slots' = [slots EXCEPT ![s] = m],
         m.pc \in {"cancelled", "sent", "ok", "failed"}
  PROVE  ~Quiet(slots')
<1>1. slots'[s] = m
  BY DEF PageInv, SlotsOK
<1> QED BY <1>1 DEF Quiet

LEMMA ScreenNext ==
  ASSUME PageInv, ScreenInv, [Page!Next]_(Page!vars)
  PROVE  ScreenInv'
<1>0. slots \in [Slot -> Mutation] /\ fetch.state \in {"none", "asked", "answered"}
  BY DEF PageInv, SlotsOK, FetchOK
<1>1. CASE UNCHANGED <<server, cache, fetch, stale, slots, since>>
  BY <1>1 DEF ScreenInv
<1>2. CASE UNCHANGED Page!vars
  BY <1>1, <1>2 DEF Page!vars
<1>3. CASE Page!Created \/ Page!Refocus
  BY <1>3, AskedScreen DEF Page!Created, Page!Refocus
<1>4. CASE Page!ServerLists
  <2>1. /\ fetch' = [fetch EXCEPT !.state = "answered", !.data = Page!Listed]
        /\ UNCHANGED <<server, since>>
    BY <1>4 DEF Page!ServerLists
  <2>2. fetch'.state = "answered" /\ fetch'.data = Page!Listed
    BY <2>1 DEF PageInv, FetchOK
  <2>3. Held(Page!Listed, since)
    BY DEF Held, Page!Listed, ScreenInv
  <2> QED BY <2>1, <2>2, <2>3 DEF ScreenInv
<1>5. CASE Page!FetchArrives
  BY <1>5 DEF Page!FetchArrives, Page!NoFetch, ScreenInv
<1>6. CASE Page!FetchFails
  BY <1>6 DEF Page!FetchFails, Page!NoFetch, ScreenInv
<1>7. ASSUME NEW s \in Slot, Page!Optimistic(s) \/ Page!ServerRefuses(s) PROVE ScreenInv'
  <2>1. /\ UNCHANGED <<server, fetch, since>>
        /\ \/ slots' = [slots EXCEPT ![s].pc = "sent", ![s].snapshot = cache]
           \/ slots' = [slots EXCEPT ![s].pc = "failed"]
    BY <1>7 DEF Page!Optimistic, Page!ServerRefuses
  <2>2. slots'[s].pc \in {"sent", "failed"}
    BY <1>0, <2>1 DEF Mutation
  <2>3. ~Quiet(slots')
    BY <2>2 DEF Quiet
  <2> QED BY <2>1, <2>3, BusyScreen
<1>8. ASSUME NEW s \in Slot, Page!ServerSaves(s) PROVE ScreenInv'
  <2>1. slots[s].pc = "sent" /\ UNCHANGED <<cache, fetch, stale>>
    BY <1>8 DEF Page!ServerSaves
  <2>2. PICK row : Page!Saved(slots[s].task, row)
    BY <1>8 DEF Page!ServerSaves
  <2>3. PICK answer \in {"ok", "failed"} : slots' = [slots EXCEPT ![s].pc = answer]
    BY <1>8 DEF Page!ServerSaves
  <2>4. slots'[s].pc = answer /\ slots[s].task \in Task
    BY <1>0, <2>1, <2>3 DEF Mutation, PageInv, SlotsOK, SlotOK, UnderWay
  <2>5. ~Quiet(slots')
    BY <2>4 DEF Quiet
  <2> QED BY <2>1, <2>2, <2>4, <2>5, SavedScreen
<1>9. ASSUME NEW s \in Slot, Page!Settle(s) PROVE ScreenInv'
  <2>1. /\ fetch'.state = "asked" /\ server' = server
        /\ since' = [t \in Task |-> {server[t]}]
    BY <1>9 DEF Page!Settle, Page!Restarted
  <2> QED BY <2>1 DEF ScreenInv
<1>10. ASSUME NEW s \in Slot, NEW t, NEW version, NEW column, NEW note, NEW dialog,
              Page!Submit(s, t, version, column, note, dialog)
       PROVE  ScreenInv'
  <2>1. UNCHANGED <<server, since>> /\ fetch'.state = "none" /\ slots'[s].pc = "cancelled"
    BY <1>0, <1>10 DEF Page!Submit, Page!NoFetch
  <2>2. ~Quiet(slots')
    BY <2>1 DEF Quiet
  <2> QED BY <2>1, <2>2, BusyScreen
<1>11. ASSUME NEW s \in Slot, Page!Save(s) \/ Page!ConfirmDelete(s) PROVE ScreenInv'
  BY <1>10, <1>11 DEF Page!Save, Page!ConfirmDelete
<1>12. ASSUME NEW s \in Slot, NEW t \in Task, NEW column \in Column, Page!Drag(s, t, column)
       PROVE  ScreenInv'
  BY <1>10, <1>12 DEF Page!Drag
<1>13. ASSUME NEW t \in Task, Page!OtherSaves(t) PROVE ScreenInv'
  <2>1. PICK row : Page!Saved(t, row)
    BY <1>13 DEF Page!OtherSaves
  <2>2. UNCHANGED <<cache, fetch, stale, slots>>
    BY <1>13 DEF Page!OtherSaves
  <2> QED BY <2>1, <2>2, SavedScreen
<1>14. CASE \/ \E t \in Task : Page!OpenForm(t)
            \/ \E column \in Column : Page!ChooseColumn(column)
            \/ Page!CloseForm \/ Page!Reload \/ Page!ReloadArrives
            \/ Page!RequestDelete \/ Page!KeepTask
  BY <1>1, <1>14 DEF Page!OpenForm, Page!ChooseColumn, Page!CloseForm, Page!Reload,
                     Page!ReloadArrives, Page!RequestDelete, Page!KeepTask
<1> QED BY <1>2, <1>3, <1>4, <1>5, <1>6, <1>7, <1>8, <1>9, <1>11, <1>12, <1>13, <1>14 DEF Page!Next

(* useTaskMutations.ts, RosterSection.tsx, AttachmentField.tsx: once nothing is under  *)
(* way and the last read succeeded, the board page, the pending invitations and the      *)
(* attachments in an open dialog show what was saved at some moment after this client's    *)
(* own last request, in whatever order rollbacks, refetches and answers came.                *)
THEOREM ScreensReconcile ==
  Page!Spec /\ Members!Spec /\ Files!Spec => []ScreenReconciled
<1>. PageAssumption /\ PageSize \in Nat
  BY ClientAssumption DEF PageAssumption
<1> DEFINE Inv == PageInv /\ ScreenInv
<1>1. Page!Init => Inv
  BY PageInit, ScreenInit
<1>2. Inv /\ [Page!Next]_(Page!vars) => Inv'
  BY PageNext, ScreenNext
<1>3. Inv => Page!ScreenReconciled
  BY DEF PageInv, GenuineList, Lists, ScreenInv, Page!ScreenReconciled, Held, Quiet, Page!NoFetch
<1>4. Page!ScreenReconciled /\ Members!RosterReconciled /\ Files!AttachmentsReconciled
        => ScreenReconciled
  BY DEF ScreenReconciled
<1>5. Page!Spec => []Inv
  <2> HIDE DEF Inv
  <2> QED BY <1>1, <1>2, PTL DEF Page!Spec
<1> QED BY <1>3, <1>4, <1>5, RosterAlways, AttachedAlways, PTL
==============================================================================
