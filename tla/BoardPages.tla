------------------------------ MODULE BoardPages ------------------------------
(****************************************************************************)
(* The other lists that are read page by page: a user's boards, a board's        *)
(* members and pending invitations, each from a cursor of the last row's time   *)
(* and id, and a task's attachments from a cursor that is only the last row's id. *)
(* Time is a small number; the rows that Init holds are in the past, a write in   *)
(* between is the latest.                                                        *)
(****************************************************************************)
EXTENDS Integers, FiniteSets, Sequences, Functions

CONSTANTS
  Limits,    \* page sizes that are asked for
  MaxEdits   \* bound: writes between the pages

VARIABLES
  rows,      \* by id: the time a list is ordered by, and whether its filter lets the row pass
  query,     \* which list, and the limit
  listed,    \* the ids of the pages so far
  cursor,    \* nextCursor, or Start
  more,      \* whether a page is still to be asked for
  touched    \* ids that were written since the first page

vars == <<rows, query, listed, cursor, more, touched>>

Lists == {"BOARDS", "MEMBERS", "INVITATIONS", "ATTACHMENTS"}
Start == [at |-> 0, id |-> -1]
Now == 3
RandomIds == {0, 4}   \* before and after the ids that Init holds

-----------------------------------------------------------------------------
(* One page *)

Newest(m, n) == rows[m].at > rows[n].at \/ (rows[m].at = rows[n].at /\ m > n)

Oldest(m, n) == rows[m].at < rows[n].at \/ (rows[m].at = rows[n].at /\ m < n)

OrderBy(m, n) == IF query.list = "ATTACHMENTS" THEN Oldest(m, n) ELSE Newest(m, n)

(* Rows after the cursor. Slip: the id is not compared among equal times.       *)
TimeOnly(n) == rows[n].at < cursor.at
CursorFilter(n) == rows[n].at < cursor.at \/ (rows[n].at = cursor.at /\ n < cursor.id)

(* The database looks the cursor row up, and finds nothing after one that is gone. *)
AfterRow(n) == cursor.id \in DOMAIN rows /\ Oldest(cursor.id, n)

Listable == {n \in DOMAIN rows : rows[n].shown}

After ==
  {n \in DOMAIN rows :
     cursor = Start \/ IF query.list = "ATTACHMENTS" THEN AfterRow(n) ELSE CursorFilter(n)}

(* The rows of a page in the order of the list: every other row follows them.   *)
FirstOf(items, found) ==
  /\ \A i, j \in DOMAIN items : i < j => OrderBy(items[i], items[j])
  /\ \A i \in DOMAIN items, n \in found \ Range(items) : OrderBy(items[i], n)

(* One row more than the page holds is read, which tells whether rows are left. *)
Page ==
  LET found == Listable \cap After
      pages == {items \in UNION {[1..size -> found] : size \in 0..query.limit} :
                  /\ FirstOf(items, found)
                  /\ Len(items) < query.limit => Range(items) = found}
  IN {[items |-> items, hasMore |-> Range(items) # found] : items \in pages}

Answer ==
  /\ \E page \in Page :
       LET last == page.items[Len(page.items)]
       IN /\ listed' = listed \o page.items
          /\ more' = page.hasMore
          /\ cursor' = IF page.hasMore THEN [at |-> rows[last].at, id |-> last] ELSE cursor
  /\ UNCHANGED <<rows, query, touched>>

ListBoards == query.list = "BOARDS" /\ Answer
ListMembers == query.list = "MEMBERS" /\ Answer
ListPending == query.list = "INVITATIONS" /\ Answer
ListAttachments == query.list = "ATTACHMENTS" /\ Answer

-----------------------------------------------------------------------------
(* Writes between the pages *)

Write(n) ==
  /\ Cardinality(touched) < MaxEdits
  /\ touched' = touched \cup {n}
  /\ UNCHANGED <<query, listed, cursor, more>>

(* A board, a membership, an invitation or a file comes, now and under a random id. *)
Insert(n) ==
  /\ n \notin DOMAIN rows \cup touched
  /\ Write(n)
  /\ rows' = [m \in DOMAIN rows \cup {n} |-> IF m = n THEN [at |-> Now, shown |-> TRUE] ELSE rows[m]]

(* An edit of a board, or the count of a task that is created on it, moves it up. *)
UpdateBoard(n) ==
  /\ query.list = "BOARDS" /\ Write(n)
  /\ rows' = [rows EXCEPT ![n].at = Now]

(* An invitation that is accepted or revoked is no longer pending.              *)
Decide(n) ==
  /\ query.list = "INVITATIONS" /\ rows[n].shown /\ Write(n)
  /\ rows' = [rows EXCEPT ![n].shown = FALSE]

RemoveAttachment(n) ==
  /\ query.list = "ATTACHMENTS" /\ Write(n)
  /\ rows' = [m \in DOMAIN rows \ {n} |-> rows[m]]

-----------------------------------------------------------------------------

Init ==
  /\ query \in [list : Lists, limit : Limits]
  /\ rows \in [1..3 -> [at : 1..2, shown : BOOLEAN]]
  /\ query.list \in {"MEMBERS", "ATTACHMENTS"} => \A n \in DOMAIN rows : rows[n].shown
  /\ listed = << >> /\ cursor = Start /\ more = TRUE /\ touched = {}

Next ==
  /\ more
  /\ \/ ListBoards \/ ListMembers \/ ListPending \/ ListAttachments
     \/ \E n \in RandomIds : Insert(n)
     \/ \E n \in DOMAIN rows : UpdateBoard(n) \/ Decide(n) \/ RemoveAttachment(n)

Spec == Init /\ [][Next]_vars

(* A client that read to the end has seen every row that nobody wrote meanwhile,  *)
(* exactly once and in order, with equal times and with the row under the cursor   *)
(* edited or decided. Only a list of attachments whose cursor row was removed ends *)
(* there, with the rest unseen and no sign of it.                                 *)
PagesComplete ==
  (~more /\ (query.list = "ATTACHMENTS" => cursor.id \in {Start.id} \cup DOMAIN rows)) =>
    /\ \A n \in DOMAIN rows \ touched :
         Cardinality({i \in DOMAIN listed : listed[i] = n}) = (IF rows[n].shown THEN 1 ELSE 0)
    /\ \A i, j \in DOMAIN listed :
         (i < j /\ {listed[i], listed[j]} \cap touched = {}) => OrderBy(listed[i], listed[j])
==============================================================================
