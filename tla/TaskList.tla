------------------------------- MODULE TaskList -------------------------------
(****************************************************************************)
(* The task list of a board: the filters and keyset pages of the API, read by *)
(* a client that follows nextCursor while tasks are edited between its pages, *)
(* and the filter test that the web client applies to its own optimistic edits. *)
(* A name is its rank in the collation, a search term the rank it is found in  *)
(* and the number it spells; days count from the viewer's own.                 *)
(****************************************************************************)
EXTENDS Integers, FiniteSets, Sequences, Functions

CONSTANTS
  NoDate,    \* dueDate null
  Unset,       \* a filter that the query leaves out
  Limits,    \* page sizes that are asked for
  MaxEdits   \* bound: edits between the pages

VARIABLES
  rows,      \* the tasks of the board by sequence
  query,     \* the filters, the sort and the limit, as the client holds them
  listed,    \* the items of the pages so far, by sequence
  cursor,    \* nextCursor, or Start
  more,      \* whether a page is still to be asked for
  touched    \* tasks that were created, edited or deleted since the first page

vars == <<rows, query, listed, cursor, more, touched>>

Start == [key |-> NoDate, sequence |-> 0]
Active == {"NOT_STARTED", "IN_PROGRESS", "COMPLETED"}
Unfinished == {"NOT_STARTED", "IN_PROGRESS"}

Row(status, priority, assignee, due, name, made, needs) ==
  [status |-> status, priority |-> priority, assignee |-> assignee, due |-> due,
   name |-> name, made |-> made, needs |-> needs]   \* needs: statuses of its prerequisites

-----------------------------------------------------------------------------
(* The server's filters *)

(* The parsed query is copied field by field, and one field is not copied.     *)
Forwarded == [query EXCEPT !.blocking = Unset]

ResolveStatuses(q) ==
  (IF q.status = Unset THEN Active ELSE {q.status})
    \cup (IF q.includeArchived THEN {"ARCHIVED"} ELSE {})

(* Slip: seven days are added to today.                                        *)
SpanOfEight == 7
NextSevenDaysSpan == 6

DueMatches(due, filter) ==
  CASE filter = "NONE" -> due = NoDate
    [] filter = "OVERDUE" -> due # NoDate /\ due < 0
    [] filter = "TODAY" -> due = 0
    [] filter = "NEXT_7_DAYS" -> due # NoDate /\ due >= 0 /\ due <= NextSevenDaysSpan

SearchMatches(q, n, row) == row.name = q.q.word \/ n = q.q.number

FiltersWhere(q, n, row) ==
  /\ row.status \in ResolveStatuses(q)
  /\ q.blocking = "BLOCKED" => row.needs \cap Unfinished # {}
  /\ q.blocking = "UNBLOCKED" => row.needs \cap Unfinished = {}
  /\ q.priority # Unset => row.priority = q.priority
  /\ q.assignee # Unset => row.assignee = q.assignee
  /\ q.due # Unset => DueMatches(row.due, q.due)
  /\ q.q # Unset => SearchMatches(q, n, row)

Matching == {n \in DOMAIN rows : FiltersWhere(Forwarded, n, rows[n])}

-----------------------------------------------------------------------------
(* Orders and cursors *)

SortKeyOf(n, sort) ==
  CASE sort = "DUE_DATE" -> rows[n].due
    [] sort = "PRIORITY" -> rows[n].priority
    [] sort \in {"NEWEST", "OLDEST"} -> rows[n].made
    [] sort = "NAME" -> rows[n].name

Descending == {"PRIORITY", "NEWEST"}

(* Keys in the order of the sort: null is last, whatever it is compared with.  *)
KeyBefore(a, b, sort) ==
  IF a = NoDate \/ b = NoDate THEN a # NoDate /\ b = NoDate
  ELSE IF sort \in Descending THEN a > b ELSE a < b

OrderBy(m, n) ==
  LET a == SortKeyOf(m, query.sort)
      b == SortKeyOf(n, query.sort)
  IN KeyBefore(a, b, query.sort) \/ (a = b /\ m < n)

(* A comparison with null holds for no row, so the rows without a date have a   *)
(* disjunct of their own. Slip: they have none.                                 *)
DatedOnly(n, key) == FALSE
Undated(n, key) == key # NoDate /\ rows[n].due = NoDate

KeyAfter(n, key) ==
  LET k == SortKeyOf(n, query.sort)
  IN \/ k # NoDate /\ key # NoDate /\ KeyBefore(key, k, query.sort)
     \/ query.sort = "DUE_DATE" /\ Undated(n, key)

CursorWhere(n) ==
  \/ cursor = Start
  \/ KeyAfter(n, cursor.key)
  \/ SortKeyOf(n, query.sort) = cursor.key /\ n > cursor.sequence

(* The clause asks for a priority below the cursor's, and the client of the       *)
(* database knows no order among the values of an enum: it rejects the query.       *)
CursorAccepted == cursor = Start \/ query.sort # "PRIORITY"

(* The rows of a page in the order of the sort: every other row follows them.   *)
FirstOf(items, found) ==
  /\ \A i, j \in DOMAIN items : i < j => OrderBy(items[i], items[j])
  /\ \A i \in DOMAIN items, n \in found \ Range(items) : OrderBy(items[i], n)

(* listForMember asks for one row more than the page holds, which tells whether *)
(* rows are left, and listTasks makes the cursor from the last row it returns.   *)
ListForMember ==
  LET found == {n \in Matching : CursorWhere(n)}
      pages == {items \in UNION {[1..size -> found] : size \in 0..query.limit} :
                  /\ FirstOf(items, found)
                  /\ Len(items) < query.limit => Range(items) = found}
  IN {[items |-> items, hasMore |-> Range(items) # found] : items \in pages}

ListTasks ==
  /\ more /\ CursorAccepted
  /\ \E page \in ListForMember :
       LET last == page.items[Len(page.items)]
       IN /\ listed' = listed \o page.items
          /\ more' = page.hasMore
          /\ cursor' = IF page.hasMore
                       THEN [key |-> SortKeyOf(last, query.sort), sequence |-> last]
                       ELSE cursor
  /\ UNCHANGED <<rows, query, touched>>

(* The API answers 500, and the client may ask for the same page again.           *)
PageRefused == more /\ ~CursorAccepted /\ UNCHANGED vars

-----------------------------------------------------------------------------
(* The board changes meanwhile *)

Keys(sort) == CASE sort = "DUE_DATE" -> {NoDate, 0, 1}
                [] sort \in {"NEWEST", "OLDEST"} -> {0, 1}
                [] OTHER -> {1, 2}

Keyed(sort, key, status) ==
  Row(status,
      IF sort = "PRIORITY" THEN key ELSE 1, Unset,
      IF sort = "DUE_DATE" THEN key ELSE NoDate,
      IF sort = "NAME" THEN key ELSE 1,
      IF sort \in {"NEWEST", "OLDEST"} THEN key ELSE 0, {})

Write(n, row) ==
  /\ more /\ Cardinality(touched) < MaxEdits
  /\ rows' = [m \in DOMAIN rows \cup {n} |-> IF m = n THEN row ELSE rows[m]]
  /\ touched' = touched \cup {n}
  /\ UNCHANGED <<query, listed, cursor, more>>

Edit(n) == \E key \in Keys(query.sort), status \in {"NOT_STARTED", "ARCHIVED"} :
  /\ query.sort \in {"NEWEST", "OLDEST"} => key = rows[n].made
  /\ Write(n, Keyed(query.sort, key, status))

(* A new task takes the next sequence and, of the keys, the latest moment.       *)
Create == \E key \in Keys(query.sort) :
  /\ query.sort \in {"NEWEST", "OLDEST"} => key = 1
  /\ Write(Cardinality(DOMAIN rows \cup touched) + 1, Keyed(query.sort, key, "NOT_STARTED"))

Delete(n) ==
  /\ more /\ Cardinality(touched) < MaxEdits
  /\ rows' = [m \in DOMAIN rows \ {n} |-> rows[m]]
  /\ touched' = touched \cup {n}
  /\ UNCHANGED <<query, listed, cursor, more>>

-----------------------------------------------------------------------------
(* The web client's own test *)

IsBlocked(row) == row.needs \cap Unfinished # {}

DueDateMatchesFilter(due, filter) ==
  IF filter = "NONE" THEN due = NoDate
  ELSE /\ due # NoDate
       /\ filter = "OVERDUE" => due < 0
       /\ filter = "TODAY" => due = 0
       /\ filter = "NEXT_7_DAYS" => due \in 0..6

MatchesTaskFilters(q, n, row) ==
  /\ q.includeArchived \/ row.status # "ARCHIVED"
  /\ q.status # Unset => row.status = q.status
  /\ q.priority # Unset => row.priority = q.priority
  /\ q.blocking = "BLOCKED" => IsBlocked(row)
  /\ q.blocking = "UNBLOCKED" => ~IsBlocked(row)
  /\ q.assignee # Unset => row.assignee = q.assignee
  /\ q.due # Unset => DueDateMatchesFilter(row.due, q.due)
  /\ q.q # Unset => row.name = q.q.word \/ n = q.q.number

-----------------------------------------------------------------------------
(* The two questions start from different states: a list that is about to be   *)
(* read page by page, or one task under one query.                             *)

Query(sort, limit) ==
  [q |-> Unset, assignee |-> Unset, priority |-> Unset, status |-> Unset, blocking |-> Unset,
   includeArchived |-> FALSE, due |-> Unset, sort |-> sort, limit |-> limit]

Paging ==
  /\ query \in {Query(sort, limit) :
                  sort \in {"DUE_DATE", "PRIORITY", "NEWEST", "OLDEST", "NAME"}, limit \in Limits}
  /\ rows \in [1..3 -> {Keyed(query.sort, key, status) :
                          key \in Keys(query.sort), status \in {"NOT_STARTED", "ARCHIVED"}}]
  /\ more = TRUE

Terms == {[word |-> w, number |-> n] : w \in {1, 3}, n \in {0, 1}}

(* At most two filters at a time: each is a conjunct, on both sides.            *)
Filtering ==
  /\ query \in
       LET none == Query("DUE_DATE", 1)
           one(q) == {[q EXCEPT !.q = t] : t \in Terms}
             \cup {[q EXCEPT !.assignee = a] : a \in {"none", "me"}}
             \cup {[q EXCEPT !.priority = p] : p \in {1, 2}}
             \cup {[q EXCEPT !.status = s] : s \in Active}
             \cup {[q EXCEPT !.blocking = b] : b \in {"BLOCKED", "UNBLOCKED"}}
             \cup {[q EXCEPT !.includeArchived = TRUE]}
             \cup {[q EXCEPT !.due = d] : d \in {"NONE", "OVERDUE", "TODAY", "NEXT_7_DAYS"}}
       IN {none} \cup one(none) \cup UNION {one(q) : q \in one(none)}
  /\ \E status \in Active \cup {"ARCHIVED"}, priority \in {1, 2}, assignee \in {"none", "me"},
        due \in {NoDate, -1, 0, 6, 7}, name \in {1, 2},
        needs \in {{}, {"COMPLETED", "ARCHIVED"}, {"COMPLETED", "NOT_STARTED"}} :
       rows = [n \in {1} |-> Row(status, priority, assignee, due, name, 0, needs)]
  /\ more = FALSE

Init ==
  /\ listed = << >> /\ cursor = Start /\ touched = {}
  /\ Paging \/ Filtering

Next == ListTasks \/ PageRefused \/ Create \/ \E n \in DOMAIN rows : Edit(n) \/ Delete(n)

Spec == Init /\ [][Next]_vars

-----------------------------------------------------------------------------
(* Properties *)

(* A client that read to the end has seen every task that nobody touched        *)
(* meanwhile exactly once if it matches and never if it does not, and saw them   *)
(* in the order of the sort: equal keys, missing dates and the row under the     *)
(* cursor moving away or vanishing neither skip nor repeat another task. (Only   *)
(* one page by priority is ever read: see NextPageAnswered.)                        *)
ListedExactlyOnce ==
  (~more /\ listed # << >>) =>
    /\ \A n \in DOMAIN rows \ touched :
         Cardinality({i \in DOMAIN listed : listed[i] = n}) = (IF n \in Matching THEN 1 ELSE 0)
    /\ \A i, j \in DOMAIN listed :
         (i < j /\ {listed[i], listed[j]} \cap touched = {}) => OrderBy(listed[i], listed[j])

(* Where the filters mean the same on both sides, the client keeps a task in a    *)
(* view exactly when the server would list it. They differ in two cases only: the  *)
(* blocking filter, which the server never receives, and an archived task under a  *)
(* status filter, which the server lists when archived tasks are asked for.        *)
ClientMirrorsServer == \A n \in DOMAIN rows :
  (query.blocking = Unset /\ ~(query.status # Unset /\ rows[n].status = "ARCHIVED")) =>
    (n \in Matching <=> MatchesTaskFilters(query, n, rows[n]))

(* The documented pagination, for every sort: while pages are left, the cursor that    *)
(* the last page handed out leads to the next one (tasks.repository.ts:200).             *)
NextPageAnswered == more => CursorAccepted

(* The documented meaning of the blocking filter: it lists blocked tasks only.    *)
BlockingFilterApplies ==
  query.blocking = "BLOCKED" => \A n \in Matching : IsBlocked(rows[n])
==============================================================================
