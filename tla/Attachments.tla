----------------------------- MODULE Attachments -----------------------------
(****************************************************************************)
(* attachments.service.ts: uploads and removals of one task's attachments,  *)
(* which live in two stores, the rows in Postgres and the objects in S3,    *)
(* with no transaction over both. Handlers interleave at every await, a     *)
(* call may fail or succeed and lose its answer, and the process may die.   *)
(****************************************************************************)
EXTENDS Integers, FiniteSets

CONSTANTS Object,      \* object keys, each generated for one upload
          Handler,     \* requests under way
          Size,        \* byteSize of the file behind each key
          MaxFile, MaxTotal    \* maxFileBytes, maxTaskBytes

VARIABLES stored, cleanup,
          row,       \* keys that have an attachment row
          visible,   \* the task is not deleted and the caller is a member
          pc, key,   \* statement and object of each handler
          total,     \* the sum it read
          used,      \* keys generated so far
          leaked,    \* objects whose compensation failed or never ran
          unanswered \* rows whose commit was not answered

service == <<row, visible, pc, key, total, used, leaked, unanswered>>
vars == <<stored, cleanup, service>>

Outbox == INSTANCE ObjectOutbox WITH stored <- stored, cleanup <- cleanup

(* _sum of byteSize: how many bytes there are in the files of some rows.       *)
TotalOf(rows) == Cardinality(UNION {{o} \X (1..Size[o]) : o \in rows})

Goto(h, label) == pc' = [pc EXCEPT ![h] = label]

Init ==
  /\ stored = {} /\ row = {} /\ used = {} /\ leaked = {} /\ unanswered = {}
  /\ cleanup = [o \in Object |-> "none"]
  /\ visible = TRUE
  /\ pc = [h \in Handler |-> "idle"]
  /\ key = [h \in Handler |-> CHOOSE o \in Object : TRUE]   \* no matter which
  /\ total = [h \in Handler |-> 0]

-----------------------------------------------------------------------------
(* upload *)

(* The task is the caller's, the file is not empty and not too large, its name *)
(* and content are acceptable: then a key is generated.                        *)
Accept(h) ==
  /\ pc[h] = "idle" /\ visible
  /\ Object \ used # {}
  /\ LET o == CHOOSE fresh \in Object : fresh \notin used
     IN /\ Size[o] \in 1..MaxFile
        /\ key' = [key EXCEPT ![h] = o]
        /\ used' = used \cup {o}
  /\ Goto(h, "put")
  /\ UNCHANGED <<stored, cleanup, row, visible, total, leaked, unanswered>>

(* Slip: the answer of the store is not looked at. *)
PutUnchecked(h) ==
  /\ pc[h] = "put"
  /\ stored' \in {stored, stored \cup {key[h]}}
  /\ Goto(h, "sum")
  /\ UNCHANGED <<cleanup, row, visible, key, total, used, leaked, unanswered>>

(* A put that fails may have stored the object all the same.                   *)
Put(h) ==
  /\ pc[h] = "put"
  /\ \/ stored' = stored \cup {key[h]} /\ Goto(h, "sum")
     \/ stored' \in {stored, stored \cup {key[h]}} /\ Goto(h, "compensate")
  /\ UNCHANGED <<cleanup, row, visible, key, total, used, leaked, unanswered>>

(* Slip: the file itself is not counted. *)
FitsBefore(h) == total[h] <= MaxTotal
Fits(h) == total[h] + Size[key[h]] <= MaxTotal

(* The transaction looks again for the task, then sums what is committed.      *)
Sum(h) ==
  /\ pc[h] = "sum"
  /\ total' = [total EXCEPT ![h] = TotalOf(row)]
  /\ Goto(h, IF visible THEN "insert" ELSE "compensate")
  /\ UNCHANGED <<stored, cleanup, row, visible, key, used, leaked, unanswered>>

(* Insert and commit: it succeeds and is answered, succeeds and the answer is  *)
(* lost, or fails; a file over the limit fails.                                *)
Insert(h) ==
  /\ pc[h] = "insert"
  /\ \/ /\ Fits(h)
        /\ row' = row \cup {key[h]}
        /\ \/ Goto(h, "idle") /\ UNCHANGED unanswered
           \/ Goto(h, "compensate") /\ unanswered' = unanswered \cup {key[h]}
     \/ Goto(h, "compensate") /\ UNCHANGED <<row, unanswered>>
  /\ UNCHANGED <<stored, cleanup, visible, key, total, used, leaked>>

(* Any error, whatever it says of the commit, deletes the object, best effort. *)
Compensate(h) ==
  /\ pc[h] = "compensate"
  /\ \/ stored' = stored \ {key[h]} /\ UNCHANGED leaked
     \/ stored' = stored /\ leaked' = leaked \cup {key[h]}
  /\ Goto(h, "idle")
  /\ UNCHANGED <<cleanup, row, visible, key, total, used, unanswered>>

(* The API process dies under the request; Postgres rolls its transaction back. *)
Die(h) ==
  /\ pc[h] # "idle"
  /\ leaked' = IF pc[h] = "remove" THEN leaked ELSE leaked \cup {key[h]}
  /\ stored' \in IF pc[h] = "put" THEN {stored, stored \cup {key[h]}} ELSE {stored}
  /\ Goto(h, "idle")
  /\ UNCHANGED <<cleanup, row, visible, key, total, used, unanswered>>

-----------------------------------------------------------------------------
(* content and remove *)

(* The object behind a row that content or remove found; only its own GET      *)
(* notices that it is missing (404).                                           *)
Find(h) ==
  /\ pc[h] = "idle" /\ visible
  /\ \E o \in row : key' = [key EXCEPT ![h] = o]
  /\ Goto(h, "remove")
  /\ UNCHANGED <<stored, cleanup, row, visible, total, used, leaked, unanswered>>

(* Slip: the row goes, the outbox learns nothing. *)
EnlistNothing(o) == UNCHANGED <<stored, cleanup>>
EnlistCleanup(o) == Outbox!Enlist(o)

(* One transaction deletes the row and enlists the object, or finds no row.    *)
Remove(h) ==
  /\ pc[h] = "remove"
  /\ IF key[h] \in row
       THEN row' = row \ {key[h]} /\ EnlistCleanup(key[h])
       ELSE UNCHANGED <<row, stored, cleanup>>
  /\ Goto(h, "idle")
  /\ UNCHANGED <<visible, key, total, used, leaked, unanswered>>

(* The task is deleted or restored, or the caller leaves or joins the board.   *)
Toggle ==
  /\ visible' = ~visible
  /\ UNCHANGED <<stored, cleanup, row, pc, key, total, used, leaked, unanswered>>

(* What the API does to files; the worker is what the outbox lets it be.        *)
Serve ==
  \/ \E h \in Handler : Accept(h) \/ Put(h) \/ Sum(h) \/ Insert(h) \/ Compensate(h)
                          \/ Die(h) \/ Find(h) \/ Remove(h)
  \/ Toggle

Next == Serve \/ (Outbox!Clean /\ UNCHANGED service)

Spec == Init /\ [][Next]_vars

-----------------------------------------------------------------------------
Labels == {"idle", "put", "sum", "insert", "compensate", "remove"}
Uploading == {key[h] : h \in {g \in Handler : pc[g] \in Labels \ {"idle", "remove"}}}

(* Rows, objects and handlers have the shape the code gives them.              *)
TypeOK ==
  /\ row \subseteq used /\ stored \subseteq used /\ used \subseteq Object
  /\ cleanup \in [Object -> {"none", "pending", "done"}]
  /\ pc \in [Handler -> Labels] /\ key \in [Handler -> Object]
  /\ total \in [Handler -> Nat] /\ visible \in BOOLEAN
  /\ leaked \subseteq used /\ unanswered \subseteq used

(* An attachment that is listed has its content, except one whose insert       *)
(* committed without an answer: upload then deletes the object of a live row.  *)
ListedHasContent == row \ stored \subseteq unanswered

(* No object is forgotten: it belongs to a row, to an upload under way or to   *)
(* the outbox, unless the request died or its compensation failed, which is    *)
(* all that leaks (no sweep looks for objects without a row).                  *)
NothingForgotten ==
  \A o \in stored :
    \/ o \in row \cup leaked \cup Uploading
    \/ cleanup[o] = "pending"

(* The limit per task is checked by a sum that locks nothing, so uploads under *)
(* way together can pass it, but by one file each beyond the first at most.    *)
OverrunBounded == TotalOf(row) <= MaxTotal + (Cardinality(Handler) - 1) * MaxFile
==============================================================================
