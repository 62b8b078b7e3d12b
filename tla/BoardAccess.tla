------------------------------ MODULE BoardAccess -----------------------------
(****************************************************************************)
(* Who may see a board, and what the board list shows of it: boards.service,  *)
(* boards.repository, boards.cache, invitations.service and                   *)
(* invitations.repository, on one board. Invitation transactions are          *)
(* SERIALIZABLE: they act on the snapshot of their first read and abort when  *)
(* what they read has changed. The list cache is Redis, outside of them all.  *)
(****************************************************************************)
EXTENDS Integers, FiniteSets

CONSTANTS User, Owner,       \* accounts; the address of each is its own
          Invitation, Handler,
          RequestRole,       \* roles that clients invite to
          MaxVersion,        \* bound: edits of the board
          MaxTries           \* 3 runs of a revocation or an acceptance

Role == {"ADMIN", "MANAGER", "CONTRIBUTOR"}

ASSUME OwnerAssumption ==
  Owner \in User /\ RequestRole \subseteq Role /\ MaxTries \in Nat \ {0}

VARIABLES
  version,     \* board.version; 0 before the board is created
  role,        \* the board_membership table: the role of each user, or "none"
  invitation,  \* the board_invitation table
  cache,       \* first page of each user's board list in Redis, or NoPage
  pc, req, seen, tries, targets,    \* the handlers
  raced,       \* listings under which the user's boards changed
  excused      \* users whose cached page may be out of date

tables == <<version, role, invitation>>
handlers == <<pc, req, seen, tries, targets, raced>>
vars == <<tables, cache, handlers, excused>>

Members == {u \in User : role[u] # "none"}
NoPage == [version |-> 0, count |-> 0]
Page(u) ==
  IF u \in Members THEN [version |-> version, count |-> Cardinality(Members)]
  ELSE [version |-> 0, count |-> 1]              \* a page without the board

Unsent == [email |-> Owner, role |-> "CONTRIBUTOR", state |-> "none", expired |-> FALSE]
NoRequest == [user |-> Owner, email |-> Owner, inv |-> {}, role |-> "CONTRIBUTOR",
              version |-> 0, late |-> FALSE]
NothingSeen == [member |-> FALSE, rows |-> <<>>, page |-> NoPage, members |-> {}]

Init ==
  /\ version = 0
  /\ role = [u \in User |-> "none"]
  /\ invitation = [i \in Invitation |-> Unsent]
  /\ cache = [u \in User |-> NoPage]
  /\ pc = [h \in Handler |-> "idle"]
  /\ req = [h \in Handler |-> NoRequest]
  /\ seen = [h \in Handler |-> NothingSeen]
  /\ tries = [h \in Handler |-> 1]
  /\ targets = [h \in Handler |-> {}]
  /\ raced = {} /\ excused = {}

Goto(h, label) == pc' = [pc EXCEPT ![h] = label]
Kept(h) == UNCHANGED <<req, seen, tries, targets>>

(* The request is answered, or its process died: nothing of it is left.        *)
Finished(h) ==
  /\ Goto(h, "idle")
  /\ req' = [req EXCEPT ![h] = NoRequest]
  /\ seen' = [seen EXCEPT ![h] = NothingSeen]
  /\ tries' = [tries EXCEPT ![h] = 1]
  /\ targets' = [targets EXCEPT ![h] = {}]

(* A commit, seen by the listings under way for the users whose page it changes. *)
Listing == {"count", "store"}
Noticed ==
  raced' = raced \cup
    {g \in Handler : pc[g] \in Listing /\ \E u \in {req[g].user} : Page(u)' # Page(u)}

Receive(h, r, first) ==
  /\ pc[h] = "idle"
  /\ req' = [req EXCEPT ![h] = r]
  /\ Goto(h, first)
  /\ UNCHANGED <<tables, cache, excused, seen, tries, targets, raced>>

-----------------------------------------------------------------------------
(* Boards *)

CreateBoard(h) ==
  /\ pc[h] = "idle" /\ version = 0
  /\ version' = 1
  /\ role' = [role EXCEPT ![Owner] = "ADMIN"]
  /\ targets' = [targets EXCEPT ![h] = {Owner}]
  /\ Goto(h, "invalidate")
  /\ UNCHANGED <<invitation, cache, excused, req, seen, tries>>
  /\ Noticed

(* Only administrators edit, at the version they were shown.                   *)
EditBoard(h) ==
  \E u \in User, v \in 1..version :
    /\ role[u] = "ADMIN" /\ version < MaxVersion
    /\ Receive(h, [NoRequest EXCEPT !.user = u, !.version = v], "edit")

(* Slip: only the editor's own page is dropped. *)
Caller(h) == {req[h].user}
Audience(h) == Members

(* updateBoardForAdmin: the update waits for the lock on the row and decides by the *)
(* version; then it reads the members, who change under it, as the lock keeps nobody  *)
(* from joining; then it commits. A member who joined meanwhile is not told: the        *)
(* members that were there when they were read are kept as a history.                     *)
Editing == {"edited", "commit"}

UpdateBoard(h) ==
  /\ pc[h] = "edit"
  /\ \/ req[h].version # version /\ Finished(h)
     \/ /\ req[h].version = version /\ ~\E g \in Handler : pc[g] \in Editing
        /\ Goto(h, "edited") /\ Kept(h)
  /\ UNCHANGED <<tables, cache, excused, raced>>

ReadAudience(h) ==
  /\ pc[h] = "edited"
  /\ targets' = [targets EXCEPT ![h] = Audience(h)]
  /\ seen' = [seen EXCEPT ![h].members = Members]
  /\ Goto(h, "commit")
  /\ UNCHANGED <<tables, cache, excused, req, tries, raced>>

CommitEdit(h) ==
  /\ pc[h] = "commit"
  /\ version' = version + 1
  /\ excused' = excused \cup (Members \ seen[h].members)
  /\ seen' = [seen EXCEPT ![h] = NothingSeen]
  /\ Goto(h, "invalidate")
  /\ UNCHANGED <<role, invitation, cache, req, tries, targets>>
  /\ Noticed

(* One DEL for all targets; a failure is logged and swallowed.                 *)
Invalidate(h) ==
  /\ pc[h] = "invalidate"
  /\ \/ /\ cache' = [u \in User |-> IF u \in targets[h] THEN NoPage ELSE cache[u]]
        /\ excused' = excused \ targets[h]
     \/ UNCHANGED cache /\ excused' = excused \cup targets[h]
  /\ Finished(h)
  /\ UNCHANGED <<tables, raced>>

(* listBoards, first page: a hit is the answer, a miss or an error of Redis    *)
(* asks the database, in two statements, and stores what they returned.        *)
ListBoards(h) == \E u \in User : Receive(h, [NoRequest EXCEPT !.user = u], "get")

Get(h) ==
  /\ pc[h] = "get"
  /\ \/ cache[req[h].user] # NoPage /\ Finished(h)
     \/ Goto(h, "query") /\ Kept(h)
  /\ UNCHANGED <<tables, cache, excused, raced>>

Query(h) ==
  /\ pc[h] = "query"
  /\ seen' = [seen EXCEPT ![h].page = Page(req[h].user)]
  /\ Goto(h, "count")
  /\ raced' = raced \ {h}
  /\ UNCHANGED <<tables, cache, excused, req, tries, targets>>

Count(h) ==
  /\ pc[h] = "count"
  /\ seen' = [seen EXCEPT ![h].page.count =
                IF seen[h].page.version = 0 THEN 1 ELSE Cardinality(Members)]
  /\ Goto(h, "store")
  /\ UNCHANGED <<tables, cache, excused, req, tries, targets, raced>>

Store(h) ==
  LET u == req[h].user
  IN /\ pc[h] = "store"
     /\ \/ /\ cache' = [cache EXCEPT ![u] = seen[h].page]
           /\ excused' = IF h \in raced THEN excused \cup {u} ELSE excused \ {u}
        \/ UNCHANGED <<cache, excused>>
     /\ Finished(h)
     /\ raced' = raced \ {h}
     /\ UNCHANGED tables

Expire(u) ==
  /\ cache[u] # NoPage
  /\ cache' = [cache EXCEPT ![u] = NoPage]
  /\ excused' = excused \ {u}
  /\ UNCHANGED <<tables, handlers>>

-----------------------------------------------------------------------------
(* Invitations *)

Live(state) == state = "pending"

(* Administrators and managers invite; only administrators invite one.         *)
Invite(h) ==
  \E u, to \in User, r \in RequestRole :
    /\ role[u] \in {"ADMIN", "MANAGER"} /\ (r = "ADMIN" => role[u] = "ADMIN")
    /\ Receive(h, [NoRequest EXCEPT !.user = u, !.email = to, !.role = r], "invite")

Revoke(h) ==
  \E u \in User, i \in Invitation :
    /\ invitation[i].state # "none"
    /\ Receive(h, [NoRequest EXCEPT !.user = u, !.inv = {i}], "revoke")

(* The moment that decides expiry is taken when the request arrives.           *)
Accept(h) ==
  \E u \in User, i \in Invitation :
    /\ invitation[i].state # "none"
    /\ Receive(h, [NoRequest EXCEPT !.user = u, !.email = u, !.inv = {i},
                                    !.late = invitation[i].expired], "accept")

(* What the transaction of h reads: the membership of the address, and the     *)
(* invitation named, or all of that address.                                   *)
Relevant(h) ==
  IF pc[h] \in {"invite", "inviting"}
    THEN {i \in Invitation : invitation[i].state # "none" /\ invitation[i].email = req[h].email}
    ELSE req[h].inv
Reads(h) ==
  [member |-> role[req[h].email] # "none", rows |-> [i \in Relevant(h) |-> invitation[i].state],
   page |-> NoPage, members |-> {}]

Begin(h, label, running) ==
  /\ pc[h] = label
  /\ seen' = [seen EXCEPT ![h] = Reads(h)]
  /\ Goto(h, running)
  /\ UNCHANGED <<tables, cache, excused, req, tries, targets, raced>>

(* Slip: the default isolation level. *)
NotIsolated(h) == TRUE
Serializable(h) == seen[h] = Reads(h)

(* P2034, or P2002: begin again while there are tries, "create" has one only.   *)
Conflict(h) ==
  /\ pc[h] \in {"inviting", "revoking", "accepting"}
  /\ \E g \in Handler \ {h} : pc[g] # "idle" \/ ~Serializable(h)
  /\ IF pc[h] # "inviting" /\ tries[h] < MaxTries
       THEN /\ tries' = [tries EXCEPT ![h] = @ + 1]
            /\ Goto(h, IF pc[h] = "revoking" THEN "revoke" ELSE "accept")
            /\ UNCHANGED <<req, targets>>
            /\ seen' = [seen EXCEPT ![h] = NothingSeen]
       ELSE Finished(h)
  /\ UNCHANGED <<tables, cache, excused, raced>>

(* Slip: an earlier invitation to the address stays. *)
Unreplaced(h) == {}
Replaced(h) == {i \in DOMAIN seen[h].rows : Live(seen[h].rows[i])}

(* A member is refused; otherwise the pending invitation to the address is     *)
(* revoked and a new one made. The mail that follows changes nothing.          *)
CommitInvite(h) ==
  /\ pc[h] = "inviting" /\ Serializable(h)
  /\ IF seen[h].member THEN UNCHANGED invitation
     ELSE \E i \in Invitation :
            /\ invitation[i].state = "none"
            /\ invitation' = [j \in Invitation |->
                 CASE j = i -> [email |-> req[h].email, role |-> req[h].role,
                                state |-> "pending", expired |-> FALSE]
                   [] j \in Replaced(h) -> [invitation[j] EXCEPT !.state = "revoked"]
                   [] OTHER -> invitation[j]]
  /\ Finished(h)
  /\ UNCHANGED <<version, role, cache, excused, raced>>

(* A manager may not cancel an administrator's invitation; one that is not     *)
(* pending stays what it is.                                                   *)
CommitRevoke(h) ==
  /\ pc[h] = "revoking" /\ Serializable(h)
  /\ \E i \in req[h].inv :
       IF /\ Live(seen[h].rows[i])
          /\ \/ role[req[h].user] = "ADMIN"
             \/ role[req[h].user] = "MANAGER" /\ invitation[i].role # "ADMIN"
         THEN invitation' = [invitation EXCEPT ![i].state = "revoked"]
         ELSE UNCHANGED invitation
  /\ Finished(h)
  /\ UNCHANGED <<version, role, cache, excused, raced>>

(* Slip: the row is not asked whether it was revoked. *)
AcceptableOnce(h, i) ==
  seen[h].rows[i] # "accepted" /\ ~req[h].late /\ invitation[i].email = req[h].email
Acceptable(h, i) ==
  Live(seen[h].rows[i]) /\ ~req[h].late /\ invitation[i].email = req[h].email

(* The membership, unless there is one already, and the invitation together.   *)
CommitAccept(h) ==
  /\ pc[h] = "accepting" /\ Serializable(h)
  /\ \E i \in req[h].inv :
       IF Acceptable(h, i)
         THEN /\ invitation' = [invitation EXCEPT ![i].state = "accepted"]
              /\ role' = [role EXCEPT ![req[h].user] =
                            IF seen[h].member THEN @ ELSE invitation[i].role]
              /\ Goto(h, "audience")
              /\ Kept(h)
         ELSE Finished(h) /\ UNCHANGED <<invitation, role>>
  /\ UNCHANGED <<version, cache, excused>>
  /\ Noticed

(* listMemberIds, after the commit.                                            *)
ListMemberIds(h) ==
  /\ pc[h] = "audience"
  /\ targets' = [targets EXCEPT ![h] = Members]
  /\ Goto(h, "invalidate")
  /\ UNCHANGED <<tables, cache, excused, req, seen, tries, raced>>

(* Time passes for an invitation; expiry decides nothing once it is settled.    *)
TimeOut(i) ==
  /\ Live(invitation[i].state) /\ ~invitation[i].expired
  /\ invitation' = [invitation EXCEPT ![i].expired = TRUE]
  /\ UNCHANGED <<version, role, cache, handlers, excused>>

(* The process dies, or a statement fails; an edit that is not committed is rolled *)
(* back, an invalidation that was owed is lost.                                       *)
Owed(h) ==
  CASE pc[h] = "audience" -> Members
    [] pc[h] = "commit" -> {}
    [] OTHER -> targets[h]
Die(h) ==
  /\ pc[h] # "idle"
  /\ excused' = excused \cup Owed(h)
  /\ Finished(h)
  /\ raced' = raced \ {h}
  /\ UNCHANGED <<tables, cache>>

Next ==
  \/ \E h \in Handler :
       \/ CreateBoard(h) \/ EditBoard(h) \/ UpdateBoard(h) \/ ReadAudience(h) \/ CommitEdit(h)
       \/ Invalidate(h)
       \/ ListBoards(h) \/ Get(h) \/ Query(h) \/ Count(h) \/ Store(h)
       \/ Invite(h) \/ Begin(h, "invite", "inviting") \/ CommitInvite(h)
       \/ Revoke(h) \/ Begin(h, "revoke", "revoking") \/ CommitRevoke(h)
       \/ Accept(h) \/ Begin(h, "accept", "accepting") \/ CommitAccept(h)
       \/ ListMemberIds(h) \/ Conflict(h) \/ Die(h)
  \/ \E u \in User : Expire(u)
  \/ \E i \in Invitation : TimeOut(i)

Spec == Init /\ [][Next]_vars

-----------------------------------------------------------------------------
Shape ==
  [email : User, role : Role, state : {"none", "pending", "accepted", "revoked"},
   expired : BOOLEAN]
Request ==
  [user : User, email : User, inv : SUBSET Invitation, role : Role, version : Nat,
   late : BOOLEAN]
Label ==
  {"idle", "edit", "invalidate", "get", "query", "invite", "inviting", "revoke",
   "revoking", "accept", "accepting", "audience"} \cup Listing \cup Editing

TypeOK ==
  /\ version \in Nat
  /\ role \in [User -> Role \cup {"none"}]
  /\ invitation \in [Invitation -> Shape]
  /\ DOMAIN cache = User
  /\ pc \in [Handler -> Label]
  /\ req \in [Handler -> Request]
  /\ DOMAIN seen = Handler /\ \A h \in Handler : DOMAIN seen[h] = DOMAIN NothingSeen
  /\ tries \in [Handler -> 1..MaxTries]
  /\ targets \in [Handler -> SUBSET User]
  /\ raced \subseteq Handler /\ excused \subseteq User

(* The migration: "one pending invite per board+email". The unique index       *)
(* behind it is a net; the transactions never fall into it.                    *)
OnePending ==
  \A i, j \in Invitation :
    Live(invitation[i].state) /\ Live(invitation[j].state)
      /\ invitation[i].email = invitation[j].email => i = j

(* Nobody who is a member has an invitation pending: accept's "already a       *)
(* member" branch answers with a role the membership might not have, and only  *)
(* this keeps it from being taken.                                             *)
NoPendingForMember ==
  \A i \in Invitation : Live(invitation[i].state) => invitation[i].email \notin Members

(* A membership comes from creating the board or from accepting one invitation *)
(* to the same address, with its role; each accepted invitation left one.      *)
MembershipGranted ==
  /\ \A u \in Members \ {Owner} :
       \E i \in Invitation : /\ invitation[i].state = "accepted"
                             /\ invitation[i].email = u /\ invitation[i].role = role[u]
  /\ \A i, j \in Invitation :
       invitation[i].state = "accepted" =>
         /\ invitation[i].email \in Members
         /\ invitation[j].state = "accepted" /\ invitation[i].email = invitation[j].email => i = j

(* A revoked invitation admits nobody: once revoked, it is never accepted,     *)
(* whatever acceptance was under way or is tried again.                        *)
RevokedStaysRevoked ==
  [][\A i \in Invitation :
       invitation[i].state = "revoked" => invitation'[i].state = "revoked"]_vars

(* A cached page is the page of now, unless the commit that changed it still   *)
(* owes its invalidation, the invalidation was lost, a listing that read       *)
(* before that commit stored its page after it, or an edit had read whom to    *)
(* tell when the user joined and committed when she had listed her boards       *)
(* (boards.repository.ts:97-114).                                               *)
StalePageExplained ==
  \A u \in User : cache[u] \notin {NoPage, Page(u)} =>
    u \in excused \/ \E h \in Handler : u \in Owed(h)

(* Why these hold. A board has its owner from the start, and nobody else and no *)
(* invitation before it exists.                                                 *)
Founded ==
  IF version = 0 THEN Members = {} /\ \A i \in Invitation : invitation[i].state = "none"
  ELSE Owner \in Members

(* Edits and invitations are asked of a board; who accepts has the address; who *)
(* has no invalidation ahead owes none; an edit tells all members it has read.   *)
HandlerInv(h) ==
  /\ pc[h] \in {"edit"} \cup Editing => version # 0
  /\ pc[h] \in {"invite", "inviting"} => version # 0
  /\ pc[h] \in {"accept", "accepting"} => req[h].email = req[h].user
  /\ pc[h] \notin {"commit", "invalidate"} => targets[h] = {}
  /\ pc[h] = "commit" => targets[h] = seen[h].members

(* A listing under whose statements nothing changed has read the page of now.   *)
ListingInv(h) ==
  pc[h] \in Listing /\ h \notin raced => seen[h].page = Page(req[h].user)

AccessInv ==
  /\ TypeOK /\ Founded
  /\ \A h \in Handler : HandlerInv(h) /\ ListingInv(h)
  /\ OnePending /\ NoPendingForMember /\ MembershipGranted /\ StalePageExplained
==============================================================================
