-------------------------- MODULE BoardAccess_proofs --------------------------
(****************************************************************************)
(* Whatever the number of users, invitations and handlers: one invitation   *)
(* is pending per address and none for a member, a membership is what an    *)
(* accepted invitation granted, a revoked invitation is never accepted, and *)
(* a stale page of the board list has one of the causes that are known.     *)
(****************************************************************************)
EXTENDS BoardAccess, TLAPS

HandlerStep(h) ==
  \/ CreateBoard(h) \/ EditBoard(h) \/ UpdateBoard(h) \/ ReadAudience(h) \/ CommitEdit(h)
  \/ Invalidate(h) \/ ListBoards(h) \/ Get(h) \/ Query(h) \/ Count(h) \/ Store(h)
  \/ Invite(h) \/ Begin(h, "invite", "inviting") \/ CommitInvite(h)
  \/ Revoke(h) \/ Begin(h, "revoke", "revoking") \/ CommitRevoke(h)
  \/ Accept(h) \/ Begin(h, "accept", "accepting") \/ CommitAccept(h)
  \/ ListMemberIds(h) \/ Conflict(h) \/ Die(h)

-----------------------------------------------------------------------------
(* Types *)

LEMMA TypeInit == Init => TypeOK
BY OwnerAssumption
DEF Init, TypeOK, Unsent, NoRequest, Shape, Request, Label, Role, NothingSeen

(* Both ways of ending a step for its handler.                                 *)
LEMMA FinishedType ==
  ASSUME TypeOK, NEW h \in Handler, Finished(h)
  PROVE  /\ pc' \in [Handler -> Label] /\ req' \in [Handler -> Request]
         /\ DOMAIN seen' = Handler /\ \A g \in Handler : DOMAIN seen'[g] = DOMAIN NothingSeen
         /\ tries' \in [Handler -> 1..MaxTries] /\ targets' \in [Handler -> SUBSET User]
<1>1. NoRequest \in Request /\ 1 \in 1..MaxTries /\ "idle" \in Label
  BY OwnerAssumption DEF NoRequest, Request, Role, Label
<1> QED BY <1>1 DEF Finished, Goto, TypeOK

LEMMA ReceiveType ==
  ASSUME TypeOK, NEW h \in Handler, NEW r \in Request, NEW first \in Label,
         Receive(h, r, first)
  PROVE  TypeOK'
BY DEF Receive, Goto, TypeOK, tables

LEMMA RequestsTyped ==
  ASSUME TypeOK, NEW h \in Handler,
         EditBoard(h) \/ ListBoards(h) \/ Invite(h) \/ Revoke(h) \/ Accept(h)
  PROVE  TypeOK'
<1>1. NoRequest \in Request /\ Role \subseteq Role
  BY OwnerAssumption DEF NoRequest, Request, Role
<1>2. {"edit", "get", "invite", "revoke", "accept"} \subseteq Label
  BY DEF Label
<1>3. CASE EditBoard(h)
  <2>1. PICK u \in User, v \in 1..version :
          Receive(h, [NoRequest EXCEPT !.user = u, !.version = v], "edit")
    BY <1>3 DEF EditBoard
  <2>2. v \in Nat
    BY DEF TypeOK
  <2>3. [NoRequest EXCEPT !.user = u, !.version = v] \in Request
    BY <1>1, <2>2 DEF Request
  <2> QED BY <1>2, <2>1, <2>3, ReceiveType
<1>4. CASE ListBoards(h)
  <2>1. PICK u \in User : Receive(h, [NoRequest EXCEPT !.user = u], "get")
    BY <1>4 DEF ListBoards
  <2>2. [NoRequest EXCEPT !.user = u] \in Request
    BY <1>1 DEF Request
  <2> QED BY <1>2, <2>1, <2>2, ReceiveType
<1>5. CASE Invite(h)
  <2>1. PICK u \in User, to \in User, r \in RequestRole :
          Receive(h, [NoRequest EXCEPT !.user = u, !.email = to, !.role = r], "invite")
    BY <1>5 DEF Invite
  <2>2. [NoRequest EXCEPT !.user = u, !.email = to, !.role = r] \in Request
    BY <1>1, OwnerAssumption DEF Request
  <2> QED BY <1>2, <2>1, <2>2, ReceiveType
<1>6. CASE Revoke(h)
  <2>1. PICK u \in User, i \in Invitation :
          Receive(h, [NoRequest EXCEPT !.user = u, !.inv = {i}], "revoke")
    BY <1>6 DEF Revoke
  <2>2. [NoRequest EXCEPT !.user = u, !.inv = {i}] \in Request
    BY <1>1 DEF Request
  <2> QED BY <1>2, <2>1, <2>2, ReceiveType
<1>7. CASE Accept(h)
  <2>1. PICK u \in User, i \in Invitation :
          Receive(h, [NoRequest EXCEPT !.user = u, !.email = u, !.inv = {i},
                                       !.late = invitation[i].expired], "accept")
    BY <1>7 DEF Accept
  <2>2. invitation[i].expired \in BOOLEAN
    BY DEF TypeOK, Shape
  <2>3. [NoRequest EXCEPT !.user = u, !.email = u, !.inv = {i},
                          !.late = invitation[i].expired] \in Request
    BY <1>1, <2>2 DEF Request
  <2> QED BY <1>2, <2>1, <2>3, ReceiveType
<1> QED BY <1>3, <1>4, <1>5, <1>6, <1>7

(* What a commit writes.                                                       *)
LEMMA WritesTyped ==
  ASSUME TypeOK, NEW h \in Handler,
         CommitInvite(h) \/ CommitRevoke(h) \/ CommitAccept(h)
  PROVE  invitation' \in [Invitation -> Shape] /\ role' \in [User -> Role \cup {"none"}]
<1>1. req[h] \in Request
  BY DEF TypeOK
<1>2. CASE CommitInvite(h)
  <2>1. UNCHANGED role
    BY <1>2 DEF CommitInvite
  <2>2. CASE UNCHANGED invitation
    BY <2>1, <2>2 DEF TypeOK
  <2>3. CASE ~UNCHANGED invitation
    <3> DEFINE sent == [email |-> req[h].email, role |-> req[h].role,
                        state |-> "pending", expired |-> FALSE]
    <3>1. PICK i \in Invitation :
            invitation' = [j \in Invitation |->
              CASE j = i -> sent
                [] j \in Replaced(h) -> [invitation[j] EXCEPT !.state = "revoked"]
                [] OTHER -> invitation[j]]
      BY <1>2, <2>3 DEF CommitInvite
    <3>2. sent \in Shape
      BY <1>1 DEF Request, Shape
    <3> HIDE DEF sent
    <3>3. \A j \in Invitation : /\ invitation[j] \in Shape
                                /\ [invitation[j] EXCEPT !.state = "revoked"] \in Shape
      BY DEF TypeOK, Shape
    <3>4. \A j \in Invitation : invitation'[j] \in Shape
      BY <3>1, <3>2, <3>3
    <3> QED BY <2>1, <3>1, <3>4 DEF TypeOK
  <2> QED BY <2>2, <2>3
<1>3. CASE CommitRevoke(h)
  BY <1>3 DEF CommitRevoke, TypeOK, Shape
<1>4. CASE CommitAccept(h)
  <2>1. PICK i \in Invitation :
          IF Acceptable(h, i)
            THEN /\ invitation' = [invitation EXCEPT ![i].state = "accepted"]
                 /\ role' = [role EXCEPT ![req[h].user] =
                               IF seen[h].member THEN @ ELSE invitation[i].role]
            ELSE UNCHANGED <<invitation, role>>
    BY <1>1, <1>4 DEF CommitAccept, Request
  <2>2. invitation[i].role \in Role /\ req[h].user \in User
    BY <1>1 DEF TypeOK, Shape, Request
  <2>3. role' \in [User -> Role \cup {"none"}]
    BY <2>1, <2>2 DEF TypeOK
  <2>4. invitation' \in [Invitation -> Shape]
    BY <2>1 DEF TypeOK, Shape
  <2> QED BY <2>3, <2>4
<1> QED BY <1>2, <1>3, <1>4

LEMMA TypeNext == TypeOK /\ [Next]_vars => TypeOK'
<1> SUFFICES ASSUME TypeOK, [Next]_vars PROVE TypeOK'
  OBVIOUS
<1>1. CASE UNCHANGED vars
  BY <1>1 DEF vars, tables, handlers, TypeOK
<1>2. ASSUME NEW u \in User, Expire(u) PROVE TypeOK'
  BY <1>2 DEF Expire, TypeOK, tables, handlers
<1>3. ASSUME NEW i \in Invitation, TimeOut(i) PROVE TypeOK'
  BY <1>3 DEF TimeOut, TypeOK, Shape, handlers
<1>4. ASSUME NEW h \in Handler, HandlerStep(h) PROVE TypeOK'
  <2>1. /\ {"invalidate", "query", "count", "store", "audience", "inviting", "revoking",
             "accepting", "revoke", "accept", "edited", "commit"} \subseteq Label
        /\ Members \in SUBSET User /\ req[h] \in Request
    BY DEF Label, Listing, Editing, Members, TypeOK
  <2>2. CASE EditBoard(h) \/ ListBoards(h) \/ Invite(h) \/ Revoke(h) \/ Accept(h)
    BY <2>2, RequestsTyped
  <2>3. CASE CreateBoard(h)
    BY <2>1, <2>3, OwnerAssumption DEF CreateBoard, Goto, Noticed, TypeOK, Role
  <2>4. CASE UpdateBoard(h) \/ ReadAudience(h) \/ CommitEdit(h)
    <3>1. CASE UpdateBoard(h)
      BY <2>1, <3>1, FinishedType DEF UpdateBoard, Goto, Kept, TypeOK, tables
    <3>2. CASE ReadAudience(h)
      BY <2>1, <3>2 DEF ReadAudience, Audience, NothingSeen, Goto, TypeOK, tables
    <3>3. CASE CommitEdit(h)
      BY <2>1, <3>3 DEF CommitEdit, Goto, NothingSeen, Noticed, TypeOK
    <3> QED BY <2>4, <3>1, <3>2, <3>3
  <2>5. CASE Invalidate(h)
    <3>1. DOMAIN cache' = User /\ excused' \subseteq User
      BY <2>5 DEF Invalidate, TypeOK
    <3> QED BY <2>5, <3>1, FinishedType DEF Invalidate, TypeOK, tables
  <2>6. CASE Get(h)
    BY <2>1, <2>6, FinishedType DEF Get, Goto, Kept, TypeOK, tables
  <2>7. CASE Query(h)
    BY <2>1, <2>7 DEF Query, Goto, TypeOK, tables
  <2>8. CASE Count(h)
    BY <2>1, <2>8 DEF Count, Goto, TypeOK, tables
  <2>9. CASE Store(h)
    <3>1. DOMAIN cache' = User /\ excused' \subseteq User /\ raced' \subseteq Handler
      BY <2>1, <2>9 DEF Store, TypeOK, Request
    <3> QED BY <2>9, <3>1, FinishedType DEF Store, TypeOK, tables
  <2>10. ASSUME NEW label, NEW running \in {"inviting", "revoking", "accepting"},
                Begin(h, label, running)
         PROVE  TypeOK'
    BY <2>1, <2>10 DEF Begin, Reads, NothingSeen, Goto, TypeOK, tables
  <2>11. CASE CommitInvite(h) \/ CommitRevoke(h)
    BY <2>11, FinishedType, WritesTyped DEF CommitInvite, CommitRevoke, TypeOK
  <2>12. CASE CommitAccept(h)
    <3>1. \/ Goto(h, "audience") /\ Kept(h)
          \/ Finished(h)
      BY <2>12 DEF CommitAccept
    <3> QED BY <2>1, <2>12, <3>1, FinishedType, WritesTyped
            DEF CommitAccept, Goto, Kept, Noticed, TypeOK
  <2>13. CASE ListMemberIds(h)
    BY <2>1, <2>13 DEF ListMemberIds, Goto, TypeOK, tables
  <2>14. CASE Conflict(h)
    <3>1. CASE Finished(h)
      BY <2>14, <3>1, FinishedType DEF Conflict, TypeOK, tables
    <3>2. CASE ~Finished(h)
      <4>1. tries[h] < MaxTries /\ tries[h] \in 1..MaxTries /\ MaxTries \in Nat
        BY <2>14, <3>2, OwnerAssumption DEF Conflict, TypeOK
      <4>2. tries[h] + 1 \in 1..MaxTries
        BY <4>1
      <4> QED BY <2>1, <2>14, <3>2, <4>2 DEF Conflict, Goto, TypeOK, tables
    <3> QED BY <3>1, <3>2
  <2>15. CASE Die(h)
    <3>1. Owed(h) \subseteq User
      BY <2>1 DEF Owed, TypeOK
    <3> QED BY <2>15, <3>1, FinishedType DEF Die, TypeOK, tables
  <2> QED BY <1>4, <2>2, <2>3, <2>4, <2>5, <2>6, <2>7, <2>8, <2>9, <2>10, <2>11, <2>12,
             <2>13, <2>14, <2>15
          DEF HandlerStep
<1> QED BY <1>1, <1>2, <1>3, <1>4 DEF Next, HandlerStep

-----------------------------------------------------------------------------
(* The tables *)

TablesInv == Founded /\ OnePending /\ NoPendingForMember /\ MembershipGranted

LEMMA TablesKept == TablesInv /\ UNCHANGED tables => TablesInv'
BY DEF TablesInv, Founded, OnePending, NoPendingForMember, MembershipGranted, Members, tables

(* The board starts with its owner and no invitation.                          *)
LEMMA CreateBoardTables ==
  ASSUME TypeOK, TablesInv, NEW h \in Handler, CreateBoard(h)
  PROVE  TablesInv'
<1>1. /\ version = 0 /\ version' = 1 /\ invitation' = invitation
      /\ role' = [role EXCEPT ![Owner] = "ADMIN"]
  BY DEF CreateBoard
<1>2. Members = {} /\ \A i \in Invitation : invitation[i].state = "none"
  BY <1>1 DEF TablesInv, Founded
<1>3. Members' = {Owner}
  BY <1>1, <1>2, OwnerAssumption DEF Members, TypeOK
<1> QED BY <1>1, <1>2, <1>3
        DEF TablesInv, Founded, OnePending, NoPendingForMember, MembershipGranted, Live

LEMMA CommitEditTables ==
  ASSUME TypeOK, TablesInv, NEW h \in Handler, CommitEdit(h), HandlerInv(h)
  PROVE  TablesInv'
<1>1. UNCHANGED <<role, invitation>>
  BY DEF CommitEdit
<1>2. version # 0 /\ version' = version + 1 /\ version \in Nat
  BY DEF CommitEdit, HandlerInv, Editing, TypeOK
<1>3. Founded'
  BY <1>1, <1>2 DEF TablesInv, Founded, Members
<1> QED BY <1>1, <1>3
        DEF TablesInv, OnePending, NoPendingForMember, MembershipGranted, Members

LEMMA ReadsMember ==
  ASSUME NEW h \in Handler, seen[h] = Reads(h)
  PROVE  seen[h].member <=> role[req[h].email] # "none"
<1>1. Reads(h).member = (role[req[h].email] # "none")
  BY DEF Reads
<1> QED BY <1>1, Zenon

(* An invitation goes to an address that is no member's, and replaces what was *)
(* pending for it: the snapshot it acted on is still the state of the tables.  *)
LEMMA CommitInviteTables ==
  ASSUME TypeOK, TablesInv, NEW h \in Handler, HandlerInv(h), CommitInvite(h)
  PROVE  TablesInv'
<1>1. CASE UNCHANGED invitation
  BY <1>1, TablesKept DEF CommitInvite, tables
<1>2. CASE ~UNCHANGED invitation
  <2> DEFINE to == req[h].email
             sent == [email |-> to, role |-> req[h].role, state |-> "pending",
                      expired |-> FALSE]
  <2>1. /\ pc[h] = "inviting" /\ seen[h] = Reads(h) /\ ~seen[h].member
        /\ version' = version /\ role' = role
    BY <1>2 DEF CommitInvite, Serializable
  <2>2. PICK i \in Invitation :
          /\ invitation[i].state = "none"
          /\ invitation' = [j \in Invitation |->
               CASE j = i -> sent
                 [] j \in Replaced(h) -> [invitation[j] EXCEPT !.state = "revoked"]
                 [] OTHER -> invitation[j]]
    BY <1>2 DEF CommitInvite
  <2>3. Replaced(h) = {j \in Invitation : Live(invitation[j].state) /\ invitation[j].email = to}
    BY <2>1 DEF Replaced, Reads, Relevant, Live
  <2>4. to \notin Members /\ version # 0
    <3>1. seen[h].member <=> role[to] # "none"
      BY <2>1, ReadsMember
    <3> QED BY <2>1, <3>1 DEF Members, HandlerInv
  <2>5. /\ invitation'[i].state = "pending" /\ invitation'[i].email = to
        /\ \A j \in Invitation \ {i} :
             /\ invitation'[j].email = invitation[j].email
             /\ invitation'[j].role = invitation[j].role
             /\ Live(invitation'[j].state) =>
                  Live(invitation[j].state) /\ invitation[j].email # to
             /\ invitation'[j].state = "accepted" <=> invitation[j].state = "accepted"
    BY <2>2, <2>3 DEF Live, TypeOK, Shape
  <2>6. Members' = Members
    BY <2>1 DEF Members
  <2>7. Founded'
    BY <2>1, <2>4, <2>6 DEF TablesInv, Founded
  <2>8. OnePending' /\ NoPendingForMember'
    BY <2>4, <2>5, <2>6 DEF TablesInv, OnePending, NoPendingForMember
  <2>9. MembershipGranted'
    BY <2>1, <2>2, <2>5, <2>6 DEF TablesInv, MembershipGranted, Live
  <2> QED BY <2>7, <2>8, <2>9 DEF TablesInv
<1> QED BY <1>1, <1>2

(* An invitation that is settled, or only expires.                             *)
LEMMA SettledTables ==
  ASSUME TypeOK, TablesInv, NEW i \in Invitation, Live(invitation[i].state),
         \/ invitation' = [invitation EXCEPT ![i].state = "revoked"]
         \/ invitation' = [invitation EXCEPT ![i].expired = TRUE],
         UNCHANGED <<version, role>>
  PROVE  TablesInv'
<1>1. /\ version # 0 /\ Members' = Members
      /\ \A j \in Invitation :
           /\ invitation'[j].email = invitation[j].email
           /\ invitation'[j].role = invitation[j].role
           /\ Live(invitation'[j].state) => Live(invitation[j].state)
           /\ invitation'[j].state = "accepted" <=> invitation[j].state = "accepted"
  BY DEF TablesInv, Founded, Live, Members, TypeOK, Shape
<1>2. Founded'
  BY <1>1 DEF TablesInv, Founded
<1>3. OnePending' /\ NoPendingForMember'
  BY <1>1 DEF TablesInv, OnePending, NoPendingForMember
<1>4. MembershipGranted'
  BY <1>1 DEF TablesInv, MembershipGranted
<1> QED BY <1>2, <1>3, <1>4 DEF TablesInv

LEMMA CommitRevokeTables ==
  ASSUME TypeOK, TablesInv, NEW h \in Handler, CommitRevoke(h)
  PROVE  TablesInv'
<1>1. CASE UNCHANGED invitation
  BY <1>1, TablesKept DEF CommitRevoke, tables
<1>2. CASE ~UNCHANGED invitation
  <2>1. PICK i \in req[h].inv :
          Live(seen[h].rows[i]) /\ invitation' = [invitation EXCEPT ![i].state = "revoked"]
    BY <1>2 DEF CommitRevoke
  <2>2. i \in Invitation /\ Live(invitation[i].state)
    BY <2>1 DEF CommitRevoke, Serializable, Reads, Relevant, TypeOK, Request
  <2> QED BY <2>1, <2>2, SettledTables DEF CommitRevoke
<1> QED BY <1>1, <1>2

(* An acceptance makes a member of who was none, and leaves the address no     *)
(* other invitation pending.                                                   *)
LEMMA CommitAcceptTables ==
  ASSUME TypeOK, TablesInv, NEW h \in Handler, HandlerInv(h), CommitAccept(h)
  PROVE  TablesInv'
<1>1. CASE UNCHANGED invitation /\ UNCHANGED role
  BY <1>1, TablesKept DEF CommitAccept, tables
<1>2. CASE ~(UNCHANGED invitation /\ UNCHANGED role)
  <2> DEFINE u == req[h].user
  <2>1. /\ pc[h] = "accepting" /\ seen[h] = Reads(h) /\ version' = version
        /\ req[h].email = u /\ u \in User
    BY DEF CommitAccept, Serializable, HandlerInv, TypeOK, Request
  <2>2. PICK i \in req[h].inv :
          /\ Acceptable(h, i)
          /\ invitation' = [invitation EXCEPT ![i].state = "accepted"]
          /\ role' = [role EXCEPT ![u] = IF seen[h].member THEN @ ELSE invitation[i].role]
    BY <1>2 DEF CommitAccept
  <2>3. i \in Invitation /\ Live(invitation[i].state) /\ invitation[i].email = u
    BY <2>1, <2>2 DEF Acceptable, Reads, Relevant, TypeOK, Request
  <2>4. u \notin Members /\ ~seen[h].member
    <3>1. seen[h].member <=> role[u] # "none"
      BY <2>1, ReadsMember
    <3>2. u \notin Members
      BY <2>3 DEF TablesInv, NoPendingForMember
    <3> QED BY <2>1, <3>1, <3>2 DEF Members
  <2>5. /\ invitation[i].role # "none" /\ invitation[i].role = role'[u]
        /\ Members' = Members \cup {u}
        /\ \A v \in User \ {u} : role'[v] = role[v]
    <3>1. invitation[i].role \in Role /\ role \in [User -> Role \cup {"none"}]
      BY <2>3 DEF TypeOK, Shape
    <3>2. role' = [role EXCEPT ![u] = invitation[i].role]
      BY <2>2, <2>4
    <3> QED BY <2>1, <3>1, <3>2 DEF Members, Role
  <2>6. /\ invitation'[i].state = "accepted" /\ version # 0
        /\ \A j \in Invitation :
             /\ invitation'[j].email = invitation[j].email
             /\ invitation'[j].role = invitation[j].role
             /\ j # i => invitation'[j].state = invitation[j].state
    BY <2>2, <2>3 DEF TypeOK, Shape, TablesInv, Founded, Live
  <2>7. \A j \in Invitation \ {i} : ~(Live(invitation[j].state) /\ invitation[j].email = u)
    BY <2>3 DEF TablesInv, OnePending
  <2>8. Founded'
    BY <2>1, <2>5, <2>6 DEF TablesInv, Founded
  <2>9. OnePending' /\ NoPendingForMember'
    <3>1. ~Live(invitation'[i].state)
      BY <2>6 DEF Live
    <3>2. \A j \in Invitation : Live(invitation'[j].state) =>
            /\ Live(invitation[j].state) /\ invitation'[j].email = invitation[j].email
            /\ invitation[j].email # u
      BY <2>6, <2>7, <3>1
    <3> QED BY <2>5, <3>2 DEF TablesInv, OnePending, NoPendingForMember
  <2>10. MembershipGranted'
    <3>1. \A v \in Members' \ {Owner} :
            \E j \in Invitation : /\ invitation'[j].state = "accepted"
                                  /\ invitation'[j].email = v /\ invitation'[j].role = role'[v]
      <4>1. SUFFICES ASSUME NEW v \in Members' \ {Owner}, v # u
                     PROVE  \E j \in Invitation :
                              /\ invitation'[j].state = "accepted"
                              /\ invitation'[j].email = v /\ invitation'[j].role = role'[v]
        BY <2>3, <2>5, <2>6
      <4>2. v \in Members \ {Owner} /\ v \in User
        BY <2>5, <4>1 DEF Members
      <4>3. PICK j \in Invitation : /\ invitation[j].state = "accepted"
                                   /\ invitation[j].email = v /\ invitation[j].role = role[v]
        BY <4>2 DEF TablesInv, MembershipGranted
      <4> QED BY <2>3, <2>5, <2>6, <4>1, <4>2, <4>3
    <3>2. \A j \in Invitation : invitation[j].state = "accepted" => invitation[j].email # u
      BY <2>4 DEF TablesInv, MembershipGranted
    <3>3. \A j, k \in Invitation :
            invitation'[j].state = "accepted" =>
              /\ invitation'[j].email \in Members'
              /\ invitation'[k].state = "accepted" /\ invitation'[j].email = invitation'[k].email
                   => j = k
      BY <2>3, <2>5, <2>6, <3>2 DEF TablesInv, MembershipGranted
    <3> QED BY <3>1, <3>3 DEF MembershipGranted
  <2> QED BY <2>8, <2>9, <2>10 DEF TablesInv
<1> QED BY <1>1, <1>2

LEMMA TablesNext ==
  ASSUME TypeOK, TablesInv, \A h \in Handler : HandlerInv(h), [Next]_vars
  PROVE  TablesInv'
<1>1. CASE UNCHANGED vars
  BY <1>1, TablesKept DEF vars
<1>2. ASSUME NEW u \in User, Expire(u) PROVE TablesInv'
  BY <1>2, TablesKept DEF Expire
<1>3. ASSUME NEW i \in Invitation, TimeOut(i) PROVE TablesInv'
  BY <1>3, SettledTables DEF TimeOut
<1>4. ASSUME NEW h \in Handler, HandlerStep(h) PROVE TablesInv'
  <2>1. CASE \/ EditBoard(h) \/ ListBoards(h) \/ Invite(h) \/ Revoke(h) \/ Accept(h)
             \/ UpdateBoard(h) \/ ReadAudience(h)
             \/ Invalidate(h) \/ Get(h) \/ Query(h) \/ Count(h) \/ Store(h)
             \/ ListMemberIds(h) \/ Conflict(h) \/ Die(h)
             \/ \E label, running : Begin(h, label, running)
    <3>1. UNCHANGED tables
      BY <2>1 DEF EditBoard, ListBoards, Invite, Revoke, Accept, Receive, UpdateBoard,
                  ReadAudience, Invalidate, Get, Query, Count, Store, ListMemberIds, Conflict, Die, Begin
    <3> QED BY <3>1, TablesKept
  <2>2. CASE CreateBoard(h)
    BY <2>2, CreateBoardTables
  <2>3. CASE CommitEdit(h)
    BY <2>3, CommitEditTables
  <2>4. CASE CommitInvite(h) \/ CommitRevoke(h) \/ CommitAccept(h)
    BY <2>4, CommitInviteTables, CommitRevokeTables, CommitAcceptTables
  <2> QED BY <1>4, <2>1, <2>2, <2>3, <2>4 DEF HandlerStep
<1> QED BY <1>1, <1>2, <1>3, <1>4 DEF Next, HandlerStep

-----------------------------------------------------------------------------
(* The handlers *)

(* A step of one handler leaves the others where they are.                     *)
LEMMA Others ==
  ASSUME TypeOK, NEW h \in Handler, HandlerStep(h), NEW g \in Handler, g # h
  PROVE  /\ pc'[g] = pc[g] /\ req'[g] = req[g] /\ seen'[g] = seen[g]
         /\ targets'[g] = targets[g] /\ (g \in raced => g \in raced')
<1> USE DEF TypeOK, Goto, Finished
<1>1. CASE EditBoard(h) \/ ListBoards(h) \/ Invite(h) \/ Revoke(h) \/ Accept(h)
  BY <1>1 DEF EditBoard, ListBoards, Invite, Revoke, Accept, Receive
<1>2. CASE CreateBoard(h) \/ UpdateBoard(h) \/ ReadAudience(h) \/ CommitEdit(h)
  BY <1>2 DEF CreateBoard, UpdateBoard, ReadAudience, CommitEdit, Kept, Noticed
<1>3. CASE Invalidate(h) \/ Get(h) \/ Query(h)
  BY <1>3 DEF Invalidate, Get, Query, Kept
<1>4. CASE Count(h) \/ Store(h)
  BY <1>4 DEF Count, Store
<1>5. CASE \E label, running : Begin(h, label, running)
  BY <1>5 DEF Begin
<1>6. CASE CommitInvite(h) \/ CommitRevoke(h)
  BY <1>6 DEF CommitInvite, CommitRevoke
<1>7. CASE CommitAccept(h)
  BY <1>7 DEF CommitAccept, Noticed, Kept
<1>8. CASE ListMemberIds(h) \/ Conflict(h) \/ Die(h)
  BY <1>8 DEF ListMemberIds, Conflict, Die
<1> QED BY <1>1, <1>2, <1>3, <1>4, <1>5, <1>6, <1>7, <1>8 DEF HandlerStep

(* Who changes a page tells the listings under way.                            *)
LEMMA ChangesNoticed ==
  ASSUME NEW h \in Handler, HandlerStep(h)
  PROVE  \/ UNCHANGED <<version, role>>
         \/ Noticed /\ (CreateBoard(h) \/ CommitEdit(h) \/ CommitAccept(h))
<1> USE DEF tables
<1>1. CASE EditBoard(h) \/ ListBoards(h) \/ Invite(h) \/ Revoke(h) \/ Accept(h)
  BY <1>1 DEF EditBoard, ListBoards, Invite, Revoke, Accept, Receive
<1>2. CASE CreateBoard(h) \/ CommitEdit(h) \/ CommitAccept(h)
  BY <1>2 DEF CreateBoard, CommitEdit, CommitAccept
<1>3. CASE \/ UpdateBoard(h) \/ ReadAudience(h)
           \/ Invalidate(h) \/ Get(h) \/ Query(h) \/ Count(h) \/ Store(h)
           \/ ListMemberIds(h) \/ Conflict(h) \/ Die(h)
  BY <1>3 DEF UpdateBoard, ReadAudience, Invalidate, Get, Query, Count, Store, ListMemberIds, Conflict, Die
<1>4. CASE CommitInvite(h) \/ CommitRevoke(h) \/ \E label, running : Begin(h, label, running)
  BY <1>4 DEF CommitInvite, CommitRevoke, Begin
<1> QED BY <1>1, <1>2, <1>3, <1>4 DEF HandlerStep

LEMMA VersionStays == TypeOK /\ [Next]_vars => version' \in {version, version + 1}
<1> SUFFICES ASSUME TypeOK, [Next]_vars PROVE version' \in {version, version + 1}
  OBVIOUS
<1>1. ASSUME NEW h \in Handler, HandlerStep(h) PROVE version' \in {version, version + 1}
  BY <1>1, ChangesNoticed DEF CreateBoard, CommitEdit, CommitAccept
<1>2. ASSUME NEW u \in User, Expire(u) PROVE version' = version
  BY <1>2 DEF Expire, tables
<1>3. ASSUME NEW i \in Invitation, TimeOut(i) PROVE version' = version
  BY <1>3 DEF TimeOut
<1> QED BY <1>1, <1>2, <1>3 DEF Next, HandlerStep, vars, tables

LEMMA HandlersNext ==
  ASSUME TypeOK, Founded, \A g \in Handler : HandlerInv(g), [Next]_vars,
         NEW g \in Handler
  PROVE  HandlerInv(g)'
<1>1. version # 0 => version' # 0
  BY VersionStays DEF TypeOK
<1>2. CASE pc'[g] = pc[g] /\ req'[g] = req[g] /\ targets'[g] = targets[g] /\ seen'[g] = seen[g]
  BY <1>1, <1>2 DEF HandlerInv
<1>3. ASSUME NEW h \in Handler, HandlerStep(h) PROVE HandlerInv(g)'
  <2>1. CASE g # h
    BY <1>2, <1>3, <2>1, Others
  <2> SUFFICES HandlerInv(h)'
    BY <2>1
  <2> USE DEF TypeOK, HandlerInv, Goto, Listing, Editing
  <2>2. CASE Finished(h)
    BY <2>2 DEF Finished
  <2>3. CASE EditBoard(h)
    <3>1. PICK u \in User, v \in 1..version :
            Receive(h, [NoRequest EXCEPT !.user = u, !.version = v], "edit")
      BY <2>3 DEF EditBoard
    <3>2. version # 0
      BY <3>1
    <3> QED BY <1>1, <3>1, <3>2 DEF Receive
  <2>4. CASE Invite(h)
    <3>1. PICK u \in User, to \in User, r \in RequestRole :
            /\ role[u] \in {"ADMIN", "MANAGER"}
            /\ Receive(h, [NoRequest EXCEPT !.user = u, !.email = to, !.role = r], "invite")
      BY <2>4 DEF Invite
    <3>2. version # 0
      BY <3>1 DEF Founded, Members
    <3> QED BY <1>1, <3>1, <3>2 DEF Receive
  <2>5. CASE Accept(h)
    BY <2>5 DEF Accept, Receive, NoRequest
  <2>6. CASE ListBoards(h) \/ Revoke(h)
    BY <2>6 DEF ListBoards, Revoke, Receive
  <2>7. CASE CreateBoard(h) \/ CommitEdit(h) \/ ListMemberIds(h)
    BY <2>7 DEF CreateBoard, CommitEdit, ListMemberIds
  <2>13. CASE UpdateBoard(h) \/ ReadAudience(h)
    BY <1>1, <2>2, <2>13 DEF UpdateBoard, ReadAudience, Audience, Kept, NothingSeen
  <2>8. CASE Get(h) \/ Query(h) \/ Count(h)
    BY <2>2, <2>8 DEF Get, Kept, Query, Count
  <2>9. CASE \/ Begin(h, "invite", "inviting") \/ Begin(h, "revoke", "revoking")
             \/ Begin(h, "accept", "accepting")
    BY <1>1, <2>9 DEF Begin
  <2>10. CASE CommitAccept(h)
    BY <2>2, <2>10 DEF CommitAccept, Kept
  <2>11. CASE Conflict(h)
    BY <2>2, <2>11 DEF Conflict
  <2>12. CASE Invalidate(h) \/ Store(h) \/ CommitInvite(h) \/ CommitRevoke(h) \/ Die(h)
    BY <2>2, <2>12 DEF Invalidate, Store, CommitInvite, CommitRevoke, Die
  <2> QED BY <1>3, <2>3, <2>4, <2>5, <2>6, <2>7, <2>8, <2>9, <2>10, <2>11, <2>12, <2>13
          DEF HandlerStep
<1> QED BY <1>2, <1>3 DEF Next, HandlerStep, vars, handlers, Expire, TimeOut

-----------------------------------------------------------------------------
(* The cached list *)

LEMMA PagesKept ==
  ASSUME UNCHANGED <<version, role>>
  PROVE  Members' = Members /\ \A u \in User : Page(u)' = Page(u)
<1>1. Members' = Members
  BY DEF Members
<1> QED BY <1>1 DEF Page

LEMMA ListingNext ==
  ASSUME TypeOK, Founded, \A g \in Handler : ListingInv(g), [Next]_vars,
         NEW g \in Handler
  PROVE  ListingInv(g)'
<1>1. PICK u \in User : u = req[g].user
  BY DEF TypeOK, Request
<1>2. ASSUME pc'[g] = pc[g], req'[g] = req[g], seen'[g] = seen[g], g \in raced => g \in raced',
             UNCHANGED <<version, role>> \/ Noticed
      PROVE  ListingInv(g)'
  <2>1. CASE Page(u)' = Page(u)
    BY <1>1, <1>2, <2>1 DEF ListingInv
  <2>2. CASE Page(u)' # Page(u)
    <3>1. Noticed
      BY <1>1, <1>2, <2>2, PagesKept
    <3>2. pc[g] \in Listing => g \in raced'
      BY <1>1, <2>2, <3>1 DEF Noticed
    <3> QED BY <1>2, <3>2 DEF ListingInv
  <2> QED BY <2>1, <2>2
<1>3. ASSUME NEW h \in Handler, HandlerStep(h) PROVE ListingInv(g)'
  <2>1. CASE g # h
    BY <1>2, <1>3, <2>1, Others, ChangesNoticed
  <2>2. CASE g = h /\ Query(h)
    <3>1. seen'[g].page = Page(u) /\ req' = req /\ UNCHANGED <<version, role>>
      BY <1>1, <2>2 DEF Query, TypeOK, NothingSeen, tables
    <3> QED BY <1>1, <3>1, PagesKept DEF ListingInv
  <2>3. CASE g = h /\ Count(h)
    <3>1. /\ seen'[g].page = [seen[g].page EXCEPT !.count =
                 IF seen[g].page.version = 0 THEN 1 ELSE Cardinality(Members)]
          /\ UNCHANGED <<version, role>> /\ req' = req /\ raced' = raced /\ pc[g] = "count"
      BY <2>3 DEF Count, TypeOK, NothingSeen, tables
    <3>2. ASSUME g \notin raced PROVE seen'[g].page = Page(u)
      <4>1. seen[g].page = Page(u)
        BY <1>1, <3>1, <3>2 DEF ListingInv, Listing
      <4>2. CASE u \in Members
        <5>1. version # 0
          BY <4>2 DEF Founded
        <5>2. Page(u) = [version |-> version, count |-> Cardinality(Members)]
          BY <4>2 DEF Page
        <5> QED BY <3>1, <4>1, <5>1, <5>2
      <4>3. CASE u \notin Members
        <5>1. Page(u) = [version |-> 0, count |-> 1]
          BY <4>3 DEF Page
        <5> QED BY <3>1, <4>1, <5>1
      <4> QED BY <4>2, <4>3
    <3> QED BY <1>1, <3>1, <3>2, PagesKept DEF ListingInv
  <2>4. CASE g = h /\ ~Query(h) /\ ~Count(h)
    <3>1. pc'[h] \notin Listing
      <4> USE DEF TypeOK, Goto, Listing
      <4>1. CASE Finished(h)
        BY <4>1 DEF Finished
      <4>2. CASE EditBoard(h) \/ ListBoards(h) \/ Invite(h) \/ Revoke(h) \/ Accept(h)
        BY <4>2 DEF EditBoard, ListBoards, Invite, Revoke, Accept, Receive
      <4>3. CASE CreateBoard(h) \/ CommitEdit(h) \/ Get(h) \/ CommitAccept(h) \/ ListMemberIds(h)
        BY <4>1, <4>3 DEF CreateBoard, CommitEdit, Get, CommitAccept, ListMemberIds
      <4>7. CASE UpdateBoard(h) \/ ReadAudience(h)
        BY <4>1, <4>7 DEF UpdateBoard, ReadAudience
      <4>4. CASE \/ Begin(h, "invite", "inviting") \/ Begin(h, "revoke", "revoking")
                 \/ Begin(h, "accept", "accepting")
        BY <4>4 DEF Begin
      <4>5. CASE Conflict(h)
        BY <4>1, <4>5 DEF Conflict
      <4>6. CASE Invalidate(h) \/ Store(h) \/ CommitInvite(h) \/ CommitRevoke(h) \/ Die(h)
        BY <4>1, <4>6 DEF Invalidate, Store, CommitInvite, CommitRevoke, Die
      <4> QED BY <1>3, <2>4, <4>2, <4>3, <4>4, <4>5, <4>6, <4>7 DEF HandlerStep
    <3> QED BY <2>4, <3>1 DEF ListingInv
  <2> QED BY <2>1, <2>2, <2>3, <2>4
<1>4. CASE \/ UNCHANGED vars \/ \E v \in User : Expire(v) \/ \E i \in Invitation : TimeOut(i)
  <2>1. UNCHANGED <<version, role, handlers>>
    BY <1>4 DEF vars, tables, Expire, TimeOut
  <2> QED BY <1>2, <2>1 DEF handlers
<1> QED BY <1>3, <1>4 DEF Next, HandlerStep

(* Nobody leaves a board, so an invalidation that is owed to its members stays *)
(* owed to each of them.                                                       *)
LEMMA MembersStay ==
  ASSUME TypeOK, NEW h \in Handler, HandlerStep(h)
  PROVE  Members \subseteq Members'
<1>1. CASE UNCHANGED role
  BY <1>1 DEF Members
<1>2. CASE CreateBoard(h)
  BY <1>2 DEF CreateBoard, Members, TypeOK
<1>3. CASE CommitAccept(h)
  <2>1. PICK i \in Invitation :
          \/ UNCHANGED role
          \/ role' = [role EXCEPT ![req[h].user] =
                        IF seen[h].member THEN @ ELSE invitation[i].role]
    BY <1>3 DEF CommitAccept, TypeOK, Request
  <2>2. invitation[i].role # "none"
    BY DEF TypeOK, Shape, Role
  <2>3. \A v \in Members : role'[v] # "none"
    BY <2>1, <2>2 DEF Members, TypeOK
  <2> QED BY <2>3 DEF Members
<1>4. CommitEdit(h) => UNCHANGED role
  BY DEF CommitEdit
<1> QED BY <1>1, <1>2, <1>3, <1>4, ChangesNoticed

LEMMA OwedStays ==
  ASSUME TypeOK, NEW h \in Handler, HandlerStep(h), NEW g \in Handler, g # h
  PROVE  Owed(g) \subseteq Owed(g)'
BY Others, MembersStay DEF Owed

(* A step that leaves the cache alone: the pages it changes are owed or excused. *)
LEMMA StillOwed ==
  ASSUME TypeOK, StalePageExplained, NEW h \in Handler, HandlerStep(h),
         UNCHANGED cache, excused \subseteq excused', Owed(h) \subseteq Owed(h)',
         \A u \in User : Page(u)' = Page(u) \/ u \in Owed(h)' \cup excused'
  PROVE  StalePageExplained'
<1> SUFFICES ASSUME NEW u \in User, cache'[u] \notin {NoPage, Page(u)'}
             PROVE  u \in excused' \/ \E g \in Handler : u \in Owed(g)'
  BY DEF StalePageExplained, NoPage
<1>1. CASE Page(u)' # Page(u)
  BY <1>1
<1>2. CASE Page(u)' = Page(u)
  <2>1. u \in excused \/ \E g \in Handler : u \in Owed(g)
    BY <1>2 DEF StalePageExplained
  <2> QED BY <2>1, OwedStays
<1> QED BY <1>1, <1>2

LEMMA NothingOwed ==
  ASSUME NEW h \in Handler, HandlerInv(h), pc[h] \notin {"invalidate", "audience"}
  PROVE  Owed(h) = {}
BY DEF Owed, HandlerInv

(* The commits that change pages owe them to all members, or excuse those who    *)
(* joined since the edit read whom to tell.                                        *)
LEMMA ChangesOwed ==
  ASSUME TypeOK, TablesInv, NEW h \in Handler, HandlerInv(h),
         CreateBoard(h) \/ CommitEdit(h) \/ CommitAccept(h)
  PROVE  /\ UNCHANGED cache /\ excused \subseteq excused' /\ Owed(h) = {}
         /\ \A u \in User : Page(u)' = Page(u) \/ u \in Owed(h)' \cup excused'
<1>1. UNCHANGED cache /\ excused \subseteq excused' /\ Owed(h) = {}
  BY NothingOwed DEF CreateBoard, CommitEdit, CommitAccept
<1>2. CASE UNCHANGED <<version, role>>
  BY <1>1, <1>2, PagesKept
<1>3. ASSUME Members' \subseteq Owed(h)' \cup excused', Members \subseteq Members'
      PROVE  \A u \in User : Page(u)' = Page(u) \/ u \in Owed(h)' \cup excused'
  BY <1>3 DEF Page
<1>4. CASE CreateBoard(h)
  <2>1. Owed(h)' = {Owner}
    BY <1>4 DEF CreateBoard, Goto, Owed, TypeOK
  <2>2. Members = {} /\ Members' = {Owner}
    BY <1>4, OwnerAssumption DEF CreateBoard, TablesInv, Founded, Members, TypeOK
  <2> QED BY <1>1, <1>3, <2>1, <2>2
<1>5. CASE CommitEdit(h)
  <2>1. /\ UNCHANGED <<role, targets>> /\ Goto(h, "invalidate")
        /\ excused' = excused \cup (Members \ targets[h])
    BY <1>5 DEF CommitEdit, HandlerInv
  <2>2. Owed(h)' = targets[h] /\ Members' = Members
    BY <2>1 DEF Goto, Owed, Members, TypeOK
  <2> QED BY <1>1, <1>3, <2>1, <2>2
<1>6. CASE CommitAccept(h) /\ ~UNCHANGED <<version, role>>
  <2>1. pc' = [pc EXCEPT ![h] = "audience"]
    BY <1>6 DEF CommitAccept, Goto
  <2>2. Owed(h)' = Members'
    BY <2>1 DEF Owed, TypeOK
  <2>3. Members \subseteq Members'
    BY <1>6, MembersStay DEF HandlerStep
  <2> QED BY <1>1, <1>3, <2>2, <2>3
<1> QED BY <1>1, <1>2, <1>4, <1>5, <1>6

LEMMA StaleNext ==
  ASSUME AccessInv, TablesInv, [Next]_vars
  PROVE  StalePageExplained'
<1> USE DEF AccessInv
<1>1. CASE UNCHANGED vars
  BY <1>1 DEF vars, tables, handlers, StalePageExplained, Page, Members, Owed
<1>2. ASSUME NEW v \in User, Expire(v) PROVE StalePageExplained'
  <2>1. /\ UNCHANGED <<version, role, pc, targets>>
        /\ cache' = [cache EXCEPT ![v] = NoPage] /\ excused' = excused \ {v}
    BY <1>2 DEF Expire, tables, handlers
  <2>2. Members' = Members /\ \A u \in User : Page(u)' = Page(u)
    BY <2>1, PagesKept
  <2>3. \A g \in Handler : Owed(g)' = Owed(g)
    BY <2>1, <2>2 DEF Owed
  <2>4. \A u \in User : cache'[u] \in {NoPage, cache[u]} /\ cache'[v] = NoPage
    BY <2>1 DEF TypeOK
  <2> QED BY <2>1, <2>2, <2>3, <2>4 DEF StalePageExplained, NoPage
<1>3. ASSUME NEW i \in Invitation, TimeOut(i) PROVE StalePageExplained'
  <2>1. UNCHANGED <<version, role, cache, excused, pc, targets>>
    BY <1>3 DEF TimeOut, handlers
  <2>2. Members' = Members /\ \A u \in User : Page(u)' = Page(u)
    BY <2>1, PagesKept
  <2> QED BY <2>1, <2>2 DEF StalePageExplained, Owed, NoPage
<1>4. ASSUME NEW h \in Handler, HandlerStep(h) PROVE StalePageExplained'
  <2>1. CASE CreateBoard(h) \/ CommitEdit(h) \/ CommitAccept(h)
    BY <1>4, <2>1, ChangesOwed, StillOwed
  <2> SUFFICES ASSUME ~CreateBoard(h), ~CommitEdit(h), ~CommitAccept(h)
               PROVE  StalePageExplained'
    BY <2>1
  <2>2. /\ UNCHANGED <<version, role>>
        /\ Members' = Members /\ \A u \in User : Page(u)' = Page(u)
    BY <1>4, ChangesNoticed, PagesKept
  <2>3. CASE ListMemberIds(h)
    <3>1. Owed(h) = Members /\ Owed(h)' = Members /\ UNCHANGED <<cache, excused>>
      BY <2>3 DEF ListMemberIds, Goto, Owed, TypeOK
    <3> QED BY <1>4, <2>2, <3>1, StillOwed
  <2>4. CASE Invalidate(h)
    <3>1. Owed(h) = targets[h]
      BY <2>4 DEF Invalidate, Owed
    <3>2. ASSUME NEW u \in User, u \notin targets[h], cache'[u] \notin {NoPage, Page(u)'}
          PROVE  u \in excused' \/ \E g \in Handler : u \in Owed(g)'
      <4>1. cache'[u] = cache[u] /\ (u \in excused => u \in excused')
        BY <2>4, <3>2 DEF Invalidate
      <4>2. u \in excused \/ \E g \in Handler \ {h} : u \in Owed(g)
        BY <2>2, <3>1, <3>2, <4>1 DEF StalePageExplained
      <4> QED BY <1>4, <4>1, <4>2, OwedStays
    <3>3. ASSUME NEW u \in User, u \in targets[h]
          PROVE  cache'[u] = NoPage \/ u \in excused'
      BY <2>4, <3>3 DEF Invalidate
    <3> QED BY <3>2, <3>3 DEF StalePageExplained, NoPage
  <2>5. CASE Store(h)
    <3> DEFINE w == req[h].user
    <3>1. Owed(h) = {} /\ w \in User
      BY <2>5, NothingOwed DEF Store, TypeOK, Request
    <3>2. ASSUME NEW u \in User, cache'[u] \notin {NoPage, Page(u)'}, u \notin excused'
          PROVE  \E g \in Handler : u \in Owed(g)'
      <4>1. cache'[u] = cache[u] /\ u \notin excused
        <5>1. CASE UNCHANGED <<cache, excused>>
          BY <3>2, <5>1
        <5>2. CASE ~UNCHANGED <<cache, excused>>
          <6>1. /\ pc[h] = "store" /\ cache' = [cache EXCEPT ![w] = seen[h].page]
                /\ excused' = IF h \in raced THEN excused \cup {w} ELSE excused \ {w}
            BY <2>5, <5>2 DEF Store
          <6>2. CASE u = w
            <7>1. h \notin raced
              BY <3>2, <6>1, <6>2
            <7>2. cache'[u] = Page(w)
              BY <3>1, <6>1, <6>2, <7>1 DEF ListingInv, Listing, TypeOK
            <7> QED BY <2>2, <3>2, <6>2, <7>2
          <6>3. CASE u # w
            BY <3>1, <3>2, <6>1, <6>3 DEF TypeOK
          <6> QED BY <6>2, <6>3
        <5> QED BY <5>1, <5>2
      <4>2. \E g \in Handler \ {h} : u \in Owed(g)
        BY <2>2, <3>1, <3>2, <4>1 DEF StalePageExplained
      <4> QED BY <1>4, <4>2, OwedStays
    <3> QED BY <3>2 DEF StalePageExplained, NoPage
  <2>6. CASE Die(h)
    <3>1. UNCHANGED cache /\ excused' = excused \cup Owed(h)
      BY <2>6 DEF Die
    <3>2. ASSUME NEW u \in User, cache'[u] \notin {NoPage, Page(u)'}
          PROVE  u \in excused' \/ \E g \in Handler : u \in Owed(g)'
      <4>1. u \in excused \/ \E g \in Handler : u \in Owed(g)
        BY <2>2, <3>1, <3>2 DEF StalePageExplained
      <4> QED BY <1>4, <3>1, <4>1, OwedStays
    <3> QED BY <3>2 DEF StalePageExplained, NoPage
  <2>7. CASE /\ ~ListMemberIds(h) /\ ~Invalidate(h) /\ ~Store(h) /\ ~Die(h)
    <3>1. UNCHANGED <<cache, excused>> /\ pc[h] \notin {"invalidate", "audience"}
      BY <1>4, <2>7
      DEF HandlerStep, EditBoard, UpdateBoard, ReadAudience, ListBoards, Invite, Revoke,
          Accept, Receive, Get, Query, Count, Begin, CommitInvite, CommitRevoke, Conflict
    <3>2. Owed(h) = {}
      BY <3>1, NothingOwed
    <3> QED BY <1>4, <2>2, <3>1, <3>2, StillOwed
  <2> QED BY <2>3, <2>4, <2>5, <2>6, <2>7
<1> QED BY <1>1, <1>2, <1>3, <1>4 DEF Next, HandlerStep

-----------------------------------------------------------------------------
(* The theorems *)

LEMMA AccessInit == Init => AccessInv
<1> SUFFICES ASSUME Init PROVE AccessInv
  OBVIOUS
<1> USE DEF Init
<1>1. TypeOK
  BY TypeInit
<1>2. Members = {} /\ \A i \in Invitation : invitation[i].state = "none"
  BY DEF Members, Unsent
<1>3. Founded /\ OnePending /\ NoPendingForMember /\ MembershipGranted
  BY <1>2 DEF Founded, OnePending, NoPendingForMember, MembershipGranted, Live
<1>4. StalePageExplained
  BY DEF StalePageExplained
<1>5. \A h \in Handler : HandlerInv(h) /\ ListingInv(h)
  BY DEF HandlerInv, ListingInv, Listing, Editing
<1> QED BY <1>1, <1>3, <1>4, <1>5 DEF AccessInv

LEMMA AccessNext == AccessInv /\ [Next]_vars => AccessInv'
<1> SUFFICES ASSUME AccessInv, [Next]_vars PROVE AccessInv'
  OBVIOUS
<1>1. TablesInv
  BY DEF AccessInv, TablesInv
<1>2. TypeOK'
  BY TypeNext DEF AccessInv
<1>3. TablesInv'
  BY <1>1, TablesNext DEF AccessInv
<1>4. \A h \in Handler : HandlerInv(h)' /\ ListingInv(h)'
  BY HandlersNext, ListingNext DEF AccessInv
<1>5. StalePageExplained'
  BY <1>1, StaleNext
<1> QED BY <1>2, <1>3, <1>4, <1>5 DEF AccessInv, TablesInv

(* Tables, handlers and cached pages keep what they rely on of each other: the *)
(* inductive invariant behind the theorems of this module.                     *)
THEOREM AccessInductive == Spec => []AccessInv
BY AccessInit, AccessNext, PTL DEF Spec

(* Racing invitations, revocations and acceptances leave at most one invitation *)
(* pending per address.                                                         *)
THEOREM OneInvitationPending == Spec => []OnePending
<1>1. AccessInv => OnePending
  BY DEF AccessInv
<1> QED BY <1>1, AccessInductive, PTL

(* No member has an invitation pending, so "already a member" is never taken.   *)
THEOREM MembersAreNotInvited == Spec => []NoPendingForMember
<1>1. AccessInv => NoPendingForMember
  BY DEF AccessInv
<1> QED BY <1>1, AccessInductive, PTL

(* A membership comes from one accepted invitation to the address, with its     *)
(* role, or from creating the board; each acceptance left one.                  *)
THEOREM MembershipsAreGranted == Spec => []MembershipGranted
<1>1. AccessInv => MembershipGranted
  BY DEF AccessInv
<1> QED BY <1>1, AccessInductive, PTL

(* A cached page of the board list is stale only while its invalidation is      *)
(* owed, or when it was lost, overtaken by a listing that read before it, or     *)
(* made for a member who joined after an edit had read whom to tell and before    *)
(* it committed.                                                                  *)
THEOREM StalePagesExplained == Spec => []StalePageExplained
<1>1. AccessInv => StalePageExplained
  BY DEF AccessInv
<1> QED BY <1>1, AccessInductive, PTL

LEMMA RevokedStep ==
  ASSUME AccessInv, [Next]_vars, NEW i \in Invitation, invitation[i].state = "revoked"
  PROVE  invitation'[i].state = "revoked"
<1> USE DEF AccessInv
<1>1. CASE UNCHANGED invitation
  BY <1>1
<1>2. CASE \E j \in Invitation : TimeOut(j)
  BY <1>2 DEF TimeOut, TypeOK, Shape
<1>3. ASSUME NEW h \in Handler, CommitInvite(h), ~UNCHANGED invitation
      PROVE  invitation'[i].state = "revoked"
  <2>1. PICK j \in Invitation :
          /\ invitation[j].state = "none"
          /\ i # j /\ i \notin Replaced(h) => invitation'[i] = invitation[i]
          /\ i # j /\ i \in Replaced(h) =>
               invitation'[i] = [invitation[i] EXCEPT !.state = "revoked"]
    BY <1>3 DEF CommitInvite
  <2> QED BY <2>1 DEF TypeOK, Shape
<1>4. ASSUME NEW h \in Handler, CommitRevoke(h) PROVE invitation'[i].state = "revoked"
  BY <1>4 DEF CommitRevoke, TypeOK, Shape
<1>5. ASSUME NEW h \in Handler, CommitAccept(h), ~UNCHANGED invitation
      PROVE  invitation'[i].state = "revoked"
  <2>1. PICK j \in req[h].inv : /\ Live(seen[h].rows[j])
                               /\ invitation' = [invitation EXCEPT ![j].state = "accepted"]
    BY <1>5 DEF CommitAccept, Acceptable
  <2>2. j \in Invitation /\ Live(invitation[j].state)
    BY <1>5, <2>1 DEF CommitAccept, Serializable, Reads, Relevant, TypeOK, Request
  <2>3. i # j
    BY <2>2 DEF Live
  <2> QED BY <2>1, <2>3 DEF TypeOK
<1>6. CASE \E u \in User : Expire(u)
  BY <1>1, <1>6 DEF Expire, tables
<1>7. ASSUME NEW h \in Handler, HandlerStep(h)
      PROVE  UNCHANGED invitation \/ CommitInvite(h) \/ CommitRevoke(h) \/ CommitAccept(h)
  BY <1>7
  DEF HandlerStep, EditBoard, ListBoards, Invite, Revoke, Accept, Receive, CreateBoard,
      UpdateBoard, ReadAudience, CommitEdit, Invalidate, Get, Query, Count, Store, Begin,
      ListMemberIds, Conflict, Die, tables
<1> QED BY <1>1, <1>2, <1>3, <1>4, <1>5, <1>6, <1>7 DEF Next, HandlerStep, vars, tables

(* Once revoked, an invitation is never accepted, whatever acceptance was under *)
(* way or is tried again after a conflict.                                      *)
THEOREM RevokedIsFinal == Spec => RevokedStaysRevoked
<1>1. AccessInv /\ [Next]_vars =>
        [\A i \in Invitation :
           invitation[i].state = "revoked" => invitation'[i].state = "revoked"]_vars
  BY RevokedStep
<1> QED BY <1>1, AccessInductive, PTL DEF Spec, RevokedStaysRevoked
==============================================================================
