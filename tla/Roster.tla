-------------------------------- MODULE Roster --------------------------------
(****************************************************************************)
(* The members page as a manager sees it: the list of pending invitations with *)
(* its filter and its question before a cancellation (RosterSection.tsx), and    *)
(* the form that invites (InviteMemberSection.tsx). One invitation of each kind   *)
(* is sent from here at a time; others send, revoke and accept them too.           *)
(****************************************************************************)
EXTENDS FiniteSets

CONSTANTS
  Invitation,
  Admin,         \* the invitations that grant the admin role
  ByAdmin,       \* whether the viewer is an admin
  Nothing

VARIABLES
  unsent,        \* invitations nobody has sent yet
  pending,       \* the saved invitations that are neither accepted nor revoked
  listed,        \* the cached list
  refetch,       \* the refetch in flight: none, asked, or what it has read
  outdated,      \* the last refetch failed
  roleFilter,    \* "ALL", "ADMIN" or "OTHER"
  asked,         \* the row that shows the question, or Nothing
  revoke,        \* the cancellation under way: its row and "sent", "ok" or "failed"
  invite,        \* the invitation being sent: the same
  seen           \* history: what was pending since a request of this page last succeeded

vars == <<unsent, pending, listed, refetch, outdated, roleFilter, asked, revoke, invite, seen>>

NoCall == [pc |-> "none", id |-> Nothing]
NoFetch == [pc |-> "none", data |-> {}]
Restarted == [pc |-> "asked", data |-> {}]

Init ==
  /\ \E i \in Invitation : pending = {i} /\ unsent = Invitation \ {i}
  /\ listed = pending /\ seen = {pending}
  /\ refetch = NoFetch /\ outdated = FALSE
  /\ roleFilter = "ALL" /\ asked = Nothing
  /\ revoke = NoCall /\ invite = NoCall

(* What the server saves is also remembered. *)
Set(invitations) == pending' = invitations /\ seen' = seen \cup {invitations}

server == <<unsent, pending, seen>>
requests == <<revoke, invite>>

-----------------------------------------------------------------------------
(* The cached list *)

Mount ==
  /\ refetch = NoFetch
  /\ refetch' = Restarted
  /\ UNCHANGED <<server, listed, outdated, roleFilter, asked, requests>>

ServerLists ==
  /\ refetch.pc = "asked"
  /\ refetch' = [pc |-> "read", data |-> pending]
  /\ UNCHANGED <<server, listed, outdated, roleFilter, asked, requests>>

RefetchEnds ==
  /\ refetch # NoFetch
  /\ \/ refetch.pc = "read" /\ listed' = refetch.data /\ outdated' = FALSE
     \/ outdated' = TRUE /\ UNCHANGED listed
  /\ refetch' = NoFetch
  /\ UNCHANGED <<server, roleFilter, asked, requests>>

-----------------------------------------------------------------------------
(* The rows *)

Visible ==
  {i \in listed : CASE roleFilter = "ALL" -> TRUE
                    [] roleFilter = "ADMIN" -> i \in Admin
                    [] roleFilter = "OTHER" -> i \notin Admin}
Cancellable == {i \in Visible : ByAdmin \/ i \notin Admin}

UpdateParams ==
  /\ roleFilter' \in {"ALL", "ADMIN", "OTHER"}
  /\ UNCHANGED <<server, listed, refetch, outdated, asked, requests>>

(* "Cancel invite" is there on every other row, whatever is under way.            *)
Ask(i) ==
  /\ i \in Cancellable /\ asked # i
  /\ asked' = i
  /\ UNCHANGED <<server, listed, refetch, outdated, roleFilter, requests>>

Keep ==
  /\ asked \in Cancellable /\ revoke = NoCall
  /\ asked' = Nothing
  /\ UNCHANGED <<server, listed, refetch, outdated, roleFilter, requests>>

CancelInvitation ==
  /\ asked \in Cancellable /\ revoke = NoCall
  /\ revoke' = [pc |-> "sent", id |-> asked]
  /\ UNCHANGED <<server, listed, refetch, outdated, roleFilter, asked, invite>>

(* Only what is pending can be revoked; the answer may be lost.                   *)
ServerRevokes ==
  /\ revoke.pc = "sent"
  /\ \/ /\ revoke.id \in pending /\ Set(pending \ {revoke.id})
        /\ \E pc \in {"ok", "failed"} : revoke' = [revoke EXCEPT !.pc = pc]
     \/ revoke' = [revoke EXCEPT !.pc = "failed"] /\ UNCHANGED <<pending, seen>>
  /\ UNCHANGED <<unsent, listed, refetch, outdated, roleFilter, asked, invite>>

(* A success closes the question, of whichever row, and refetches. A refusal only  *)
(* shows its message.                                                              *)
Revoked ==
  /\ revoke.pc = "ok"
  /\ revoke' = NoCall /\ asked' = Nothing
  /\ refetch' = Restarted /\ seen' = {pending}
  /\ UNCHANGED <<unsent, pending, listed, outdated, roleFilter, invite>>

RevokeRefused ==
  /\ revoke.pc = "failed"
  /\ revoke' = NoCall
  /\ UNCHANGED <<server, listed, refetch, outdated, roleFilter, asked, invite>>

-----------------------------------------------------------------------------
(* The form *)

SendInvite(i) ==
  /\ invite = NoCall /\ i \in unsent /\ (i \in Admin => ByAdmin)
  /\ invite' = [pc |-> "sent", id |-> i]
  /\ UNCHANGED <<server, listed, refetch, outdated, roleFilter, asked, revoke>>

ServerInvites ==
  /\ invite.pc = "sent"
  /\ \/ /\ invite.id \in unsent /\ unsent' = unsent \ {invite.id}
        /\ Set(pending \cup {invite.id})
        /\ \E pc \in {"ok", "failed"} : invite' = [invite EXCEPT !.pc = pc]
     \/ invite' = [invite EXCEPT !.pc = "failed"] /\ UNCHANGED server
  /\ UNCHANGED <<listed, refetch, outdated, roleFilter, asked, revoke>>

Invited ==
  /\ invite.pc = "ok"
  /\ invite' = NoCall
  /\ refetch' = Restarted /\ seen' = {pending}
  /\ UNCHANGED <<unsent, pending, listed, outdated, roleFilter, asked, revoke>>

InviteRefused ==
  /\ invite.pc = "failed"
  /\ invite' = NoCall
  /\ UNCHANGED <<server, listed, refetch, outdated, roleFilter, asked, revoke>>

(* Another manager invites or revokes, or somebody accepts. *)
OthersAct ==
  /\ \E i \in Invitation :
       \/ i \in unsent /\ unsent' = unsent \ {i} /\ Set(pending \cup {i})
       \/ i \in pending /\ Set(pending \ {i}) /\ UNCHANGED unsent
  /\ UNCHANGED <<listed, refetch, outdated, roleFilter, asked, requests>>

Next ==
  \/ Mount \/ ServerLists \/ RefetchEnds
  \/ UpdateParams \/ \E i \in Invitation : Ask(i) \/ SendInvite(i)
  \/ Keep \/ CancelInvitation \/ ServerRevokes \/ Revoked \/ RevokeRefused
  \/ ServerInvites \/ Invited \/ InviteRefused
  \/ OthersAct

Spec == Init /\ [][Next]_vars

-----------------------------------------------------------------------------
(* Once nothing is in flight and the last refetch succeeded, the list is what was  *)
(* pending at some moment after this page's last success: no row it cancelled stays *)
(* and none it sent is missing, though a request and a refetch may have crossed.     *)
RosterReconciled ==
  (refetch = NoFetch /\ ~outdated /\ revoke = NoCall /\ invite = NoCall) => listed \in seen
==============================================================================
