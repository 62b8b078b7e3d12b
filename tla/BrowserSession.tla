---------------------------- MODULE BrowserSession ----------------------------
(****************************************************************************)
(* One tab of the web client while people sign in and out of it: the cookie that *)
(* the API reads, the session store that lags behind it, the routes that need a    *)
(* session, the sign-in screen with its destination, the invitation page, and the    *)
(* query cache, whose keys do not name the person they were read for.                 *)
(****************************************************************************)
EXTENDS FiniteSets

CONSTANTS
  User,
  Invited,      \* the user whose address the invitation names
  Nobody

VARIABLES
  cookie,       \* the user of the browser's session
  known,        \* data of the session store
  pending,      \* isPending of the session store
  lookup,       \* get-session in flight: none, asked, or whom it has found
  page,         \* "boards", "board", "settings", "invitation" or "login"
  redirect,     \* destination named by the sign-in screen's address, while it is shown
  wanted,       \* history: the page the reader last asked for
  signedInSession,
  request,      \* the sign-in or sign-out in flight
  cached,       \* users whose data the query cache holds
  loading,      \* user for whom a query is in flight
  save,         \* a save in flight: where it was made, and whose data it may put in the cache
  accepting,    \* "no", "sent", "ok", "failed"
  mixed         \* history: data was kept by a sign-in that was not answered, or put into the
                \* cache by a save that began before it was cleared

vars == <<cookie, known, pending, lookup, page, redirect, wanted, signedInSession, request,
          cached, loading, save, accepting, mixed>>

Protected == {"boards", "board", "settings"}
NoRequest == [kind |-> "none", user |-> Nobody, pc |-> "none"]
NoLookup == [pc |-> "none", user |-> Nobody]
AskedAgain == [pc |-> "asked", user |-> Nobody]
NoSave == [pc |-> "none", on |-> "boards", of |-> {}, before |-> FALSE]

Init ==
  /\ cookie \in User \cup {Nobody}
  /\ known = Nobody /\ pending = TRUE /\ lookup = AskedAgain
  /\ page \in Protected \cup {"invitation"} /\ wanted = page /\ redirect = "boards"
  /\ signedInSession = Nobody /\ request = NoRequest
  /\ cached = {} /\ loading = Nobody /\ save = NoSave
  /\ accepting = "no" /\ mixed = FALSE

store == <<known, pending, lookup>>
route == <<page, redirect, wanted>>
data == <<cached, loading, save, mixed>>

-----------------------------------------------------------------------------
(* The session store: asked when the tab gets the focus, and after each answer to *)
(* a sign-in or sign-out.                                                          *)

Refocus ==
  /\ lookup = NoLookup
  /\ lookup' = AskedAgain /\ pending' = (known = Nobody)
  /\ UNCHANGED <<cookie, known, route, signedInSession, request, data, accepting>>

GetSession ==
  /\ lookup.pc = "asked"
  /\ lookup' = [pc |-> "found", user |-> cookie]
  /\ UNCHANGED <<cookie, known, pending, route, signedInSession, request, data, accepting>>

LookupEnds ==
  /\ lookup # NoLookup
  /\ \/ lookup.pc = "found" /\ known' = lookup.user
     \/ known' = Nobody
  /\ lookup' = NoLookup /\ pending' = FALSE
  /\ UNCHANGED <<cookie, route, signedInSession, request, data, accepting>>

Expire ==
  /\ cookie # Nobody /\ cookie' = Nobody
  /\ UNCHANGED <<store, route, signedInSession, request, data, accepting>>

-----------------------------------------------------------------------------
(* Routes *)

(* The header is also there for a reader without session; its links lead to the  *)
(* list of boards and, without naming the page they are on, to the sign-in screen. *)
Header == page = "invitation" \/ (page \in Protected /\ pending)

FollowLink(p) ==
  /\ page # "login" /\ p # page
  /\ known # Nobody \/ (Header /\ p = "boards")
  /\ page' = p /\ wanted' = p
  /\ UNCHANGED <<cookie, store, redirect, signedInSession, request, data, accepting>>

RequireSession ==
  /\ page \in Protected /\ known = Nobody /\ ~pending
  /\ page' = "login" /\ redirect' = page
  /\ UNCHANGED <<cookie, store, wanted, signedInSession, request, data, accepting>>

LogInToAccept ==
  /\ page = "invitation" /\ known = Nobody
  /\ page' = "login" /\ redirect' = "invitation"
  /\ UNCHANGED <<cookie, store, wanted, signedInSession, request, data, accepting>>

LogIn ==
  /\ Header /\ known = Nobody
  /\ page' = "login" /\ wanted' = "login" /\ redirect' = "boards"
  /\ UNCHANGED <<cookie, store, signedInSession, request, data, accepting>>

(* The settings page is no destination the sign-in screen knows, nor is itself.    *)
SafeRedirect(p) == IF p \in {"settings", "login"} THEN "boards" ELSE p

(* A restored or a new session never stays on the sign-in screen.                 *)
LeaveSignIn ==
  /\ page = "login" /\ {known, signedInSession} # {Nobody}
  /\ page' = SafeRedirect(redirect) /\ redirect' = "boards"
  /\ signedInSession' = Nobody
  /\ UNCHANGED <<cookie, store, wanted, request, data, accepting>>

-----------------------------------------------------------------------------
(* Signing in and out; any answer may be lost. *)

SignIn(u) ==
  /\ page = "login" /\ known = Nobody /\ signedInSession = Nobody /\ ~pending
  /\ request = NoRequest
  /\ request' = [kind |-> "in", user |-> u, pc |-> "sent"]
  /\ UNCHANGED <<cookie, store, route, signedInSession, data, accepting>>

SignOut ==
  /\ page # "login" /\ known # Nobody /\ request = NoRequest
  /\ request' = [kind |-> "out", user |-> Nobody, pc |-> "sent"]
  /\ UNCHANGED <<cookie, store, route, signedInSession, data, accepting>>

SwitchAccount ==
  /\ page = "invitation" /\ known \notin {Nobody, Invited} /\ request = NoRequest
  /\ request' = [kind |-> "switch", user |-> Nobody, pc |-> "sent"]
  /\ UNCHANGED <<cookie, store, route, signedInSession, data, accepting>>

ServerSigns ==
  /\ request.pc = "sent"
  /\ \/ cookie' = request.user /\ \E pc \in {"ok", "lost"} : request' = [request EXCEPT !.pc = pc]
     \/ request' = [request EXCEPT !.pc = "refused"] /\ UNCHANGED cookie
  /\ UNCHANGED <<store, route, signedInSession, data, accepting>>

(* Slip: what is cached stays.                                                   *)
Kept == UNCHANGED data

(* queryClient.clear(): a query in flight is dropped, a save goes on.             *)
Cleared ==
  /\ cached' = {} /\ loading' = Nobody /\ mixed' = FALSE
  /\ save' = [save EXCEPT !.before = save # NoSave]

SignedIn ==
  /\ request.kind = "in" /\ request.pc = "ok"
  /\ Cleared
  /\ signedInSession' = IF page = "login" THEN request.user ELSE Nobody
  /\ request' = NoRequest
  /\ lookup' = AskedAgain /\ pending' = (known = Nobody)
  /\ UNCHANGED <<cookie, known, route, accepting>>

SignedOut ==
  /\ request.kind \in {"out", "switch"} /\ request.pc = "ok"
  /\ Cleared
  /\ IF request.kind = "out" THEN page' = "login" /\ redirect' = "boards" /\ wanted' = "boards"
                             ELSE UNCHANGED route
  /\ request' = NoRequest
  /\ lookup' = AskedAgain
  /\ UNCHANGED <<cookie, known, pending, signedInSession, accepting>>

RequestFails ==
  /\ request.pc \in {"lost", "refused"}
  /\ mixed' = (mixed \/ (request.kind = "in" /\ request.pc = "lost"))
  /\ request' = NoRequest
  /\ UNCHANGED <<cookie, store, route, signedInSession, cached, loading, save, accepting>>

-----------------------------------------------------------------------------
(* Data of the pages; a bound of the model: one query, save or acceptance at a time. *)

Free == loading = Nobody /\ save = NoSave /\ accepting = "no"

(* An answer that leads to a board does so from any page. *)
Arrive ==
  /\ page' = "board" /\ wanted' = "board" /\ redirect' = "boards"
  /\ signedInSession' = Nobody

Query ==
  /\ page \in Protected /\ known # Nobody /\ Free
  /\ loading' = cookie
  /\ UNCHANGED <<cookie, store, route, signedInSession, request, cached, save, mixed, accepting>>

QueryEnds ==
  /\ loading # Nobody
  /\ cached' \in {cached, cached \cup {loading}}
  /\ loading' = Nobody
  /\ UNCHANGED <<cookie, store, route, signedInSession, request, save, mixed, accepting>>

(* A task is saved on the board page, over a snapshot of what is cached; a board    *)
(* is edited on its settings and created on the list, and cached when it is answered. *)
Save ==
  /\ page \in Protected /\ known # Nobody /\ Free
  /\ page = "board" => cached # {}
  /\ save' = [pc |-> "sent", on |-> page, of |-> IF page = "board" THEN cached ELSE {},
              before |-> FALSE]
  /\ UNCHANGED <<cookie, store, route, signedInSession, request, cached, loading, mixed, accepting>>

ServerSaves ==
  /\ save.pc = "sent"
  /\ \/ save' = [save EXCEPT !.pc = "failed"]
     \/ /\ cookie # Nobody
        /\ save' = [save EXCEPT !.pc = "ok", !.of = IF save.on = "board" THEN @ ELSE {cookie}]
  /\ UNCHANGED <<cookie, store, route, signedInSession, request, cached, loading, mixed, accepting>>

(* A task that is not saved puts the snapshot back, a board that is saved puts the  *)
(* answer, into whatever cache there is; a conflict of a board reads it again.       *)
PutBack ==
  IF (save.on = "board" /\ save.pc = "failed") \/ (save.on # "board" /\ save.pc = "ok")
  THEN save.of ELSE {}

SaveEnds ==
  /\ save.pc \in {"ok", "failed"}
  /\ cached' = cached \cup PutBack
  /\ mixed' = (mixed \/ (save.before /\ PutBack # {}))
  /\ \/ UNCHANGED loading
     \/ save.on = "settings" /\ save.pc = "failed" /\ loading' = cookie
  /\ IF save.on = "boards" /\ save.pc = "ok" THEN Arrive ELSE UNCHANGED <<route, signedInSession>>
  /\ save' = NoSave
  /\ UNCHANGED <<cookie, store, request, accepting>>

-----------------------------------------------------------------------------
(* Accepting the invitation. *)

Accept ==
  /\ page = "invitation" /\ known = Invited /\ Free
  /\ accepting' = "sent"
  /\ UNCHANGED <<cookie, store, route, signedInSession, request, data>>

ServerAccepts ==
  /\ accepting = "sent"
  /\ accepting' \in IF cookie = Invited THEN {"ok", "failed"} ELSE {"failed"}
  /\ UNCHANGED <<cookie, store, route, signedInSession, request, data>>

Accepted ==
  /\ accepting \in {"ok", "failed"}
  /\ accepting' = "no"
  /\ IF accepting = "ok" THEN Arrive ELSE UNCHANGED <<route, signedInSession>>
  /\ UNCHANGED <<cookie, store, request, data>>

Next ==
  \/ Refocus \/ GetSession \/ LookupEnds \/ Expire
  \/ \E p \in Protected \cup {"invitation"} : FollowLink(p)
  \/ RequireSession \/ LogInToAccept \/ LogIn \/ LeaveSignIn
  \/ \E u \in User : SignIn(u)
  \/ SignOut \/ SwitchAccount \/ ServerSigns \/ SignedIn \/ SignedOut \/ RequestFails
  \/ Query \/ QueryEnds \/ Save \/ ServerSaves \/ SaveEnds
  \/ Accept \/ ServerAccepts \/ Accepted

Spec == Init /\ [][Next]_vars

-----------------------------------------------------------------------------
(* Once no request about the session is in flight, a signed-in reader sees what   *)
(* was read for her only, whatever was cached for the person before                *)
(* (AuthScreen.tsx:166, UserMenu.tsx:57), and is on the page she last asked for, by    *)
(* however many detours over the sign-in screen. Two exceptions keep data: a sign-in     *)
(* whose answer was lost does not clear, and a save that began before a clear and ends      *)
(* after it puts in the cache what it has, a failed one of a task its snapshot, one of a      *)
(* board that succeeds its answer. Two links lead to the list of boards: one to the             *)
(* settings page, and the header's Log in, which forgets the page it was on.                     *)
SessionFollowed ==
  lookup = NoLookup /\ request = NoRequest /\ known # Nobody =>
    /\ cached \subseteq {known} \/ mixed
    /\ page \in {wanted, SafeRedirect(wanted), "login"}
==============================================================================
