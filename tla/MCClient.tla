------------------------------- MODULE MCClient -------------------------------
(****************************************************************************)
(* The parts of the web client, and the lists and repeat rules it shares with  *)
(* the API, checked by one run: Init chooses the part in play, and the others   *)
(* rest. The board page is tried with one task on columns that it shows, and     *)
(* (Filtered) with two tasks that are only dragged, between a column that it shows *)
(* and one that its filters hide.                                                  *)
(****************************************************************************)
EXTENDS WebClient, Sequences, FiniteSets, TLC

CONSTANTS t1, t2, s1, s2

VARIABLE part

Filtered == INSTANCE TaskClient WITH Task <- {t1, t2}, Column <- {1, 3}, Shown <- {1}

(* The end of a month, a leap day, a fourth and a fifth weekday, the last one.   *)
ThisDay == <<2028, 2, 10>>
FewDates == {ThisDay, <<2028, 1, 31>>, <<2028, 2, 29>>, <<2027, 2, 26>>, <<2028, 3, 29>>,
             <<2028, 3, 22>>}

(* A day is six slots long, of which a change of the clock skips or repeats two. *)
Jumps == {-2, 0, 2}

(* One text ends with a space, to be trimmed. *)
TrimSpace(text) == IF text = "x " THEN "x" ELSE text

page == <<server, cache, fetch, stale, slots, form, confirm, others, since>>
search == <<url, past, future, input, timer, captured, skipNextSync>>
create == <<opened, busy, files, createMore, run, tasks, uploaded, lost, overlapped>>
panel == <<board, cached, fetched, fields, saving, sent, recovering>>
members == <<unsent, pending, roster, refetch, outdated, roleFilter, asked, revoke, invite, seen>>
attached == <<stored, shown, read, invalid, unread, open, upload, latest, reported, removal,
              seenPages, raced>>
session == <<cookie, known, isPending, lookup, path, redirect, wanted, signedInSession, request,
             owners, loading, save, accepting, mixed>>
list == <<rows, query, listed, cursor, more, touched>>
pages == <<entries, listing, ids, place, further, written>>
series == <<rule, clock, last, dueDays>>
picker == <<dueDate, schedule>>
vars == <<part, page, search, create, panel, members, attached, session, list, pages, series,
          picker>>

RestingSearch ==
  /\ url = [q |-> "", f |-> "none"] /\ captured = url /\ input = ""
  /\ past = << >> /\ future = << >> /\ timer = FALSE /\ skipNextSync = FALSE

RestingMembers ==
  /\ pending = {} /\ unsent = {} /\ roster = {} /\ seen = {{}}
  /\ refetch = Members!NoFetch /\ outdated = FALSE /\ roleFilter = "ALL" /\ asked = Nothing
  /\ revoke = Members!NoCall /\ invite = Members!NoCall

RestingSession ==
  /\ cookie = Nobody /\ known = Nobody /\ isPending = FALSE /\ lookup = Session!NoLookup
  /\ path = "login" /\ wanted = "boards" /\ redirect = "boards"
  /\ signedInSession = Nobody /\ request = Session!NoRequest
  /\ owners = {} /\ loading = Nobody /\ save = Session!NoSave
  /\ accepting = "no" /\ mixed = FALSE

RestingList ==
  /\ rows = << >> /\ query = List!Query("NAME", 1)
  /\ listed = << >> /\ cursor = List!Start /\ more = FALSE /\ touched = {}

RestingPages ==
  /\ entries = << >> /\ listing = [list |-> "BOARDS", limit |-> 1]
  /\ ids = << >> /\ place = Pages!Start /\ further = FALSE /\ written = {}

RestingSeries == rule = {} /\ clock = [change |-> 0, jump |-> 0] /\ last = 0 /\ dueDays = << >>

(* Bounds: of the tasks that are read page by page, one is archived at first, in the *)
(* order of names; pages of two are read in the order of due dates, of which some are *)
(* missing, with one write between them.                                               *)
FewArchived == \A m, n \in DOMAIN rows :
  more /\ rows[m].status = "ARCHIVED" =>
    query.sort = "NAME" /\ (rows[n].status = "ARCHIVED" => m = n)
PagesOfTwo == query.limit = 2 => query.sort = "DUE_DATE" /\ Cardinality(touched') <= 1

Init ==
  /\ part \in {"page", "filtered", "search", "create", "panel", "members",
               "attached", "session", "list", "pages", "series", "picker"}
  /\ IF part = "filtered" THEN Filtered!Init ELSE Page!Init
  /\ Create!Init /\ Panel!Init /\ Files!Init
  /\ IF part = "search" THEN Search!Init ELSE RestingSearch
  /\ IF part = "members" THEN Members!Init ELSE RestingMembers
  /\ IF part = "session" THEN Session!Init ELSE RestingSession
  /\ IF part = "list" THEN List!Init /\ FewArchived ELSE RestingList
  /\ IF part = "pages" THEN Pages!Init ELSE RestingPages
  /\ IF part = "series" THEN Series!Init ELSE RestingSeries
  /\ IF part = "picker" THEN Picker!Init ELSE dueDate = None /\ schedule = None

(* Bounds: on the page with dialogs another person who saves writes another note; on *)
(* the filtered page nobody opens a dialog, and others move tasks.                    *)
OthersWrite == others' # others =>
  \E t \in Task :
    server'[t].note # server[t].note /\ server'[t].column = server[t].column
DraggedOnly ==
  /\ form' = form /\ confirm' = confirm
  /\ \A t \in DOMAIN server : server'[t] # Nothing => server'[t].note = server[t].note

Next ==
  \/ /\ part = "page" /\ Page!Next /\ OthersWrite
     /\ UNCHANGED <<part, search, create, panel, members, attached, session, list, pages, series, picker>>
  \/ /\ part = "filtered" /\ Filtered!Next /\ DraggedOnly
     /\ UNCHANGED <<part, search, create, panel, members, attached, session, list, pages, series, picker>>
  \/ /\ part = "search" /\ Search!Next
     /\ UNCHANGED <<part, page, create, panel, members, attached, session, list, pages, series, picker>>
  \/ /\ part = "create" /\ Create!Next
     /\ UNCHANGED <<part, page, search, panel, members, attached, session, list, pages, series, picker>>
  \/ /\ part = "panel" /\ Panel!Next
     /\ UNCHANGED <<part, page, search, create, members, attached, session, list, pages, series, picker>>
  \/ /\ part = "members" /\ Members!Next
     /\ UNCHANGED <<part, page, search, create, panel, attached, session, list, pages, series, picker>>
  \/ /\ part = "attached" /\ Files!Next
     /\ UNCHANGED <<part, page, search, create, panel, members, session, list, pages, series, picker>>
  \/ /\ part = "session" /\ Session!Next
     /\ UNCHANGED <<part, page, search, create, panel, members, attached, list, pages, series, picker>>
  \/ /\ part = "list" /\ List!Next /\ PagesOfTwo
     /\ UNCHANGED <<part, page, search, create, panel, members, attached, session, pages, series, picker>>
  \/ /\ part = "pages" /\ Pages!Next
     /\ UNCHANGED <<part, page, search, create, panel, members, attached, session, list, series, picker>>
  \/ /\ part = "series" /\ Series!Next
     /\ UNCHANGED <<part, page, search, create, panel, members, attached, session, list, pages, picker>>
  \/ /\ part = "picker" /\ Picker!Next
     /\ UNCHANGED <<part, page, search, create, panel, members, attached, session, list, pages, series>>

Spec == Init /\ [][Next]_vars

(* The mutations are interchangeable, and so are the submissions. *)
Interchangeable == Permutations({s1, s2})
==============================================================================
