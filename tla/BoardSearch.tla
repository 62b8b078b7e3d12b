------------------------------ MODULE BoardSearch ------------------------------
(****************************************************************************)
(* useTaskBoardSearch: a search field that is debounced into the URL, filters   *)
(* that are pushed to it at once, and the browser's history, which moves the     *)
(* URL under both. A URL is its search term and its filters as one value. The    *)
(* effects that a render schedules run before the next event.                     *)
(****************************************************************************)
EXTENDS Naturals, Sequences

CONSTANTS
  Input,         \* texts that are typed
  Trim(_),
  Filters,       \* settings of the other parameters
  NoFilters,
  MaxHistory     \* bound: entries behind or ahead

VARIABLES url, past, future, input, timer, captured, skipNextSync

vars == <<url, past, future, input, timer, captured, skipNextSync>>

Init ==
  /\ url \in [q : {Trim(text) : text \in Input}, f : Filters]
  /\ past = << >> /\ future = << >>
  /\ input = url.q
  /\ timer = TRUE /\ captured = url
  /\ skipNextSync = FALSE

(* The timer is armed again whenever the field changes; captured is the URL of    *)
(* the render that armed it.                                                       *)
Shows(text, location) ==
  /\ input' = text
  /\ timer' = IF text = input THEN timer ELSE TRUE
  /\ captured' = IF text = input THEN captured ELSE location

(* The effect on [q]: it follows the URL, unless it is told to skip this once.      *)
Sync(location, text, skip) ==
  IF location.q = url.q THEN Shows(text, location) /\ skipNextSync' = skip
  ELSE Shows(IF skip THEN text ELSE location.q, location) /\ skipNextSync' = FALSE

Push(location) ==
  /\ Len(past) < MaxHistory
  /\ url' = location
  /\ past' = Append(past, url) /\ future' = << >>

-----------------------------------------------------------------------------
Type(text) ==
  /\ text # input
  /\ Shows(text, url)
  /\ UNCHANGED <<url, past, future, skipNextSync>>

(* What the timer's callback writes into. Slip: the URL of its own render.          *)
CapturedParams == captured
LatestParams == url

Debounced ==
  /\ timer
  /\ timer' = FALSE
  /\ url' = IF Trim(input) = url.q THEN url ELSE [LatestParams EXCEPT !.q = Trim(input)]
  /\ skipNextSync' = IF Trim(input) = url.q THEN skipNextSync ELSE FALSE   \* set, then consumed
  /\ UNCHANGED <<past, future, input, captured>>

SetFilter(f) ==
  /\ f # url.f
  /\ Push([url EXCEPT !.f = f])
  /\ UNCHANGED <<input, timer, captured, skipNextSync>>

(* The button is shown while something is set. *)
ClearFilters ==
  LET cleared == [q |-> "", f |-> NoFilters] IN
  /\ url # cleared
  /\ Push(cleared)
  /\ Sync(cleared, "", TRUE)

Back ==
  /\ past # << >> /\ Len(future) < MaxHistory
  /\ url' = past[Len(past)]
  /\ past' = SubSeq(past, 1, Len(past) - 1) /\ future' = <<url>> \o future
  /\ Sync(url', input, skipNextSync)

Forward ==
  /\ future # << >> /\ Len(past) < MaxHistory
  /\ url' = Head(future)
  /\ past' = Append(past, url) /\ future' = Tail(future)
  /\ Sync(url', input, skipNextSync)

(* Reloading the page mounts the hook from the URL. *)
Remount ==
  /\ input' = url.q /\ timer' = TRUE /\ captured' = url /\ skipNextSync' = FALSE
  /\ UNCHANGED <<url, past, future>>

Next ==
  \/ \E text \in Input : Type(text)
  \/ \E f \in Filters : SetFilter(f)
  \/ Debounced \/ ClearFilters \/ Back \/ Forward \/ Remount

Spec == Init /\ [][Next]_vars

-----------------------------------------------------------------------------
(* Properties *)

(* Writing the search term into the URL never reverts a filter, however the filters   *)
(* were changed or the history moved while the term was still being debounced: they   *)
(* change only with an entry of the history.                                            *)
FiltersKept == [][url'.f # url.f => <<past, future>>' # <<past, future>>]_vars

(* What the hook says of itself: once nothing is being debounced, the field shows the  *)
(* term that the board is filtered by, also after back and forward and cleared filters. *)
SearchFollowsUrl == ~timer => Trim(input) = url.q
==============================================================================
