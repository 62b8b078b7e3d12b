------------------------------ MODULE Recurrence ------------------------------
(****************************************************************************)
(* recurrence.ts over one change of the clock: from the wall-clock times of a  *)
(* rule to instants and back, and the series of due dates that a schedule      *)
(* produces. Time is counted in slots, Day of them in a day; at the instant     *)
(* Change the zone's offset goes from 0 to Jump, so a positive jump leaves out  *)
(* wall-clock times and a negative one repeats them. The rule is the set of     *)
(* wall-clock times that rrule yields, one per day at most.                     *)
(****************************************************************************)
EXTENDS Integers, FiniteSets, Sequences

CONSTANTS
  Day,          \* slots of a day
  Days,         \* bound: days on which the rule may fire
  Jump,         \* offsets after the change that are tried
  MaxAttempts,  \* passes of nextAfter's loop, in slots as long as its step of a second
  None,         \* no further run
  Failed        \* no run within the passes: the request is refused

VARIABLES
  rule,         \* the wall-clock times of the rule
  clock,        \* [change, jump] of the time zone
  last,         \* the instant that the series has reached, or None at its end
  dueDays       \* the due dates that it produced

vars == <<rule, clock, last, dueDays>>

Offset(instant) == IF instant < clock.change THEN 0 ELSE clock.jump
Local(instant) == instant + Offset(instant)

(* rule.after(t, false) *)
Earliest(times) ==
  IF times = {} THEN None ELSE CHOOSE t \in times : \A s \in times : t <= s
After(time) == Earliest({t \in rule : t > time})

(* Slip: today's offset is applied to every date.                              *)
FromToday(time, guess) == time - guess

(* luxon resolves a wall-clock time from a guess at the offset, the zone's of   *)
(* today: a repeated time stays on the guess's side, a missing one moves forward. *)
FromFloating(time, guess) ==
  LET first == Offset(time - guess)
      second == Offset(time - first)
      least == IF first < second THEN first ELSE second
  IN IF first = guess THEN time - guess
     ELSE IF second = first THEN time - first
     ELSE time - least

(* nextAfter: the candidate of the rule, as an instant, must be later than      *)
(* `after`; in a repeated hour it may not be, and the cursor creeps on.          *)
(* Slip: the candidate is taken as it comes.                                    *)
Unchecked(instant, after) == TRUE
IsLater(instant, after) == instant > after

NextAfter(after, guess) ==
  LET candidate(n) == After(Local(after + n))
      settles(n) == \/ candidate(n) = None
                    \/ IsLater(FromFloating(candidate(n), guess), after)
      passes == {n \in 0..(MaxAttempts - 1) : settles(n)}
      pass == CHOOSE n \in passes : \A m \in passes : n <= m
  IN IF passes = {} THEN Failed
     ELSE IF candidate(pass) = None THEN None
     ELSE FromFloating(candidate(pass), guess)

OccurrenceDueDate(instant) == Local(instant) \div Day

(* The guess is the offset of the day on which the code runs.                   *)
Guesses == {0, clock.jump}

NextOccurrence == \E guess \in Guesses :
  /\ last # None
  /\ last' = NextAfter(last, guess)
  /\ dueDays' = IF last' = None THEN dueDays ELSE Append(dueDays, OccurrenceDueDate(last'))
  /\ UNCHANGED <<rule, clock>>

(* A series starts before the first date of the rule.                            *)
Init ==
  /\ \E slot \in 0..(Day - 1), days \in SUBSET Days :
       rule = {Day * d + slot : d \in days}
  /\ clock \in [change : Day..(2 * Day), jump : Jump]
  /\ last = 0
  /\ dueDays = << >>

Next == NextOccurrence
Spec == Init /\ [][Next]_vars

-----------------------------------------------------------------------------
(* Properties *)

(* A missing time is shifted out of its day when the clock skips midnight.       *)
Missing(time) == ~\E instant \in (time - Day)..(time + Day) : Local(instant) = time
LeavesItsDay(time) == Missing(time) /\ (time + clock.jump) \div Day # time \div Day

(* Whatever instant a rule is resumed from, before, during or after the change,  *)
(* its next run is a later instant, found within the passes allowed.             *)
NextRunIsLater == rule # {} => \A after \in 0..(4 * Day), guess \in Guesses :
  LET next == NextAfter(after, guess) IN next # Failed /\ (next # None => next > after)

(* A series produces one due date for each date of the rule, in order: a skipped  *)
(* or a repeated hour, in either reading, neither loses a date nor repeats one.    *)
EveryDateOnce ==
  last = None =>
    LET dates == {t \div Day : t \in rule}
    IN (\A t \in rule : ~LeavesItsDay(t)) =>
         /\ Len(dueDays) = Cardinality(dates)
         /\ {dueDays[i] : i \in DOMAIN dueDays} = dates
         /\ \A i, j \in DOMAIN dueDays : i < j => dueDays[i] < dueDays[j]
==============================================================================
