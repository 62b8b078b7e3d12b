---------------------------- MODULE RecurrenceRules ----------------------------
(****************************************************************************)
(* The repeat picker of the task form: recurrenceRules.ts, RecurrenceField and *)
(* the custom dialog, with the due date that every rule is read from. A rule    *)
(* is the record of its RRULE parts; how often and until when it runs are kept   *)
(* as parts that pass through, a part that the editor does not know is `foreign`. *)
(****************************************************************************)
EXTENDS Integers, FiniteSets, Sequences

CONSTANTS
  Dates,    \* days <<year, month, day>> of the Calendar that the user may choose
  Today,
  None

VARIABLES dueDate, schedule

vars == <<dueDate, schedule>>

-----------------------------------------------------------------------------
(* The calendar *)

Leap(year) == year % 4 = 0
MonthLength(year, month) ==
  <<31, IF Leap(year) THEN 29 ELSE 28, 31, 30, 31, 30, 31, 31, 30, 31, 30, 31>>[month]
YearDay(date) ==
  <<0, 31, 59, 90, 120, 151, 181, 212, 243, 273, 304, 334>>[date[2]] + date[3]
    + (IF Leap(date[1]) /\ date[2] > 2 THEN 1 ELSE 0)
Calendar ==
  {date \in (2027..2099) \X (1..12) \X (1..31) : date[3] <= MonthLength(date[1], date[2])}

(* 0 is Monday; 1 January 2027 is a Friday.                                     *)
WeekdayOf(date) ==
  LET years == 2027..(date[1] - 1)
      leaps == {y \in years : Leap(y)}
  IN (3 + Cardinality(years) * 365 + Cardinality(leaps) + YearDay(date)) % 7

MonthPosition(date) ==
  LET position == (date[3] + 6) \div 7 IN IF position >= 5 THEN -1 ELSE position

NthWeekday(date) == <<MonthPosition(date), WeekdayOf(date)>>
WorkWeek == 0..4

Plain(days) == {<<0, day>> : day \in days}
ByDays ==
  {Plain(days) : days \in SUBSET (0..6)} \cup {{<<n, day>>} : n \in -1..4, day \in 0..6}

-----------------------------------------------------------------------------
(* Rules and the custom editor *)

Bare(frequency, interval, end) ==
  [freq |-> frequency, interval |-> interval, byDay |-> None, byMonthDay |-> None,
   byMonth |-> None, end |-> end, foreign |-> FALSE]

PresetRule(preset, date) ==
  CASE preset = "DAILY" -> Bare("DAILY", 1, "NEVER")
    [] preset = "WEEKLY" ->
         [Bare("WEEKLY", 1, "NEVER") EXCEPT !.byDay = Plain({WeekdayOf(date)})]
    [] preset = "MONTHLY" -> [Bare("MONTHLY", 1, "NEVER") EXCEPT !.byDay = {NthWeekday(date)}]
    [] preset = "YEARLY" ->
         [Bare("YEARLY", 1, "NEVER") EXCEPT !.byMonth = date[2], !.byMonthDay = date[3]]
    [] preset = "WEEKDAYS" -> [Bare("WEEKLY", 1, "NEVER") EXCEPT !.byDay = Plain(WorkWeek)]

(* Whether the editor can express the rule for this date. *)
Exact(rule, date) ==
  /\ ~rule.foreign
  /\ rule.freq = "DAILY" => {rule.byDay, rule.byMonthDay, rule.byMonth} = {None}
  /\ rule.freq = "WEEKLY" =>
       /\ {rule.byMonthDay, rule.byMonth} = {None}
       /\ rule.byDay # None => \A day \in rule.byDay : day[1] = 0
  /\ rule.freq = "MONTHLY" =>
       /\ rule.byMonth = None
       /\ IF rule.byDay # None
          THEN rule.byMonthDay = None /\ rule.byDay = {NthWeekday(date)}
          ELSE rule.byMonthDay \in {None, date[3]}
  /\ rule.freq = "YEARLY" =>
       rule.byDay = None /\ rule.byMonth \in {None, date[2]} /\ rule.byMonthDay \in {None, date[3]}

ParseCustom(rule, date) ==
  [frequency |-> rule.freq, interval |-> rule.interval, end |-> rule.end,
   weekdays |-> IF rule.freq = "WEEKLY" /\ rule.byDay # None /\ \A day \in rule.byDay : day[1] = 0
                THEN {day[2] : day \in rule.byDay} ELSE {WeekdayOf(date)},
   monthlyMode |-> IF rule.freq = "MONTHLY" /\ rule.byDay # None THEN "WEEKDAY" ELSE "DAY"]

BuildCustom(custom, date) ==
  LET bare == Bare(custom.frequency, custom.interval, custom.end)
  IN CASE custom.frequency = "DAILY" -> bare
       [] custom.frequency = "WEEKLY" -> [bare EXCEPT !.byDay = Plain(custom.weekdays)]
       [] custom.frequency = "MONTHLY" ->
            IF custom.monthlyMode = "WEEKDAY" THEN [bare EXCEPT !.byDay = {NthWeekday(date)}]
            ELSE [bare EXCEPT !.byMonthDay = date[3]]
       [] custom.frequency = "YEARLY" ->
            [bare EXCEPT !.byMonth = date[2], !.byMonthDay = date[3]]

Rebuilt(rule, date) == BuildCustom(ParseCustom(rule, date), date)

Presets == {"DAILY", "WEEKLY", "MONTHLY", "YEARLY", "WEEKDAYS"}
MatchPreset(rule, date) ==
  LET same == {p \in Presets : Exact(rule, date)
                 /\ Rebuilt(PresetRule(p, date), date) = Rebuilt(rule, date)}
  IN IF same = {} THEN None ELSE CHOOSE p \in same : TRUE

(* Moves a rule that was read off the due date with it. Slip: the day of the week *)
(* is taken to be the part that moves, whatever the frequency.                    *)
RetargetWeekly(rule, previous, next) ==
  LET custom == ParseCustom(rule, previous)
  IN IF Exact(rule, previous) /\ custom.frequency = "WEEKLY"
        /\ custom.weekdays = {WeekdayOf(previous)}
     THEN BuildCustom([custom EXCEPT !.weekdays = {WeekdayOf(next)}], next) ELSE rule
RetargetRule(rule, previous, next) ==
  LET custom == ParseCustom(rule, previous)
  IN IF previous # next /\ Exact(rule, previous) /\ custom.frequency \in {"MONTHLY", "YEARLY"}
     THEN BuildCustom(custom, next)
     ELSE IF previous = next THEN rule ELSE RetargetWeekly(rule, previous, next)

-----------------------------------------------------------------------------
(* The form *)

(* DueDatePill: without a date there is no schedule.                            *)
PickDate(next) ==
  /\ dueDate' = next
  /\ schedule' = IF schedule = None \/ next = None THEN None
                 ELSE [schedule EXCEPT
                   !.rule = IF dueDate = None THEN @ ELSE RetargetRule(@, dueDate, next),
                   !.start = next]

Anchor == IF dueDate # None THEN dueDate
          ELSE IF schedule # None THEN schedule.start ELSE Today

(* apply: a rule anchors the task on a date if it had none.                      *)
Apply(rule) ==
  /\ dueDate' = Anchor
  /\ schedule' = [rule |-> rule, start |-> Anchor,
                  enabled |-> IF schedule = None THEN TRUE ELSE schedule.enabled]

SelectPreset(preset) == Apply(PresetRule(preset, Anchor))
SelectNone == schedule' = None /\ UNCHANGED dueDate
Pause == schedule # None /\ schedule' = [schedule EXCEPT !.enabled = ~@] /\ UNCHANGED dueDate

Customs == [frequency : {"DAILY", "WEEKLY", "MONTHLY", "YEARLY"}, interval : {1, 2},
            weekdays : {{0}, {2}, {0, 2}, WorkWeek}, monthlyMode : {"DAY", "WEEKDAY"},
            end : {"NEVER", "COUNT", "UNTIL"}]

(* The dialog opens on what it can read of the rule, and Done applies what it holds. *)
CustomDone(custom) == Apply(BuildCustom(custom, Anchor))

(* A task that is opened may carry a rule that another client of the API wrote.      *)
Init ==
  /\ dueDate \in Dates \cup {None}
  /\ \/ schedule = None
     \/ /\ dueDate # None
        /\ schedule \in
             [rule : {[Bare("WEEKLY", 1, "NEVER") EXCEPT !.foreign = TRUE],
                      [Bare("MONTHLY", 2, "COUNT") EXCEPT !.byDay = {<<-1, 4>>}],
                      Bare("MONTHLY", 1, "NEVER")},
              start : {dueDate}, enabled : {TRUE}]

Next ==
  \/ \E next \in Dates \cup {None} : PickDate(next)
  \/ \E preset \in Presets : SelectPreset(preset)
  \/ \E custom \in Customs : CustomDone(custom)
  \/ SelectNone
  \/ Pause

Spec == Init /\ [][Next]_vars

-----------------------------------------------------------------------------
(* Properties *)

(* The meaning of a rule: whether a date belongs to the series anchored on it. *)
Occurs(rule, date) ==
  CASE rule.freq = "DAILY" -> TRUE
    [] rule.freq = "WEEKLY" -> rule.byDay = None \/ <<0, WeekdayOf(date)>> \in rule.byDay
    [] rule.freq = "MONTHLY" ->
         /\ rule.byDay # None =>
              \/ <<(date[3] + 6) \div 7, WeekdayOf(date)>> \in rule.byDay
              \/ <<-1, WeekdayOf(date)>> \in rule.byDay
                   /\ date[3] + 7 > MonthLength(date[1], date[2])
         /\ rule.byMonthDay \in {None, date[3]}
    [] rule.freq = "YEARLY" ->
         rule.byMonth \in {None, date[2]} /\ rule.byMonthDay \in {None, date[3]}

(* When the due date moves, a rule that the editor understands moves along: the    *)
(* pattern the user chose stays selected, how often and how long it repeats is      *)
(* kept, and the new date belongs to the series if the old one did. Only a rule     *)
(* for several days of the week stays as it is.                                      *)
RuleFollowsDate ==
  [][(dueDate' # dueDate /\ schedule # None /\ schedule' # None) =>
       LET rule == schedule.rule
           moved == schedule'.rule
       IN Exact(rule, dueDate) =>
            /\ MatchPreset(rule, dueDate) \in {None, MatchPreset(moved, dueDate')}
            /\ moved.interval = rule.interval /\ moved.end = rule.end
            /\ Exact(moved, dueDate')
            /\ \/ Occurs(rule, dueDate) => Occurs(moved, dueDate')
               \/ Cardinality(rule.byDay) > 1
    ]_vars
==============================================================================
