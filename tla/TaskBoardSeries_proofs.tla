----------------------- MODULE TaskBoardSeries_proofs ------------------------
(****************************************************************************)
(* The series and the status gate, for any number of tasks, schedules and   *)
(* transactions: SeriesInv is inductive relative to IInv. No lock is taken  *)
(* on a schedule row; what keeps a series in order is the row lock on the   *)
(* task that the schedule is attached to, and that task's version.          *)
(****************************************************************************)
EXTENDS TaskBoardSafety_proofs

SeriesTables ==
  HistoryInv /\ CurrentIsLatest /\ OccurrencesUnique
    /\ RecurringTaskHasDueDate /\ ArchivedSeriesPaused

(* What a step of one transaction leaves alone of another, what the gate of    *)
(* the other is told included.                                                 *)
Kept(y) ==
  Same(y) /\ seen'[y].at = seen[y].at /\ seen[y].touched \subseteq seen'[y].touched

LEMMA NotedKept ==
  ASSUME TypeOK, NEW y \in Txn, NEW rows
  PROVE  LET s == Noted(y, rows)
         IN  /\ s.at = seen[y].at /\ seen[y].touched \subseteq s.touched
             /\ pc[y] \in PastGate /\ req[y].status \in GatedMoveTargets =>
                  rows \cap req[y].deps \subseteq s.touched
<1>1. seen[y] \in Reading
  BY DEF TypeOK, TransactionsTypeOK
<1> DEFINE more == seen[y].touched \cup (rows \cap req[y].deps)
<1>2. /\ Noted(y, rows) \in {seen[y], [seen[y] EXCEPT !.touched = more]}
      /\ pc[y] \in PastGate /\ req[y].status \in GatedMoveTargets =>
           Noted(y, rows) = [seen[y] EXCEPT !.touched = more]
  BY DEF Noted
<1>3. seen[y].touched \subseteq more /\ rows \cap req[y].deps \subseteq more
  OBVIOUS
<1> HIDE DEF more
<1> QED BY <1>1, <1>2, <1>3 DEF Reading

LEMMA FinishKept ==
  ASSUME TypeOK, NEW x \in Txn, NEW rows, Finish(x, rows), NEW y \in Txn, y # x
  PROVE  /\ Kept(y)
         /\ pc[y] \in PastGate /\ req[y].status \in GatedMoveTargets =>
              rows \cap req[y].deps \subseteq seen'[y].touched
<1>1. Same(y) /\ seen'[y] = Noted(y, rows)
  BY FinishSame DEF Finish
<1> QED BY <1>1, NotedKept DEF Kept

LEMMA FinishStory ==
  ASSUME TypeOK, NEW x \in Txn, NEW rows, Finish(x, rows)
  PROVE  StoryInv(x)'
<1>1. pc'[x] = "idle" /\ req'[x] = NoRequest /\ seen'[x] = NothingSeen
  BY DEF Finish, Goto, TypeOK, TransactionsTypeOK
<1>2. req'[x].sched = "keep" /\ seen'[x].status = "NOT_STARTED" /\ seen'[x].run = "none"
  BY <1>1 DEF NoRequest, Request, NothingSeen
<1> QED BY <1>1, <1>2
        DEF StoryInv, RequestInv, DueInv, FreshInv, GateInv, Creating, PastGate,
            Decided, Informed

-----------------------------------------------------------------------------
(* Statements that write no table *)

LEMMA KeptStory ==
  ASSUME NEW y \in Txn, Kept(y), UNCHANGED tables, StoryInv(y)
  PROVE  StoryInv(y)'
<1> USE DEF Kept, Same, tables
<1>1. RequestInv(y)'
  BY DEF StoryInv, RequestInv
<1>2. DueInv(y)'
  BY DEF StoryInv, DueInv, AttachedTo
<1>3. FreshInv(y)'
  BY DEF StoryInv, FreshInv, ScheduleRows, AttachedTo, Unused
<1>4. GateInv(y)'
  BY DEF StoryInv, GateInv, Blocking
<1> QED BY <1>1, <1>2, <1>3, <1>4 DEF StoryInv

LEMMA QuietTables ==
  ASSUME SeriesTables, UNCHANGED tables
  PROVE  SeriesTables'
<1> USE DEF SeriesTables, tables
<1>1. HistoryInv' /\ CurrentIsLatest'
  BY DEF HistoryInv, CurrentIsLatest, Born, AttachedTo
<1>2. OccurrencesUnique' /\ RecurringTaskHasDueDate' /\ ArchivedSeriesPaused'
  BY DEF OccurrencesUnique, RecurringTaskHasDueDate, ArchivedSeriesPaused
<1> QED BY <1>1, <1>2

LEMMA QuietSeries ==
  ASSUME SeriesInv, UNCHANGED tables, NEW x \in Txn, StoryInv(x)',
         \A y \in Txn : y # x => Kept(y)
  PROVE  SeriesInv'
<1>1. SeriesTables'
  BY QuietTables DEF SeriesInv, SeriesTables
<1>2. \A y \in Txn : StoryInv(y)'
  BY KeptStory DEF SeriesInv
<1> QED BY <1>1, <1>2 DEF SeriesInv, SeriesTables

LEMMA AnswerSeries ==
  ASSUME FullInv, NEW x \in Txn, Answer(x)
  PROVE  SeriesInv'
<1>1. UNCHANGED tables /\ Finish(x, {}) /\ TypeOK
  BY DEF Answer, FullInv, IInv
<1>2. StoryInv(x)' /\ \A y \in Txn : y # x => Kept(y)
  BY <1>1, FinishStory, FinishKept
<1> QED BY <1>1, <1>2, QuietSeries DEF FullInv

LEMMA SubmitSeries ==
  ASSUME FullInv, NEW x \in Txn, NEW r, NEW first, Submit(x, r, first),
         first \in {"check", "read", "visible"},
         first = "check" => r.status # "ARCHIVED"
  PROVE  SeriesInv'
<1>1. /\ pc'[x] = first /\ req'[x] = r /\ UNCHANGED <<tables, seen>>
      /\ pc[x] = "idle" /\ Parses(r)
  BY DEF Submit, FullInv, IInv, TypeOK, TransactionsTypeOK
<1>2. \A y \in Txn : y # x => Kept(y)
  BY DEF Submit, Same, Kept, FullInv, IInv, TypeOK, TransactionsTypeOK
<1>3. StoryInv(x) /\ seen[x].run # "next"
  BY <1>1 DEF FullInv, SeriesInv, IInv, TxnInv, RecurInv
<1>4. RequestInv(x)'
  BY <1>1, <1>3 DEF StoryInv, RequestInv, Parses, Creating
<1>5. DueInv(x)' /\ FreshInv(x)' /\ GateInv(x)'
  BY <1>1, <1>3 DEF DueInv, FreshInv, GateInv, Decided, Informed, PastGate
<1> QED BY <1>1, <1>2, <1>4, <1>5, QuietSeries DEF StoryInv, FullInv

LEMMA SubmitsSeries ==
  ASSUME FullInv, NEW x \in Txn,
         SubmitCreate(x) \/ SubmitUpdate(x) \/ SubmitDelete(x)
  PROVE  SeriesInv'
<1>1. CASE SubmitCreate(x)
  <2>1. PICK status \in RequestStatus \ {"ARCHIVED"}, due \in RequestDue,
             deps \in RequestDeps, sched \in RequestSchedule :
          Submit(x, Request("create", None, 0, status, due, deps, sched), "check")
    BY <1>1 DEF SubmitCreate
  <2> DEFINE r == Request("create", None, 0, status, due, deps, sched)
  <2>2. r.status # "ARCHIVED"
    BY DEF Request
  <2> HIDE DEF r
  <2> QED BY <2>1, <2>2, SubmitSeries DEF r
<1>2. CASE SubmitUpdate(x)
  BY <1>2, SubmitSeries DEF SubmitUpdate
<1>3. CASE SubmitDelete(x)
  BY <1>3, SubmitSeries DEF SubmitDelete
<1> QED BY <1>1, <1>2, <1>3

(* A statement of x that goes on: what it must add for the gate and the date.   *)
LEMMA ProceedSeries ==
  ASSUME FullInv, NEW x \in Txn, NEW label, Proceed(x, label), label # "idle",
         NEW s, seen' = [seen EXCEPT ![x] = s],
         s.status = seen[x].status \/ label \notin Creating,
         label \in Creating => pc[x] \in Creating,
         DueInv(x)', FreshInv(x)', GateInv(x)'
  PROVE  SeriesInv'
<1>1. /\ pc'[x] = label /\ req'[x] = req[x] /\ seen'[x] = s /\ UNCHANGED tables
  BY DEF Proceed, Goto, FullInv, IInv, TypeOK, TransactionsTypeOK
<1>2. UNCHANGED <<tables, req>> /\ \A y \in Txn : y # x => seen'[y] = seen[y] /\ pc'[y] = pc[y]
  BY DEF Proceed, Goto, FullInv, IInv, TypeOK, TransactionsTypeOK
<1>3. StoryInv(x)
  BY DEF FullInv, SeriesInv
<1>4. RequestInv(x)'
  BY <1>1, <1>3 DEF StoryInv, RequestInv
<1>5. StoryInv(x)'
  BY <1>4 DEF StoryInv
<1>6. SeriesTables'
  BY <1>1, QuietTables DEF FullInv, SeriesInv, SeriesTables
<1>7. ASSUME NEW y \in Txn, y # x PROVE StoryInv(y)'
  <2>1. StoryInv(y) /\ pc'[y] = pc[y] /\ req'[y] = req[y] /\ seen'[y] = seen[y]
    BY <1>2, <1>7 DEF FullInv, SeriesInv
  <2>2. RequestInv(y)' /\ GateInv(y)'
    BY <1>2, <2>1 DEF StoryInv, RequestInv, GateInv, Blocking, tables
  <2>3. DueInv(y)'
    BY <1>2, <2>1 DEF StoryInv, DueInv, AttachedTo, tables
  <2>4. FreshInv(y)'
    BY <1>2, <2>1 DEF StoryInv, FreshInv, ScheduleRows, AttachedTo, Unused, tables
  <2> QED BY <2>2, <2>3, <2>4 DEF StoryInv
<1> QED BY <1>5, <1>6, <1>7 DEF SeriesInv, SeriesTables

LEMMA CheckCreateSeries ==
  ASSUME FullInv, NEW x \in Txn, CheckCreate(x)
  PROVE  SeriesInv'
<1>1. CASE Answer(x)
  BY <1>1, AnswerSeries
<1>2. CASE ~Answer(x)
  <2>1. /\ pc[x] = "check" /\ Proceed(x, "sequence") /\ UNCHANGED <<seen, held>>
        /\ GateOpen(x) /\ seen' = [seen EXCEPT ![x] = seen[x]]
        /\ pc'[x] = "sequence" /\ req' = req /\ UNCHANGED tables
    BY <1>2 DEF CheckCreate, Proceed, Goto, FullInv, IInv, TypeOK, TransactionsTypeOK
  <2>2. seen[x].run # "next"
    BY <2>1 DEF FullInv, IInv, TxnInv, RecurInv
  <2>3. DueInv(x)' /\ FreshInv(x)'
    BY <2>1, <2>2 DEF DueInv, FreshInv, Decided, Informed
  <2>4. GateInv(x)'
    BY <2>1 DEF GateInv, GateOpen, Blocking, tables
  <2> QED BY <2>1, <2>3, <2>4, ProceedSeries DEF Creating
<1> QED BY <1>1, <1>2

LEMMA TakeSequenceSeries ==
  ASSUME FullInv, NEW x \in Txn, TakeSequence(x)
  PROVE  SeriesInv'
<1>1. PICK t \in Task : seen' = [seen EXCEPT ![x].seq = nextSeq, ![x].id = t]
  BY DEF TakeSequence
<1> DEFINE s == [seen[x] EXCEPT !.seq = nextSeq, !.id = t]
<1>2. /\ s.status = seen[x].status /\ s.run = seen[x].run /\ s.touched = seen[x].touched
      /\ seen' = [seen EXCEPT ![x] = s]
  BY <1>1 DEF FullInv, IInv, TypeOK, TransactionsTypeOK, Reading
<1> HIDE DEF s
<1>3. /\ pc[x] = "sequence" /\ Proceed(x, "insert") /\ pc'[x] = "insert"
      /\ req' = req /\ UNCHANGED tables /\ seen'[x] = s
  BY <1>2 DEF TakeSequence, Proceed, Goto, FullInv, IInv, TypeOK, TransactionsTypeOK
<1>4. seen[x].run # "next"
  BY <1>3 DEF FullInv, IInv, TxnInv, RecurInv
<1>5. DueInv(x)' /\ FreshInv(x)'
  BY <1>2, <1>3, <1>4 DEF DueInv, FreshInv, Decided, Informed
<1>6. GateInv(x)
  BY DEF FullInv, SeriesInv, StoryInv
<1>7. GateInv(x)'
  BY <1>2, <1>3, <1>6 DEF GateInv, PastGate, Blocking, tables
<1> QED BY <1>2, <1>3, <1>5, <1>7, ProceedSeries DEF Creating

LEMMA ReadExistingSeries ==
  ASSUME FullInv, NEW x \in Txn, ReadExisting(x)
  PROVE  SeriesInv'
<1> DEFINE t == req[x].task
           s == [seen[x] EXCEPT !.status = task[t].status, !.version = task[t].version]
<1>1. CASE Answer(x)
  BY <1>1, AnswerSeries
<1>2. CASE ~Answer(x)
  <2>1. /\ pc[x] = "read" /\ Proceed(x, "edges") /\ seen' = [seen EXCEPT ![x] = s]
    BY <1>2 DEF ReadExisting
  <2>2. s.run = seen[x].run /\ seen[x].run # "next"
    BY <2>1 DEF FullInv, IInv, TxnInv, RecurInv, TypeOK, TransactionsTypeOK, Reading
  <2> HIDE DEF s
  <2>3. pc'[x] = "edges" /\ seen'[x] = s
    BY <2>1 DEF Proceed, Goto, FullInv, IInv, TypeOK, TransactionsTypeOK
  <2>4. DueInv(x)' /\ FreshInv(x)' /\ GateInv(x)'
    BY <2>2, <2>3 DEF DueInv, FreshInv, GateInv, Decided, PastGate
  <2>5. "edges" \notin Creating /\ "edges" # "idle"
    BY DEF Creating
  <2> QED BY <2>1, <2>4, <2>5, ProceedSeries
<1> QED BY <1>1, <1>2

(* The schedule is read after the row, and the check on the date with it.      *)
LEMMA ReadEdgesSeries ==
  ASSUME FullInv, NEW x \in Txn, ReadEdges(x)
  PROVE  SeriesInv'
<1> DEFINE t == req[x].task
           s == [seen[x] EXCEPT !.deps = Deps(t)]
<1>1. CASE Answer(x)
  BY <1>1, AnswerSeries
<1>2. CASE ~Answer(x)
  <2>1. PICK label \in {"gate", "lock"} :
          /\ pc[x] = "edges" /\ Proceed(x, label) /\ seen' = [seen EXCEPT ![x] = s]
          /\ KeepsSchedule(x) => req[x].due # 0
    BY <1>2 DEF ReadEdges
  <2>2. s.run = seen[x].run /\ seen[x].run # "next"
    BY <2>1 DEF FullInv, IInv, TxnInv, RecurInv, TypeOK, TransactionsTypeOK, Reading
  <2> HIDE DEF s
  <2>3. pc'[x] = label /\ seen'[x] = s /\ req' = req /\ UNCHANGED tables
    BY <2>1 DEF Proceed, Goto, FullInv, IInv, TypeOK, TransactionsTypeOK
  <2>4. DueInv(x)'
    BY <2>1, <2>3 DEF DueInv, KeepsSchedule, AttachedTo, tables
  <2>5. FreshInv(x)' /\ GateInv(x)'
    BY <2>2, <2>3 DEF FreshInv, GateInv, PastGate
  <2> QED BY <2>1, <2>4, <2>5, ProceedSeries DEF Creating
<1> QED BY <1>1, <1>2

(* A statement between the reads and the commit that learns nothing new.       *)
LEMMA OnwardSeries ==
  ASSUME FullInv, NEW x \in Txn, NEW label \in {"cycle", "gate", "write", "generate", "apply"},
         pc[x] \in {"lock", "cycle", "gate", "write"}, Proceed(x, label), UNCHANGED seen,
         pc[x] = "write" \/ label \in {"cycle", "gate"} \/ GateOpen(x)
  PROVE  SeriesInv'
<1>1. /\ seen' = [seen EXCEPT ![x] = seen[x]]
      /\ pc'[x] = label /\ req' = req /\ UNCHANGED tables
  BY DEF Proceed, Goto, FullInv, IInv, TypeOK, TransactionsTypeOK
<1>2. StoryInv(x) /\ seen[x].run # "next"
  BY DEF FullInv, SeriesInv, IInv, TxnInv, RecurInv
<1>3. DueInv(x)'
  BY <1>1, <1>2 DEF StoryInv, DueInv, Decided, Informed, AttachedTo, tables
<1>4. FreshInv(x)'
  BY <1>1, <1>2 DEF FreshInv
<1>5. GateInv(x)'
  BY <1>1, <1>2 DEF StoryInv, GateInv, GateOpen, PastGate, Blocking, tables
<1> QED BY <1>1, <1>3, <1>4, <1>5, ProceedSeries DEF Creating

LEMMA OnwardsSeries ==
  ASSUME FullInv, NEW x \in Txn,
         LockBoardGraph(x) \/ CheckCycle(x) \/ CheckGate(x) \/ WriteTask(x)
  PROVE  SeriesInv'
<1>1. CASE Answer(x)
  BY <1>1, AnswerSeries
<1>2. CASE LockBoardGraph(x)
  BY <1>2, OnwardSeries DEF LockBoardGraph
<1>3. CASE CheckCycle(x) /\ ~Answer(x)
  BY <1>3, OnwardSeries DEF CheckCycle
<1>4. CASE CheckGate(x) /\ ~Answer(x)
  BY <1>4, OnwardSeries DEF CheckGate
<1>5. CASE WriteTask(x) /\ ~Answer(x)
  <2>1. PICK label \in {"generate", "apply"} :
          pc[x] = "write" /\ Proceed(x, label) /\ UNCHANGED seen
    BY <1>5 DEF WriteTask
  <2> QED BY <2>1, OnwardSeries
<1> QED BY <1>1, <1>2, <1>3, <1>4, <1>5

LEMMA ReadVisibleSeries ==
  ASSUME FullInv, NEW x \in Txn, ReadVisible(x)
  PROVE  SeriesInv'
<1>1. CASE Answer(x)
  BY <1>1, AnswerSeries
<1>2. CASE ~Answer(x)
  <2>1. /\ pc[x] = "visible" /\ Proceed(x, "remove") /\ seen' = seen
        /\ seen' = [seen EXCEPT ![x] = seen[x]] /\ pc'[x] = "remove"
    BY <1>2 DEF ReadVisible, Proceed, Goto, FullInv, IInv, TypeOK, TransactionsTypeOK
  <2>2. seen[x].run # "next"
    BY <2>1 DEF FullInv, IInv, TxnInv, RecurInv
  <2>3. DueInv(x)' /\ FreshInv(x)' /\ GateInv(x)'
    BY <2>1, <2>2 DEF DueInv, FreshInv, GateInv, Decided, Informed, PastGate
  <2> QED BY <2>1, <2>3, ProceedSeries DEF Creating
<1> QED BY <1>1, <1>2

LEMMA RetrySeries ==
  ASSUME FullInv, NEW x \in Txn, BreakDeadlock(x)
  PROVE  SeriesInv'
<1>1. CASE Answer(x)
  BY <1>1, AnswerSeries
<1>2. CASE ~Answer(x)
  <2>1. /\ pc[x] \in {"lock", "generate", "write"} /\ pc'[x] = "read"
        /\ seen'[x] = NothingSeen /\ UNCHANGED <<tables, req>>
        /\ \A y \in Txn : y # x => Kept(y)
    BY <1>2 DEF BreakDeadlock, Released, WaitsForBoard, WaitsForRow, Goto, Kept, Same,
                FullInv, IInv, TypeOK, TransactionsTypeOK
  <2>2. seen'[x].run # "next" /\ StoryInv(x)
    BY <2>1 DEF NothingSeen, FullInv, SeriesInv
  <2>3. StoryInv(x)'
    BY <2>1, <2>2 DEF StoryInv, RequestInv, DueInv, FreshInv, GateInv, Creating,
                      Decided, Informed, PastGate
  <2> QED BY <2>1, <2>3, QuietSeries DEF FullInv
<1> QED BY <1>1, <1>2
(* The instant decided for the successor is one the series has not reached: the *)
(* completed task is its latest, and the next instant is later than that one's. *)
LEMMA ScheduledFresh ==
  ASSUME FullInv, NEW x \in Txn, req[x].task \in Task, NEW s \in ScheduleRows(x),
         Recurs(x, s), ScheduledAt(x, s) # 0
  PROVE  \A q \in ScheduleRows(x) : \A o \in occurrences :
           o.series = q => o.at < ScheduledAt(x, s)
<1> DEFINE t  == req[x].task
           at == Occurred(s, t)
<1>1. HistoryInv /\ CurrentIsLatest /\ OccurrencesUnique /\ TypeOK
  BY DEF FullInv, SeriesInv, IInv
<1>2. s \in Series
  BY <1>1, ScheduleRowsType DEF Recurs
<1>3. CASE AttachedTo(t) = {}
  BY <1>3, <1>1, <1>2, ConstantsAssumption
  DEF ScheduleRows, Recurs, Unused, HistoryInv, TypeOK, TablesTypeOK
<1>4. CASE AttachedTo(t) # {}
  <2> SUFFICES ASSUME NEW o \in occurrences, o.series \in ScheduleRows(x)
               PROVE  o.at < ScheduledAt(x, s)
    OBVIOUS
  <2>1. series[s].task = t /\ t # None /\ ScheduleRows(x) = AttachedTo(t)
    BY <1>4, ConstantsAssumption DEF ScheduleRows, AttachedTo
  <2>2. o.series = s
    BY <1>1, <1>2, <2>1 DEF CurrentIsLatest
  <2>3. PICK p \in occurrences : p.series = s /\ p.task = t /\ p.at >= o.at
    BY <1>1, <1>2, <2>1, <2>2 DEF CurrentIsLatest
  <2>4. at = {p.at}
    BY <1>1, <2>3 DEF Occurred, OccurrencesUnique
  <2>5. p.at \in Time /\ o.at \in Time /\ now \in 0..Horizon
    BY <1>1 DEF TypeOK, TablesTypeOK, TransactionsTypeOK
  <2>6. p.at \in Nat /\ o.at \in Nat /\ now \in Nat
    <3>1. Time \subseteq Nat /\ 0..Horizon \subseteq Nat
      BY TimeIsNat, ConstantsAssumption
    <3> QED BY <2>5, <3>1
  <2>7. Min(at) = p.at
    BY <2>4, <2>6, MinInSet
  <2> DEFINE start == EditedRow(x, s).start
             after == Latest(p.at, now)
  <2>8. ScheduledAt(x, s) = NextOccurrence(start, after)
    BY <2>4, <2>7 DEF ScheduledAt, Anchor
  <2>9. start \in Nat
    BY <1>1, <1>2, ScheduleRowType, TimeIsNat DEF Schedule
  <2>10. after \in Nat /\ after >= p.at
    BY <2>6 DEF Latest
  <2> HIDE DEF start, after
  <2>11. NextOccurrence(start, after) > after /\ NextOccurrence(start, after) \in Nat
    BY <2>8, <2>9, <2>10, NextOccurrenceIsNext, TimeIsNat
  <2> QED BY <2>3, <2>6, <2>8, <2>10, <2>11
<1> QED BY <1>3, <1>4

LEMMA GenerateSeries ==
  ASSUME FullInv, NEW x \in Txn, GenerateNextOccurrence(x)
  PROVE  SeriesInv'
<1>1. /\ pc[x] = "generate" /\ Proceed(x, "apply") /\ pc'[x] = "apply"
      /\ req' = req /\ UNCHANGED tables
  BY DEF GenerateNextOccurrence, Proceed, Goto, FullInv, IInv, TypeOK, TransactionsTypeOK
<1>2. StoryInv(x) /\ req[x].task \in Task /\ seen[x] \in Reading
  BY <1>1 DEF FullInv, SeriesInv, IInv, TypeOK, TransactionsTypeOK, TargetsOK, WorksOnTask
<1>3. ASSUME NEW run, NEW at, NEW g, NEW n, Decide(x, run, at, g, n),
             run = "next" => \A q \in ScheduleRows(x) : \A o \in occurrences :
                               o.series = q => o.at < at
      PROVE  SeriesInv'
  <2> DEFINE d == [seen[x] EXCEPT !.run = run, !.at = at, !.id = g, !.seq = n]
  <2>1. /\ d.status = seen[x].status /\ d.version = seen[x].version
        /\ d.touched = seen[x].touched /\ d.run = run /\ d.at = at
    BY <1>2 DEF Reading
  <2>2. seen' = [seen EXCEPT ![x] = d]
    BY <1>3 DEF Decide
  <2> HIDE DEF d
  <2>3. seen'[x] = d
    BY <2>2 DEF FullInv, IInv, TypeOK, TransactionsTypeOK
  <2>4. DueInv(x)'
    BY <1>1, <1>2, <2>1, <2>3 DEF StoryInv, DueInv, Decided, Informed, AttachedTo, tables
  <2>5. GateInv(x)'
    BY <1>1, <1>2, <2>1, <2>3 DEF StoryInv, GateInv, PastGate, Blocking, tables
  <2>6. ScheduleRows(x)' = ScheduleRows(x) /\ occurrences' = occurrences
    BY <1>1 DEF ScheduleRows, AttachedTo, Unused, tables
  <2>7. FreshInv(x)'
    BY <1>3, <2>1, <2>3, <2>6 DEF FreshInv
  <2>8. "apply" \notin Creating /\ "apply" # "idle"
    BY DEF Creating
  <2> QED BY <1>1, <2>2, <2>4, <2>5, <2>7, <2>8, ProceedSeries
<1>4. PICK s \in ScheduleRows(x) :
        \/ Decide(x, "none", 0, None, 0)
        \/ Decide(x, "end", 0, None, 0)
        \/ /\ Recurs(x, s) /\ ScheduledAt(x, s) # 0
           /\ \E g \in Task : Decide(x, "next", ScheduledAt(x, s), g, nextSeq)
  BY DEF GenerateNextOccurrence
<1>5. CASE Decide(x, "none", 0, None, 0)
  BY <1>3, <1>5
<1>6. CASE Decide(x, "end", 0, None, 0)
  BY <1>3, <1>6
<1>7. CASE /\ Recurs(x, s) /\ ScheduledAt(x, s) # 0
           /\ \E g \in Task : Decide(x, "next", ScheduledAt(x, s), g, nextSeq)
  BY <1>2, <1>3, <1>7, ScheduledFresh
<1> QED BY <1>4, <1>5, <1>6, <1>7
-----------------------------------------------------------------------------
(* Commits *)

(* What a commit must respect of a transaction under way, for its date check,  *)
(* its decided instant and its gate to remain good.                            *)
Spares(y) ==
  /\ Kept(y)
  /\ \A u \in Task : Born(u) =>
       /\ task[u].version <= task'[u].version
       /\ task'[u].version = task[u].version => AttachedTo(u)' \subseteq AttachedTo(u)
  /\ pc[y] = "apply" =>
       /\ ScheduleRows(y)' \subseteq ScheduleRows(y)
       /\ \A o \in occurrences' : o.series \in ScheduleRows(y)' => o \in occurrences
  /\ pc[y] \in PastGate /\ req[y].status \in GatedMoveTargets =>
       \A d \in req[y].deps : Born(d) /\ Blocking(d)' => Blocking(d) \/ d \in seen'[y].touched

LEMMA SparedStory ==
  ASSUME FullInv, TypeOK', NEW y \in Txn, Spares(y)
  PROVE  StoryInv(y)'
<1> DEFINE t == req[y].task
<1>1. /\ pc'[y] = pc[y] /\ req'[y] = req[y] /\ seen'[y].run = seen[y].run
      /\ seen'[y].at = seen[y].at /\ seen'[y].status = seen[y].status
      /\ seen'[y].version = seen[y].version /\ seen[y].touched \subseteq seen'[y].touched
  BY DEF Spares, Kept, Same
<1>2. StoryInv(y) /\ TxnInv(y)
  BY DEF FullInv, SeriesInv, IInv
<1>3. RequestInv(y)'
  BY <1>1, <1>2 DEF StoryInv, RequestInv
<1>4. DueInv(y)'
  <2> SUFFICES ASSUME pc[y] \in Decided, seen[y].version = task'[t].version,
                      req[y].sched = "keep", AttachedTo(t)' # {}
               PROVE  req[y].due # 0
    BY <1>1 DEF DueInv, AttachedTo
  <2>1. PICK u \in Task : u = t /\ Born(u) /\ seen[y].version <= task[u].version
    BY <1>2 DEF TxnInv, TargetInv, ReadInv, Decided, Informed, WorksOnTask,
                FullInv, IInv, TypeOK, TargetsOK
  <2>2. /\ task[u].version <= task'[u].version
        /\ task'[u].version = task[u].version => AttachedTo(u)' \subseteq AttachedTo(u)
    BY <2>1 DEF Spares
  <2>3. /\ seen[y].version \in Nat /\ task[u].version \in Nat /\ task'[u].version \in Nat
    BY DEF FullInv, IInv, TypeOK, TransactionsTypeOK, TablesTypeOK, Reading, Row
  <2>4. seen[y].version = task'[u].version
    BY <2>1
  <2>5. \A a, b, c \in Nat : a <= b /\ b <= c /\ a = c => a = b /\ c = b
    OBVIOUS
  <2>6. seen[y].version = task[u].version /\ task'[u].version = task[u].version
    BY <2>1, <2>2, <2>3, <2>4, <2>5
  <2>7. AttachedTo(u)' # {}
    BY <1>1, <2>1 DEF AttachedTo
  <2> QED BY <1>2, <2>1, <2>2, <2>6, <2>7 DEF StoryInv, DueInv
<1>5. FreshInv(y)'
  <2> SUFFICES ASSUME seen[y].run = "next", NEW o \in occurrences', o.series \in ScheduleRows(y)'
               PROVE  o.at < seen[y].at
    BY <1>1 DEF FreshInv
  <2>1. pc[y] = "apply"
    BY <1>2 DEF TxnInv, RecurInv
  <2>2. o \in occurrences /\ o.series \in ScheduleRows(y)
    BY <2>1 DEF Spares
  <2> QED BY <1>2, <2>2 DEF StoryInv, FreshInv
<1>6. GateInv(y)'
  <2> SUFFICES ASSUME pc[y] \in PastGate, req[y].status \in GatedMoveTargets,
                      req[y].status # seen[y].status, NEW d \in req[y].deps, Blocking(d)'
               PROVE  d \in seen'[y].touched
    BY <1>1 DEF GateInv
  <2>1. Born(d)
    BY <1>2 DEF TxnInv, DepsInv, PastGate, Decided, Informed
  <2>2. Blocking(d) \/ d \in seen'[y].touched
    BY <2>1 DEF Spares
  <2> QED BY <1>1, <1>2, <2>2 DEF StoryInv, GateInv
<1> QED BY <1>3, <1>4, <1>5, <1>6 DEF StoryInv

(* A soft deletion and a restoration leave status, date and number alone.       *)
LEMMA RowOnlySeries ==
  ASSUME FullInv, NEW t \in Task, NEW flag,
         task' = [task EXCEPT ![t].deleted = flag, ![t].version = @ + 1],
         UNCHANGED <<edges, nextSeq, series, occurrences>>
  PROVE  /\ SeriesTables'
         /\ \A y \in Txn :
              /\ Kept(y)
              /\ pc[y] \in PastGate /\ req[y].status \in GatedMoveTargets =>
                   {t} \cap req[y].deps \subseteq seen'[y].touched
              => Spares(y)
<1>1. /\ task \in [Task -> Row] /\ series \in [Series -> Schedule]
      /\ occurrences \subseteq [series : Series, at : Time, task : Task]
      /\ \A s \in Series : series[s].task # None => series[s].task \in Task
  BY DEF FullInv, IInv, TypeOK, TablesTypeOK, Schedule
<1>2. /\ task'[t].version = task[t].version + 1 /\ task[t].version \in Nat
      /\ \A u \in Task : /\ task'[u].seq = task[u].seq /\ task'[u].due = task[u].due
                         /\ task'[u].status = task[u].status
      /\ \A u \in Task : u # t => task'[u] = task[u]
  BY <1>1 DEF Row
<1>3. HistoryInv' /\ RecurringTaskHasDueDate' /\ ArchivedSeriesPaused'
  BY <1>1, <1>2 DEF FullInv, SeriesInv, HistoryInv, RecurringTaskHasDueDate,
                    ArchivedSeriesPaused, Born
<1>4. CurrentIsLatest' /\ OccurrencesUnique'
  BY DEF FullInv, SeriesInv, CurrentIsLatest, OccurrencesUnique, AttachedTo
<1>5. ASSUME NEW y \in Txn, Kept(y),
             pc[y] \in PastGate /\ req[y].status \in GatedMoveTargets =>
               {t} \cap req[y].deps \subseteq seen'[y].touched
      PROVE  Spares(y)
  <2>1. \A u \in Task : /\ task[u].version <= task'[u].version
                        /\ AttachedTo(u)' \subseteq AttachedTo(u)
    BY <1>1, <1>2 DEF AttachedTo, Row
  <2>2. ScheduleRows(y)' = ScheduleRows(y) /\ occurrences' = occurrences
    BY <1>5 DEF ScheduleRows, AttachedTo, Unused, Kept, Same
  <2>3. ASSUME NEW d \in req[y].deps, Blocking(d)', d # t PROVE Blocking(d)
    <3>1. d \in Task
      BY DEF FullInv, IInv, TypeOK, TransactionsTypeOK, Requests
    <3> QED BY <1>2, <2>3, <3>1 DEF Blocking
  <2> QED BY <1>5, <2>1, <2>2, <2>3 DEF Spares
<1> QED BY <1>3, <1>4, <1>5 DEF SeriesTables

LEMMA RemoveSeries ==
  ASSUME FullInv, TypeOK', NEW x \in Txn, Remove(x)
  PROVE  SeriesInv'
<1>1. PICK t \in Task : t = req[x].task
  BY DEF FullInv, IInv, TypeOK, TargetsOK, Remove, WorksOnTask
<1>2. /\ Finish(x, {t})
      /\ task' = [task EXCEPT ![t].deleted = TRUE, ![t].version = @ + 1]
      /\ UNCHANGED <<edges, nextSeq, series, occurrences>>
  BY <1>1 DEF Remove
<1>3. StoryInv(x)' /\ \A y \in Txn : y # x => Spares(y)
  BY <1>2, FinishStory, FinishKept, RowOnlySeries DEF FullInv, IInv
<1>4. SeriesTables'
  BY <1>2, RowOnlySeries
<1> QED BY <1>3, <1>4, SparedStory DEF SeriesInv, SeriesTables

LEMMA RestoreSeries ==
  ASSUME FullInv, TypeOK', NEW t \in Task, Restore(t)
  PROVE  SeriesInv'
<1>1. /\ task' = [task EXCEPT ![t].deleted = FALSE, ![t].version = @ + 1]
      /\ UNCHANGED <<edges, nextSeq, series, occurrences, pc, req, held>>
      /\ seen' = [y \in Txn |-> Noted(y, {t})]
  BY DEF Restore
<1>2. \A y \in Txn : /\ Kept(y)
                     /\ pc[y] \in PastGate /\ req[y].status \in GatedMoveTargets =>
                          {t} \cap req[y].deps \subseteq seen'[y].touched
  BY <1>1, NotedSame, NotedKept DEF FullInv, IInv, Kept, Same
<1>3. SeriesTables' /\ \A y \in Txn : Spares(y)
  BY <1>1, <1>2, RowOnlySeries
<1> QED BY <1>3, SparedStory DEF SeriesInv, SeriesTables
(* A creation attaches an unused row, which has no history, to a new task.      *)
LEMMA CommitCreateSeries ==
  ASSUME FullInv, TypeOK', NEW x \in Txn, CommitCreate(x)
  PROVE  SeriesInv'
<1> DEFINE r == req[x]
<1>1. PICK t \in Task : t = seen[x].id
  BY DEF FullInv, IInv, TypeOK, TargetsOK, CommitCreate
<1>2. /\ pc[x] = "insert" /\ r \in Requests /\ Finish(x, {t})
      /\ task' = [task EXCEPT ![t] = NewTask(r.status, r.due, seen[x].seq)]
      /\ occurrences' = occurrences
  BY <1>1 DEF CommitCreate, FullInv, IInv, TypeOK, TransactionsTypeOK
<1>3. ~Born(t) /\ seen[x].seq = nextSeq
  BY <1>1, <1>2 DEF FullInv, IInv, TxnInv, ReserveInv, Inserting
<1>4. /\ task \in [Task -> Row] /\ nextSeq \in Nat \ {0}
      /\ series \in [Series -> Schedule] /\ series' \in [Series -> Schedule]
      /\ occurrences \subseteq [series : Series, at : Time, task : Task]
      /\ \A s \in Series : series[s].task # None => series[s].task \in Task
  BY DEF FullInv, IInv, TypeOK, TablesTypeOK, Schedule
<1>5. /\ task'[t].status = r.status /\ task'[t].due = r.due /\ task'[t].seq # 0
      /\ \A u \in Task : u # t => task'[u] = task[u]
      /\ \A u \in Task : Born(u) => task'[u] = task[u] /\ Born(u)' /\ u # t
  BY <1>2, <1>3, <1>4 DEF NewTask, Born
<1>6. StoryInv(x) /\ r.status # "ARCHIVED" /\ (r.sched = "enable" => r.next # 0)
  BY <1>2 DEF FullInv, SeriesInv, StoryInv, RequestInv, Creating
<1>7. HistoryInv /\ CurrentIsLatest /\ RecurringTaskHasDueDate /\ ArchivedSeriesPaused
        /\ OccurrencesUnique
  BY DEF FullInv, SeriesInv
<1>8. \/ series' = series
      \/ \E s \in Series :
           /\ series[s].start = 0 /\ \A q \in Series : q # s => series'[q] = series[q]
           /\ series'[s].task = t /\ series'[s].start # 0 /\ r.due # 0
           /\ series'[s].enabled => series'[s].next # 0
  <2>1. CASE r.sched \in {"enable", "pause"}
    <3> DEFINE row == [task |-> t, start |-> r.due, next |-> r.next,
                       enabled |-> r.sched = "enable"]
    <3>1. PICK s \in Series : series[s].start = 0 /\ series' = [series EXCEPT ![s] = row]
      BY <2>1, <1>1 DEF CommitCreate, Unused
    <3>2. /\ row.task = t /\ row.start # 0 /\ r.due # 0 /\ (row.enabled => row.next # 0)
      BY <2>1, <1>6 DEF FullInv, IInv, TxnInv, RecurInv
    <3> HIDE DEF row
    <3> QED BY <3>1, <3>2, <1>4
  <2>2. CASE r.sched \notin {"enable", "pause"}
    BY <2>2 DEF CommitCreate
  <2> QED BY <2>1, <2>2
<1>9. ASSUME NEW u \in Task, Born(u) PROVE AttachedTo(u)' = AttachedTo(u)
  <2>1. \A s \in Series : series[s].start = 0 => series[s].task = None
    BY DEF FullInv, IInv, TablesInv, UnusedDetached, Unused
  <2> QED BY <1>5, <1>8, <1>9, <2>1, ConstantsAssumption DEF AttachedTo
<1>10. HistoryInv'
  BY <1>2, <1>4, <1>5, <1>7, <1>8 DEF HistoryInv, Born
<1>11. OccurrencesUnique' /\ RecurringTaskHasDueDate'
  BY <1>2, <1>4, <1>5, <1>7, <1>8 DEF HistoryInv, OccurrencesUnique, RecurringTaskHasDueDate
<1>12. ArchivedSeriesPaused'
  BY <1>4, <1>5, <1>6, <1>7, <1>8, ConstantsAssumption DEF HistoryInv, ArchivedSeriesPaused
<1>13. CurrentIsLatest'
  <2> SUFFICES ASSUME NEW s \in Series, series'[s].task # None
               PROVE  /\ \A q \in Series : series'[q].task = series'[s].task => q = s
                      /\ \A o \in occurrences : o.series = s =>
                           \E p \in occurrences :
                             p.series = s /\ p.task = series'[s].task /\ p.at >= o.at
    BY <1>2 DEF CurrentIsLatest, AttachedTo
  <2>1. CASE series'[s] = series[s]
    <3>1. PICK u \in Task : u = series[s].task /\ Born(u)
      BY <2>1, <1>4, <1>7 DEF HistoryInv
    <3>2. AttachedTo(u)' = {s} /\ AttachedTo(u) = {s}
      BY <2>1, <3>1, <1>7, <1>9 DEF CurrentIsLatest
    <3>3. \A q \in Series : series'[q].task = u => q = s
      BY <3>2 DEF AttachedTo
    <3> QED BY <2>1, <3>1, <3>3, <1>7 DEF CurrentIsLatest
  <2>2. CASE series'[s] # series[s]
    <3>1. /\ series[s].start = 0 /\ \A q \in Series : q # s => series'[q] = series[q]
          /\ series'[s].task = t
      BY <2>2, <1>8
    <3>2. \A q \in Series : series'[q].task = t => q = s
      BY <3>1, <1>3, <1>7, ConstantsAssumption DEF HistoryInv
    <3>3. \A o \in occurrences : o.series # s
      BY <3>1, <1>7 DEF HistoryInv
    <3> QED BY <3>1, <3>2, <3>3
  <2> QED BY <2>1, <2>2
<1>14. ASSUME NEW y \in Txn, y # x PROVE Spares(y)
  <2>1. /\ Kept(y)
        /\ pc[y] \in PastGate /\ req[y].status \in GatedMoveTargets =>
             {t} \cap req[y].deps \subseteq seen'[y].touched
    BY <1>2, <1>14, FinishKept DEF FullInv, IInv
  <2>2. \A u \in Task : Born(u) => /\ task[u].version <= task'[u].version
                                   /\ AttachedTo(u)' \subseteq AttachedTo(u)
    BY <1>4, <1>5, <1>9 DEF Row
  <2>3. pc[y] = "apply" =>
          /\ ScheduleRows(y)' \subseteq ScheduleRows(y)
          /\ \A o \in occurrences' : o.series \in ScheduleRows(y)' => o \in occurrences
    <3> SUFFICES ASSUME pc[y] = "apply" PROVE ScheduleRows(y)' \subseteq ScheduleRows(y)
      BY <1>2
    <3>1. PICK u \in Task : u = req[y].task /\ Born(u)
      BY DEF FullInv, IInv, TxnInv, TargetInv, WorksOnTask, TypeOK, TargetsOK
    <3>2. AttachedTo(u)' = AttachedTo(u) /\ req'[y] = req[y]
      BY <3>1, <1>9, <2>1 DEF Kept, Same
    <3>3. Unused' \subseteq Unused
      BY <1>8 DEF Unused
    <3>4. AttachedTo(req[y].task)' = AttachedTo(u)
      BY <3>1, <3>2 DEF AttachedTo
    <3> QED BY <3>1, <3>2, <3>3, <3>4 DEF ScheduleRows
  <2>4. ASSUME NEW d \in req[y].deps, Born(d), Blocking(d)' PROVE Blocking(d)
    <3>1. d \in Task
      BY DEF FullInv, IInv, TypeOK, TransactionsTypeOK, Requests
    <3> QED BY <1>5, <2>4, <3>1 DEF Blocking
  <2> QED BY <2>1, <2>2, <2>3, <2>4 DEF Spares
<1>15. StoryInv(x)'
  BY <1>2, FinishStory DEF FullInv, IInv
<1> QED BY <1>10, <1>11, <1>12, <1>13, <1>14, <1>15, SparedStory DEF SeriesInv
(* An update that owns its row read the version that is current.               *)
LEMMA OwnersAreCurrent ==
  ASSUME IInv, NEW x \in Txn, pc[x] \in Owning
  PROVE  seen[x].version = task[req[x].task].version /\ task[req[x].task].status = seen[x].status
<1> DEFINE t == req[x].task
<1>1. /\ task[t].version = req[x].version
      /\ req[x].version <= seen[x].version /\ seen[x].version <= task[t].version
      /\ seen[x].version = task[t].version => task[t].status = seen[x].status
  BY DEF IInv, TxnInv, OwnInv, ReadInv, Owning, Informed
<1>2. req[x].version \in Nat /\ seen[x].version \in Nat
  BY DEF IInv, TypeOK, TransactionsTypeOK, Requests, Reading
<1>3. \A a, b \in Nat : a <= b /\ b <= a => b = a
  OBVIOUS
<1>4. seen[x].version = task[t].version
  BY <1>1, <1>2, <1>3
<1> QED BY <1>1, <1>4

(* What a commit makes of the schedule row it works on.                        *)
LEMMA CommittedRowIs ==
  ASSUME FullInv, NEW x \in Txn, pc[x] = "apply", NEW s \in ScheduleRows(x), s \in Series
  PROVE  LET c == CommittedRow(x, s)
             t == req[x].task
         IN /\ series[s].start # 0 => c.start # 0
            /\ c.enabled => c.next # 0
            /\ seen[x].run = "next" => c.task = seen[x].id
            /\ seen[x].run # "next" =>
                 /\ c.task \in {t, None}
                 /\ c.task = t => req[x].due # 0
                 /\ c.enabled => c.task = t /\ req[x].status # "ARCHIVED"
<1> DEFINE r == req[x]
           t == r.task
           row == EditedRow(x, s)
           next == NextOccurrence(row.start, seen[x].at)
<1>1. /\ t \in Task /\ r \in Requests /\ series[s] \in Schedule /\ row \in Schedule
  BY ScheduleRowType DEF FullInv, IInv, TypeOK, TargetsOK, TablesTypeOK,
     TransactionsTypeOK, WorksOnTask
<1>2. StoryInv(x) /\ TxnInv(x) /\ ArchivedSeriesPaused
  BY DEF FullInv, SeriesInv, IInv
<1>3. r.sched \in {"enable", "pause"} \/ s \in AttachedTo(t)
  BY ConstantsAssumption DEF ScheduleRows
<1>4. r.sched \in {"keep"} /\ s \in AttachedTo(t) => r.due # 0
  BY <1>2, OwnersAreCurrent DEF StoryInv, DueInv, Owning, Decided, Informed, FullInv
<1>5. /\ series[s].start # 0 => row.start # 0
      /\ row.enabled => row.next # 0 /\ row.task = t
      /\ row.task \in {t, None}
      /\ row.task = t => r.due # 0
  <2>1. CASE r.sched = "keep"
    BY <2>1, <1>1, <1>2, <1>3, <1>4 DEF EditedRow, AttachedTo, ArchivedSeriesPaused
  <2>2. CASE r.sched = "remove"
    BY <2>2, <1>1, ConstantsAssumption DEF EditedRow, Schedule
  <2>3. CASE r.sched \in {"enable", "pause"}
    BY <2>3, <1>1, <1>2 DEF EditedRow, StoryInv, RequestInv, TxnInv, RecurInv
  <2> QED BY <2>1, <2>2, <2>3, <1>1 DEF Requests, ScheduleInput
<1>6. /\ seen[x].run = "next" =>
           CommittedRow(x, s) =
             [row EXCEPT !.task = seen[x].id, !.next = next, !.enabled = next # 0]
      /\ seen[x].run # "next" /\ Paused(x) =>
           CommittedRow(x, s) = [row EXCEPT !.next = 0, !.enabled = FALSE]
      /\ seen[x].run # "next" /\ ~Paused(x) => CommittedRow(x, s) = row
  <2>1. seen[x].run = "next" => ~Paused(x)
    BY <1>2 DEF TxnInv, RecurInv, Completing, Paused
  <2> QED BY <2>1 DEF CommittedRow, HandedOver
<1> HIDE DEF row, next
<1>7. CASE seen[x].run = "next"
  BY <1>1, <1>5, <1>6, <1>7 DEF Schedule
<1>8. CASE seen[x].run # "next" /\ Paused(x)
  BY <1>1, <1>5, <1>6, <1>8 DEF Schedule
<1>9. CASE seen[x].run # "next" /\ ~Paused(x)
  BY <1>5, <1>6, <1>9 DEF Paused
<1> QED BY <1>7, <1>8, <1>9

(* An update edits the schedule of its own task, hands it over to the successor *)
(* under an instant of its own, and leaves every other series alone.            *)
LEMMA CommitUpdateSeries ==
  ASSUME FullInv, IInv', NEW x \in Txn, CommitUpdate(x)
  PROVE  SeriesInv'
<1> DEFINE r == req[x]
           g == seen[x].id
           at == seen[x].at
           successor == seen[x].run = "next"
<1>1. PICK t \in Task : t = req[x].task /\ pc[x] = "apply" /\ Born(t)
  BY DEF FullInv, IInv, TypeOK, TargetsOK, CommitUpdate, WorksOnTask, TxnInv, TargetInv
<1>2. /\ r \in Requests /\ seen[x] \in Reading /\ Finish(x, {t}) /\ t \in held[x]
      /\ successor => /\ g \in Task /\ ~Born(g) /\ g # t /\ at # 0 /\ at \in Time
                      /\ seen[x].seq = nextSeq
                      /\ r.sched \in {"enable", "pause"} \/ AttachedTo(t) # {}
  BY <1>1, ConstantsAssumption
  DEF CommitUpdate, FullInv, IInv, TypeOK, TransactionsTypeOK, TargetsOK, TxnInv,
      OwnInv, ReserveInv, RecurInv, Inserting, Owning, Reading, Time
<1>3. /\ task \in [Task -> Row] /\ series \in [Series -> Schedule]
      /\ occurrences \subseteq [series : Series, at : Time, task : Task]
      /\ \A s \in Series : series[s].task # None => series[s].task \in Task
      /\ nextSeq \in Nat \ {0} /\ None \notin Task /\ None \notin Series
  BY ConstantsAssumption DEF FullInv, IInv, TypeOK, TablesTypeOK, Schedule
<1>4. HistoryInv /\ CurrentIsLatest /\ OccurrencesUnique /\ RecurringTaskHasDueDate
        /\ ArchivedSeriesPaused /\ StoryInv(x)
  BY DEF FullInv, SeriesInv
<1> DEFINE edited == [task EXCEPT ![t].status = r.status, ![t].due = r.due,
                                  ![t].version = @ + 1]
           new == NewTask("NOT_STARTED", at, seen[x].seq)
           fresh(s) == [series |-> s, at |-> at, task |-> g]
<1>5. PICK s \in ScheduleRows(x) :
        /\ series' = IF s = None THEN series
                     ELSE [series EXCEPT ![s] = CommittedRow(x, s)]
        /\ successor => /\ task' = [edited EXCEPT ![g] = new]
                        /\ occurrences' = occurrences \cup {fresh(s)}
        /\ ~successor => task' = edited /\ occurrences' = occurrences
  BY <1>1 DEF CommitUpdate
<1>6. /\ DOMAIN edited = Task
      /\ edited[t].seq = task[t].seq /\ edited[t].version = task[t].version + 1
      /\ edited[t].status = r.status /\ edited[t].due = r.due
      /\ \A u \in Task : u # t => edited[u] = task[u]
  BY <1>1, <1>3 DEF Row
<1>7. new.status = "NOT_STARTED" /\ new.due = at /\ new.seq = seen[x].seq
  BY DEF NewTask
<1> HIDE DEF edited, new
<1>8. /\ task'[t].status = r.status /\ task'[t].due = r.due
      /\ task'[t].version = task[t].version + 1 /\ Born(t)'
      /\ successor => task'[g].status = "NOT_STARTED" /\ task'[g].due = at /\ task'[g].seq # 0
      /\ \A u \in Task : Born(u) => Born(u)' /\ (successor => u # g)
      /\ \A u \in Task : Born(u) /\ u # t => task'[u] = task[u]
  <2>1. CASE successor
    <3>1. /\ task'[g] = new /\ g # t
          /\ \A u \in Task : u # g => task'[u] = edited[u]
      BY <2>1, <1>2, <1>5, <1>6
    <3>2. new.seq # 0
      BY <2>1, <1>2, <1>3, <1>7
    <3>3. \A u \in Task : Born(u) => u # g
      BY <2>1, <1>2
    <3> QED BY <3>1, <3>2, <3>3, <1>1, <1>6, <1>7 DEF Born
  <2>2. CASE ~successor
    BY <2>2, <1>1, <1>5, <1>6 DEF Born
  <2> QED BY <2>1, <2>2
(* The row that is worked on, if there is one, and every other row.             *)
<1>9. /\ s \in Series \cup {None} /\ (successor => s \in Series)
      /\ s \in Series => s \in AttachedTo(t) \/ (AttachedTo(t) = {} /\ s \in Unused)
      /\ s = None => AttachedTo(t) = {}
      /\ \A q \in Series : q # s => series'[q] = series[q]
  BY <1>1, <1>2, <1>3, <1>5 DEF ScheduleRows, AttachedTo, Unused
<1>10. s \in Series =>
         /\ series'[s] = CommittedRow(x, s)
         /\ series[s].start # 0 => series'[s].start # 0
         /\ series'[s].enabled => series'[s].next # 0
         /\ successor => series'[s].task = g
         /\ ~successor => /\ series'[s].task \in {t, None}
                          /\ series'[s].task = t => r.due # 0
                          /\ series'[s].enabled => series'[s].task = t /\ r.status # "ARCHIVED"
  BY <1>1, <1>3, <1>5, CommittedRowIs
<1> HIDE DEF fresh
<1>11. ASSUME NEW q \in Series, q # s, series[q].task # None
       PROVE  /\ series[q].task \in Task /\ Born(series[q].task) /\ series[q].task # t
              /\ task'[series[q].task] = task[series[q].task]
  <2>1. series[q].task \in Task /\ Born(series[q].task)
    BY <1>3, <1>4, <1>11 DEF HistoryInv
  <2>2. series[q].task # t
    <3>1. series[q].task = t => q \in AttachedTo(t) /\ AttachedTo(t) = {q}
      BY <1>4, <1>11 DEF CurrentIsLatest, AttachedTo
    <3> QED BY <3>1, <1>9, <1>11
  <2> QED BY <2>1, <2>2, <1>8
<1>12. \A o \in occurrences : o.series = s => s \in AttachedTo(t)
  BY <1>3, <1>4, <1>9 DEF HistoryInv, Unused
<1>13. successor => \A o \in occurrences : o.series = s => o.at < at
  BY <1>4, <1>5 DEF StoryInv, FreshInv
<1>14. /\ occurrences \subseteq occurrences'
       /\ \A o \in occurrences' : o \in occurrences \/ (successor /\ o = fresh(s))
       /\ successor => fresh(s) \in occurrences'
       /\ fresh(s).series = s /\ fresh(s).at = at /\ fresh(s).task = g
  BY <1>5 DEF fresh
<1>15. HistoryInv'
  <2>1. ASSUME NEW q \in Series, series'[q].task # None PROVE task'[series'[q].task].seq # 0
    <3>1. CASE q # s
      <4>1. series'[q].task = series[q].task /\ series[q].task # None
        BY <2>1, <3>1, <1>9
      <4> QED BY <3>1, <4>1, <1>8, <1>11 DEF Born
    <3>2. CASE q = s
      <4>1. series'[q].task \in {t, g} /\ (series'[q].task = g => successor \/ g = t)
        BY <2>1, <3>2, <1>10
      <4> QED BY <4>1, <1>8 DEF Born
    <3> QED BY <3>1, <3>2
  <2>2. ASSUME NEW o \in occurrences' PROVE task'[o.task].seq # 0 /\ series'[o.series].start # 0
    <3>1. CASE o \in occurrences
      BY <3>1, <1>3, <1>4, <1>8, <1>9, <1>10 DEF HistoryInv, Born
    <3>2. CASE successor /\ o = fresh(s)
      <4>1. series'[s].task # None
        BY <3>2, <1>2, <1>3, <1>9, <1>10
      <4>2. series'[s].start # 0
        BY <3>2, <4>1, <1>9 DEF IInv, TablesInv, UnusedDetached, Unused
      <4> QED BY <3>2, <4>2, <1>8, <1>14 DEF Born
    <3> QED BY <3>1, <3>2, <1>14
  <2> QED BY <2>1, <2>2 DEF HistoryInv, Born
<1>16. OccurrencesUnique'
  <2> SUFFICES ASSUME NEW o \in occurrences', NEW p \in occurrences',
                      o.task = p.task \/ (o.series = p.series /\ o.at = p.at)
               PROVE  o = p
    BY DEF OccurrencesUnique
  <2>1. ASSUME NEW a \in occurrences, successor
        PROVE  a.task # g /\ ~(a.series = s /\ a.at = at)
    <3>1. a.task # g
      BY <2>1, <1>2, <1>4 DEF HistoryInv
    <3>2. a.at \in Nat /\ at \in Nat
      BY <2>1, <1>2, <1>3, TimeIsNat
    <3> QED BY <2>1, <3>1, <3>2, <1>13
  <2>2. CASE o \in occurrences /\ p \in occurrences
    BY <2>2, <1>4 DEF OccurrencesUnique
  <2> QED BY <2>1, <2>2, <1>14
<1>17. RecurringTaskHasDueDate'
  BY <1>2, <1>4, <1>8, <1>9, <1>10, <1>11 DEF RecurringTaskHasDueDate
<1>18. ArchivedSeriesPaused'
  <2> SUFFICES ASSUME NEW q \in Series, series'[q].enabled
               PROVE  /\ series'[q].next # 0 /\ series'[q].task # None
                      /\ task'[series'[q].task].status # "ARCHIVED"
    BY DEF ArchivedSeriesPaused
  <2>1. CASE q # s
    <3>1. series'[q] = series[q] /\ series[q].task # None
      BY <2>1, <1>4, <1>9 DEF ArchivedSeriesPaused
    <3> QED BY <2>1, <3>1, <1>4, <1>11 DEF ArchivedSeriesPaused
  <2>2. CASE q = s
    BY <2>2, <1>2, <1>3, <1>8, <1>10
  <2> QED BY <2>1, <2>2
<1>19. CurrentIsLatest'
  <2> SUFFICES ASSUME NEW q \in Series, series'[q].task # None
               PROVE  /\ \A p \in Series : series'[p].task = series'[q].task => p = q
                      /\ \A o \in occurrences' : o.series = q =>
                           \E p \in occurrences' :
                             p.series = q /\ p.task = series'[q].task /\ p.at >= o.at
    BY DEF CurrentIsLatest, AttachedTo
  <2>1. ASSUME NEW p \in Series, p # s, series[p].task # None
        PROVE  ~(s \in Series /\ series'[s].task = series[p].task)
    BY <2>1, <1>2, <1>8, <1>10, <1>11
  <2>2. CASE q # s
    <3>1. series'[q] = series[q] /\ series[q].task # None
      BY <2>2, <1>9
    <3>2. \A p \in Series : series[p].task = series[q].task => p = q
      BY <3>1, <1>4 DEF CurrentIsLatest, AttachedTo
    <3>3. \A p \in Series : series'[p].task = series'[q].task => p = q
      BY <2>1, <2>2, <3>1, <3>2, <1>9
    <3>4. \A o \in occurrences' : o.series = q => o \in occurrences
      BY <2>2, <1>14
    <3> QED BY <3>1, <3>3, <3>4, <1>4, <1>14 DEF CurrentIsLatest
  <2>3. CASE q = s
    <3>1. \A p \in Series : series'[p].task = series'[q].task => p = q
      BY <2>1, <2>3, <1>9
    <3>2. CASE successor
      <4>1. ASSUME NEW o \in occurrences', o.series = q PROVE at >= o.at
        <5>1. CASE o \in occurrences
          <6>1. o.at \in Nat /\ at \in Nat /\ o.at < at
            BY <2>3, <3>2, <4>1, <5>1, <1>2, <1>3, <1>13, TimeIsNat
          <6> QED BY <6>1
        <5>2. CASE o = fresh(s)
          <6>1. at \in Nat
            BY <3>2, <1>2, TimeIsNat
          <6> QED BY <5>2, <6>1, <1>14
        <5> QED BY <4>1, <5>1, <5>2, <1>14
      <4> QED BY <2>3, <3>1, <3>2, <4>1, <1>10, <1>14
    <3>3. CASE ~successor
      <4>1. series'[q].task = t /\ occurrences' = occurrences
        BY <2>3, <3>3, <1>5, <1>10
      <4>2. ASSUME NEW o \in occurrences, o.series = q
            PROVE  \E p \in occurrences : p.series = q /\ p.task = t /\ p.at >= o.at
        <5>1. series[q].task = t /\ t # None
          BY <2>3, <4>2, <1>3, <1>12 DEF AttachedTo
        <5> QED BY <4>2, <5>1, <1>4 DEF CurrentIsLatest
      <4> QED BY <3>1, <4>1, <4>2
    <3> QED BY <3>2, <3>3
  <2> QED BY <2>2, <2>3
<1>20. ASSUME NEW y \in Txn, y # x PROVE Spares(y)
  <2>1. /\ Kept(y) /\ req'[y] = req[y]
        /\ pc[y] \in PastGate /\ req[y].status \in GatedMoveTargets =>
             {t} \cap req[y].deps \subseteq seen'[y].touched
    BY <1>2, <1>20, FinishKept DEF FullInv, IInv, Kept, Same
  <2>2. ASSUME NEW u \in Task, Born(u), u # t PROVE AttachedTo(u)' = AttachedTo(u)
    <3>1. s \in Series => series'[s].task # u /\ series[s].task # u
      BY <2>2, <1>3, <1>8, <1>9, <1>10
      DEF AttachedTo, FullInv, IInv, TablesInv, UnusedDetached
    <3> QED BY <3>1, <1>9 DEF AttachedTo
  <2>3. ASSUME NEW u \in Task, Born(u)
        PROVE  /\ task[u].version <= task'[u].version
               /\ task'[u].version = task[u].version => AttachedTo(u)' \subseteq AttachedTo(u)
    <3>1. task[u].version \in Nat
      BY <1>3 DEF Row
    <3>2. CASE u = t
      BY <3>1, <3>2, <1>8
    <3>3. CASE u # t
      BY <2>2, <2>3, <3>1, <3>3, <1>8
    <3> QED BY <3>2, <3>3
  <2>4. pc[y] = "apply" =>
          /\ ScheduleRows(y)' \subseteq ScheduleRows(y)
          /\ \A o \in occurrences' : o.series \in ScheduleRows(y)' => o \in occurrences
    <3> SUFFICES ASSUME pc[y] = "apply"
                 PROVE  /\ ScheduleRows(y)' \subseteq ScheduleRows(y)
                        /\ \A o \in occurrences' :
                             o.series \in ScheduleRows(y)' => o \in occurrences
      OBVIOUS
    <3>1. PICK u \in Task : u = req[y].task /\ Born(u) /\ u \in held[y]
      BY DEF FullInv, IInv, TxnInv, TargetInv, OwnInv, Owning, WorksOnTask, TypeOK, TargetsOK
    <3>2. u # t
      BY <3>1, <1>2, <1>20 DEF FullInv, IInv, LocksExclusive
    <3>3. AttachedTo(req[y].task)' = AttachedTo(u) /\ AttachedTo(req[y].task) = AttachedTo(u)
      BY <2>1, <2>2, <3>1, <3>2 DEF AttachedTo
    <3>4. Unused' \subseteq Unused
      BY <1>9, <1>10 DEF Unused
    <3>5. ScheduleRows(y)' \subseteq ScheduleRows(y)
      BY <2>1, <3>3, <3>4 DEF ScheduleRows
    <3>6. successor => s \notin ScheduleRows(y)'
      <4>1. successor => s \in Series /\ series'[s].start # 0
        BY <1>9, <1>14, <1>15 DEF HistoryInv
      <4>2. s \in Series => s \notin AttachedTo(u)
        BY <3>1, <3>2, <1>3, <1>9
        DEF AttachedTo, FullInv, IInv, TablesInv, UnusedDetached
      <4> QED BY <4>1, <4>2, <3>3, <1>3 DEF ScheduleRows, Unused
    <3> QED BY <3>5, <3>6, <1>14
  <2>5. ASSUME NEW d \in req[y].deps, Born(d), Blocking(d)', d # t PROVE Blocking(d)
    <3>1. d \in Task
      BY DEF FullInv, IInv, TypeOK, TransactionsTypeOK, Requests
    <3> QED BY <2>5, <3>1, <1>8 DEF Blocking
  <2> QED BY <2>1, <2>3, <2>4, <2>5 DEF Spares
<1>21. StoryInv(x)'
  BY <1>2, FinishStory DEF FullInv, IInv
<1> QED BY <1>15, <1>16, <1>17, <1>18, <1>19, <1>20, <1>21, SparedStory DEF SeriesInv, IInv
-----------------------------------------------------------------------------
(* The status gate *)

(* A creation or an update enters a gated status with the prerequisites it       *)
(* commits, and its gate invariant speaks of just these.                        *)
LEMMA CreateHonoursGate ==
  ASSUME FullInv, NEW x \in Txn, CommitCreate(x), NEW t \in Task, EntersGate(t),
         NEW d \in Task, <<t, d>> \in edges', Blocking(d)
  PROVE  d \in seen[x].touched
<1> DEFINE r == req[x]
<1>1. PICK new \in Task : new = seen[x].id
  BY DEF FullInv, IInv, TypeOK, TargetsOK, CommitCreate
<1>2. /\ pc[x] = "insert" /\ edges' = edges \cup ({new} \X r.deps)
      /\ task' = [task EXCEPT ![new] = NewTask(r.status, r.due, seen[x].seq)]
  BY <1>1 DEF CommitCreate
<1>3. ~Born(new)
  BY <1>1, <1>2 DEF FullInv, IInv, TxnInv, ReserveInv, Inserting
<1>4. t = new /\ task'[t].status = r.status
  BY <1>2 DEF EntersGate, NewTask, FullInv, IInv, TypeOK, TablesTypeOK
<1>5. <<t, d>> \notin edges
  BY <1>3, <1>4 DEF FullInv, IInv, TablesInv, EdgesBorn
<1>6. d \in r.deps
  BY <1>2, <1>5
<1>7. seen[x].status = "NOT_STARTED" /\ r.status \in GatedMoveTargets
  BY <1>2, <1>4 DEF FullInv, SeriesInv, StoryInv, RequestInv, Creating, EntersGate
<1> QED BY <1>2, <1>6, <1>7
        DEF FullInv, SeriesInv, StoryInv, GateInv, PastGate, GatedMoveTargets

LEMMA UpdateHonoursGate ==
  ASSUME FullInv, NEW x \in Txn, CommitUpdate(x), NEW t \in Task, EntersGate(t),
         NEW d \in Task, <<t, d>> \in edges', Blocking(d)
  PROVE  d \in seen[x].touched
<1> DEFINE r == req[x]
           g == seen[x].id
           edited == [task EXCEPT ![r.task].status = r.status, ![r.task].due = r.due,
                                  ![r.task].version = @ + 1]
           new == NewTask("NOT_STARTED", seen[x].at, seen[x].seq)
<1>1. /\ pc[x] = "apply" /\ edges' = Rewired(edges, r.task, seen[x].deps, r.deps)
      /\ task' = edited \/ task' = [edited EXCEPT ![g] = new]
  BY DEF CommitUpdate
<1>2. /\ DOMAIN edited = Task /\ new.status \notin GatedMoveTargets
      /\ edited[r.task].status = r.status
      /\ \A u \in Task : u # r.task => edited[u] = task[u]
  <2>1. task \in [Task -> Row] /\ r.task \in Task
    BY <1>1 DEF FullInv, IInv, TypeOK, TablesTypeOK, TargetsOK, WorksOnTask
  <2>2. new.status \notin GatedMoveTargets
    BY DEF NewTask, GatedMoveTargets
  <2>3. DOMAIN edited = Task /\ \A u \in Task : u # r.task => edited[u] = task[u]
    BY <2>1
  <2>4. edited[r.task].status = r.status
    BY <2>1 DEF Row
  <2> QED BY <2>2, <2>3, <2>4
<1> HIDE DEF edited, new
<1>3. t = r.task /\ task'[t].status = r.status
  BY <1>1, <1>2 DEF EntersGate
<1>4. Born(t) /\ task[t].status = seen[x].status /\ Deps(t) = seen[x].deps
  BY <1>1, <1>3, OwnersAreCurrent, CurrentDecisions
  DEF FullInv, IInv, TxnInv, TargetInv, WorksOnTask, Owning, DecisionsStillCurrent
<1>5. r.status \in GatedMoveTargets /\ r.status # seen[x].status
  BY <1>3, <1>4 DEF EntersGate, Born
<1>6. d \in r.deps
  BY <1>1, <1>3, <1>4 DEF Rewired, Deps, Prerequisites
<1> QED BY <1>1, <1>5, <1>6 DEF FullInv, SeriesInv, StoryInv, GateInv, PastGate

LEMMA GateStep ==
  ASSUME FullInv, [Next]_vars, NEW x \in Txn, NEW t \in Task,
         pc[x] \in PastGate, pc'[x] = "idle", EntersGate(t),
         NEW d \in Task, <<t, d>> \in edges', Blocking(d)
  PROVE  d \in seen[x].touched
<1>1. pc[x] # "idle" /\ pc \in [Txn -> Labels]
  BY DEF PastGate, FullInv, IInv, TypeOK, TransactionsTypeOK
<1>2. task' # task
  BY DEF EntersGate
<1>3. PICK y \in Txn : CommitCreate(y) \/ CommitUpdate(y) \/ Remove(y)
  <2>1. ~Tick /\ ~UNCHANGED vars
    BY <1>2 DEF Tick, tables, vars
  <2>2. \A u \in Task : ~Restore(u)
    BY <1>1 DEF Restore
  <2>3. \A y \in Txn : /\ ~Answer(y) /\ ~BreakDeadlock(y)
                       /\ \A label : ~Proceed(y, label)
                       /\ \A r, label : ~Submit(y, r, label)
    BY <1>2 DEF Answer, BreakDeadlock, Proceed, Submit, tables
  <2>4. ASSUME NEW y \in Txn
        PROVE  ~SubmitCreate(y) /\ ~SubmitUpdate(y) /\ ~SubmitDelete(y) /\ ~Abandon(y)
    BY <2>3 DEF SubmitCreate, SubmitUpdate, SubmitDelete, Abandon
  <2>5. ASSUME NEW y \in Txn, Step(y)
        PROVE  CommitCreate(y) \/ CommitUpdate(y) \/ Remove(y)
    BY <2>3, <2>5
    DEF Step, CheckCreate, TakeSequence, ReadExisting, ReadEdges, LockBoardGraph, CheckCycle,
        CheckGate, WriteTask, GenerateNextOccurrence, ReadVisible
  <2> QED BY <2>1, <2>2, <2>3, <2>4, <2>5 DEF Next
<1>4. y = x
  BY <1>1, <1>3 DEF CommitCreate, CommitUpdate, Remove, Finish, Goto
<1>5. ~Remove(x)
  BY DEF Remove, PastGate
<1> QED BY <1>3, <1>4, <1>5, CreateHonoursGate, UpdateHonoursGate

-----------------------------------------------------------------------------
(* The invariant and the theorems *)

LEMMA SeriesInit == Init => SeriesInv
<1> SUFFICES ASSUME Init PROVE SeriesInv
  OBVIOUS
<1>1. SeriesTables
  BY DEF Init, SeriesTables, HistoryInv, CurrentIsLatest, OccurrencesUnique,
         RecurringTaskHasDueDate, ArchivedSeriesPaused
<1>2. ASSUME NEW x \in Txn PROVE StoryInv(x)
  <2>1. /\ pc[x] = "idle" /\ req[x].sched = "keep" /\ seen[x].run # "next"
        /\ seen[x].status = "NOT_STARTED"
    BY DEF Init, NoRequest, Request, NothingSeen
  <2> QED BY <2>1 DEF StoryInv, RequestInv, DueInv, FreshInv, GateInv, Creating,
                      Decided, Informed, PastGate
<1> QED BY <1>1, <1>2 DEF SeriesInv, SeriesTables

LEMMA SeriesNext == FullInv /\ [Next]_vars => FullInv'
<1> SUFFICES ASSUME FullInv, [Next]_vars PROVE SeriesInv' /\ IInv'
  BY DEF FullInv
<1>1. IInv' /\ TypeOK'
  BY IInvNext DEF FullInv, IInv
<1>2. CASE UNCHANGED vars \/ Tick
  <2>1. UNCHANGED <<tables, pc, req, seen, held>>
    BY <1>2 DEF vars, tables, Tick
  <2>2. \A y \in Txn : Kept(y)
    BY <2>1 DEF Kept, Same
  <2>3. SeriesTables' /\ \A y \in Txn : StoryInv(y)'
    BY <2>1, <2>2, KeptStory, QuietTables DEF FullInv, SeriesInv, SeriesTables
  <2> QED BY <2>3, <1>1 DEF SeriesInv, SeriesTables
<1>3. ASSUME NEW t \in Task, Restore(t) PROVE SeriesInv'
  BY <1>1, <1>3, RestoreSeries
<1>4. ASSUME NEW x \in Txn,
             SubmitCreate(x) \/ SubmitUpdate(x) \/ SubmitDelete(x)
               \/ Step(x) \/ Abandon(x) \/ BreakDeadlock(x)
      PROVE  SeriesInv'
  <2>1. CASE SubmitCreate(x) \/ SubmitUpdate(x) \/ SubmitDelete(x)
    BY <2>1, SubmitsSeries
  <2>2. CASE Abandon(x)
    BY <2>2, AnswerSeries DEF Abandon
  <2>3. CASE BreakDeadlock(x)
    BY <2>3, RetrySeries
  <2>4. CASE Step(x)
    BY <1>1, <2>4, CheckCreateSeries, TakeSequenceSeries, CommitCreateSeries,
       ReadExistingSeries, ReadEdgesSeries, OnwardsSeries, GenerateSeries,
       CommitUpdateSeries, ReadVisibleSeries, RemoveSeries DEF Step
  <2> QED BY <1>4, <2>1, <2>2, <2>3, <2>4
<1> QED BY <1>1, <1>2, <1>3, <1>4 DEF Next

(* The whole invariant is inductive: what the transactions rely on, the locks    *)
(* that keep it true, and the history of every series.                          *)
THEOREM FullInductive == Spec => []FullInv
<1>1. Init => FullInv
  BY IInvInit, SeriesInit DEF FullInv
<1> QED BY <1>1, SeriesNext, PTL DEF Spec

(* A recurring task has a due date, although the update that clears the date and *)
(* the one that adds the schedule check each other without a common lock: the    *)
(* version of the task decides which of the two commits.                        *)
THEOREM RecurringTasksKeepDueDate == Spec => []RecurringTaskHasDueDate
<1>1. FullInv => RecurringTaskHasDueDate
  BY DEF FullInv, SeriesInv
<1> QED BY <1>1, FullInductive, PTL

(* An enabled schedule knows its next run and is not that of an archived task.   *)
THEOREM ArchivingPauses == Spec => []ArchivedSeriesPaused
<1>1. FullInv => ArchivedSeriesPaused
  BY DEF FullInv, SeriesInv
<1> QED BY <1>1, FullInductive, PTL

(* A series is never forked: its schedule has one task, the one it generated     *)
(* last, whatever completions of older occurrences race.                        *)
THEOREM SeriesNeverFork == Spec => []CurrentIsLatest
<1>1. FullInv => CurrentIsLatest
  BY DEF FullInv, SeriesInv
<1> QED BY <1>1, FullInductive, PTL

(* No instant of a series is generated twice and no task by two occurrences, so  *)
(* the unique keys of schedule_occurrence refuse nothing.                       *)
THEOREM OccurrencesNeverRepeat == Spec => []OccurrencesUnique
<1>1. FullInv => OccurrencesUnique
  BY DEF FullInv, SeriesInv
<1> QED BY <1>1, FullInductive, PTL

(* A task enters In Progress or Completed with its prerequisites settled, unless *)
(* one was opened after the transaction looked.                                 *)
THEOREM GateAlwaysHonoured == Spec => GateHonoured
<1>1. FullInv /\ [Next]_vars =>
        [\A x \in Txn, t \in Task :
           pc[x] \in PastGate /\ pc'[x] = "idle" /\ EntersGate(t) =>
             \A d \in Task : <<t, d>> \in edges' /\ Blocking(d) => d \in seen[x].touched]_vars
  BY GateStep
<1> QED BY <1>1, FullInductive, PTL DEF Spec, GateHonoured
==============================================================================
