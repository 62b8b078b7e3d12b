---------------------------- MODULE MCTaskAnswers ----------------------------
(* Instances of TaskBoard that start from a board earlier requests built, so *)
(* that the handlers race at once: t1 is the task they fight over, t2 its    *)
(* prerequisite on offer, t3 is left for the successor of t1.                *)
EXTENDS TaskBoardInvariant, TLC

CONSTANTS t1, t2, t3, s1

OneDep == {{}, {t2}}
Handlers == Permutations(Txn)

Plain == [task |-> None, start |-> 0, next |-> 0, enabled |-> FALSE]

Started(first, second, row, clock) ==
  /\ task = [t \in Task |-> CASE t = t1 -> first
                              [] t = t2 -> second
                              [] OTHER  -> NewTask("NOT_STARTED", 0, 0)]
  /\ edges = {}
  /\ nextSeq = IF second.seq = 0 THEN 2 ELSE 3
  /\ series = [s \in Series |-> IF s = s1 THEN row ELSE Plain]
  /\ occurrences = {}
  /\ now = clock
  /\ pc = [x \in Txn |-> "idle"]
  /\ req = [x \in Txn |-> NoRequest]
  /\ seen = [x \in Txn |-> NothingSeen]
  /\ held = [x \in Txn |-> {}]
  /\ tries = [x \in Txn |-> 1]

Recurring == [task |-> t1, start |-> 1, next |-> 2, enabled |-> TRUE]

(* The liveness instance: t1 recurs, t2 is open, or removed and perhaps restored. *)
StartedInit ==
  \E removed \in BOOLEAN :
    Started(NewTask("NOT_STARTED", 1, 1),
            [NewTask("NOT_STARTED", 1, 2) EXCEPT !.deleted = removed], Recurring, 0)
StartedFairSpec == StartedInit /\ [][Next]_vars /\ Fairness

(* The racing instance, at an instant later and after one edit of each task:  *)
(* t1 recurs and t2 is open, or t1 is plain and t2 settled or removed.        *)
Edited(row) == [row EXCEPT !.version = 2]
RacingInit ==
  LET first == Edited(NewTask("NOT_STARTED", 1, 1))
      open  == Edited(NewTask("NOT_STARTED", 0, 2))
  IN \/ Started(first, open, Recurring, 1)
     \/ Started(first, Edited(NewTask("COMPLETED", 0, 2)), Plain, 1)
     \/ Started(first, [open EXCEPT !.deleted = TRUE], Plain, 1)

(* One thing at a time: a request clears the date, or names the prerequisite, *)
(* or sends a schedule; it knows the version all started from, and leaves the *)
(* successor alone.                                                           *)
Focused(r) ==
  /\ r.kind # "none" => r.task # t3 /\ r.version = 2
  /\ r.due = 0 /\ r.kind = "update" => r.status = "NOT_STARTED" /\ r.deps = {}
  /\ r.deps # {} => r.sched = "keep"
RacingSpec == RacingInit /\ [][Next /\ \A x \in Txn : Focused(req'[x])]_vars

(* The series instance: t1 recurs, and one client at a time edits what it sees. *)
SeriesInit ==
  Started(NewTask("NOT_STARTED", 1, 1), NewTask("NOT_STARTED", 0, 0), Recurring, 1)
UpToDate(r) == r.kind # "none" => r.version = task[r.task].version
SeriesSpec == SeriesInit /\ [][Next /\ \A x \in Txn : UpToDate(req'[x])]_vars
==============================================================================
