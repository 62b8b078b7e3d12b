---------------------------- MODULE CleanupWorker ----------------------------
(****************************************************************************)
(* attachments.cleanup.ts and worker.ts: the process that turns pending     *)
(* outbox rows into BullMQ jobs, at its start and by a sweep, and runs them. *)
(* A job is added under the id of its row, which the queue ignores while it *)
(* keeps a job of that id, a failed one included (removeOnFail: false).     *)
(****************************************************************************)
EXTENDS Integers, FiniteSets

CONSTANTS Object,
          StartTake, SweepTake,   \* 500 and 100 rows
          Concurrency,            \* 4 jobs at a time
          MaxAttempts,            \* 8 runs of a job
          MaxCrashes              \* bound on the deaths of the process

VARIABLES stored, cleanup,
          up,        \* the worker process runs
          batch,     \* rows a findMany returned that are not added yet
          job,       \* the queue
          tries,     \* attempts made of each job
          crashes

queue == <<up, batch, job, tries, crashes>>
vars == <<stored, cleanup, queue>>

Outbox == INSTANCE ObjectOutbox WITH stored <- stored, cleanup <- cleanup

Pending == {o \in Object : cleanup[o] = "pending"}
Running == {o \in Object : job[o] \in {"active", "deleted"}}

Init ==
  /\ stored = Object
  /\ cleanup \in [Object -> {"none", "pending"}]
  /\ up = FALSE /\ batch = {} /\ crashes = 0
  /\ job = [o \in Object |-> "none"]
  /\ tries = [o \in Object |-> 0]

(* findMany with "take": all pending rows, or any "take" of them.              *)
Fetched(take) ==
  {rows \in SUBSET Pending :
     \/ rows = Pending /\ Cardinality(rows) <= take
     \/ Cardinality(rows) = take}

Start ==
  /\ ~up /\ up' = TRUE
  /\ batch' \in Fetched(StartTake)
  /\ UNCHANGED <<stored, cleanup, job, tries, crashes>>

(* Slip: only the start looks for rows. *)
NoSweep == up /\ batch = {} /\ UNCHANGED vars
Sweep ==
  /\ up /\ batch = {}
  /\ batch' \in Fetched(SweepTake)
  /\ UNCHANGED <<stored, cleanup, up, job, tries, crashes>>

(* The row may have been completed since; its job will find that out.          *)
Add(o) ==
  /\ up /\ o \in batch
  /\ batch' = batch \ {o}
  /\ IF job[o] = "none"
       THEN job' = [job EXCEPT ![o] = "waiting"] /\ tries' = [tries EXCEPT ![o] = 0]
       ELSE UNCHANGED <<job, tries>>
  /\ UNCHANGED <<stored, cleanup, up, crashes>>

(* A run that throws is retried, or fails for good.                            *)
Thrown(o) ==
  job' = [job EXCEPT ![o] = IF tries[o] < MaxAttempts THEN "waiting" ELSE "failed"]

Take(o) ==
  /\ up /\ job[o] = "waiting" /\ Cardinality(Running) < Concurrency
  /\ IF cleanup[o] = "pending"
       THEN job' = [job EXCEPT ![o] = "active"] /\ tries' = [tries EXCEPT ![o] = @ + 1]
       ELSE job' = [job EXCEPT ![o] = "none"] /\ UNCHANGED tries
  /\ UNCHANGED <<stored, cleanup, up, batch, crashes>>

(* Slip: an error of the store counts as "already gone". *)
DeleteForgiven(o) ==
  /\ up /\ job[o] = "active"
  /\ stored' \in {stored, stored \ {o}}
  /\ job' = [job EXCEPT ![o] = "deleted"]
  /\ UNCHANGED <<cleanup, up, batch, tries, crashes>>

DeleteObject(o) ==
  /\ up /\ job[o] = "active"
  /\ \/ stored' = stored \ {o} /\ job' = [job EXCEPT ![o] = "deleted"]
     \/ stored' \in {stored, stored \ {o}} /\ Thrown(o)
  /\ UNCHANGED <<cleanup, up, batch, tries, crashes>>

MarkCompleted(o) ==
  /\ up /\ job[o] = "deleted"
  /\ \/ cleanup' = [cleanup EXCEPT ![o] = "done"] /\ job' = [job EXCEPT ![o] = "none"]
     \/ cleanup' = cleanup /\ Thrown(o)
  /\ UNCHANGED <<stored, up, batch, tries, crashes>>

(* The process dies: a signal, or a sweep whose query or add rejects, which    *)
(* nothing handles. Its jobs stall; the next process finds them and runs them  *)
(* again, or fails the ones that stalled before.                               *)
Crash ==
  /\ up /\ crashes < MaxCrashes
  /\ up' = FALSE /\ batch' = {} /\ crashes' = crashes + 1
  /\ job' = [o \in Object |-> IF o \in Running THEN "stalled" ELSE job[o]]
  /\ UNCHANGED <<stored, cleanup, tries>>

Recover(o) ==
  /\ up /\ job[o] = "stalled"
  /\ \E after \in {"waiting", "failed"} : job' = [job EXCEPT ![o] = after]
  /\ UNCHANGED <<stored, cleanup, up, batch, tries, crashes>>

Work(o) == Add(o) \/ Take(o) \/ DeleteObject(o) \/ MarkCompleted(o) \/ Recover(o)

(* What the worker does; the API is what it enlists.                           *)
Operate == (\E o \in Object : Work(o)) \/ Start \/ Sweep \/ Crash

Next == Operate \/ \E o \in Object : Outbox!Enlist(o) /\ UNCHANGED queue

(* The process is restarted, its timer fires, and the queue runs jobs in turn. *)
Fairness ==
  /\ WF_vars(Start) /\ WF_vars(Sweep)
  /\ \A o \in Object : WF_vars(Add(o)) /\ SF_vars(Take(o)) /\ WF_vars(DeleteObject(o))
                         /\ WF_vars(MarkCompleted(o)) /\ WF_vars(Recover(o))

-----------------------------------------------------------------------------
(* However the process dies and the store fails, the worker only does what the *)
(* outbox promises: no row is completed while its object is there.             *)
ImplementsOutbox == Outbox!Spec

(* Every pending row is completed, unless its job used up its attempts: that   *)
(* row stays pending for ever, because the queue ignores its id from then on.  *)
(* And only if the pending rows, those included, come to fit in one sweep: a   *)
(* sweep takes them in no stated order and may pass over the rest each time.   *)
CleanupSettles ==
  (<>[](Cardinality(Pending) <= SweepTake)) =>
    \A o \in Object : cleanup[o] = "pending" ~> (cleanup[o] = "done" \/ job[o] = "failed")
==============================================================================
