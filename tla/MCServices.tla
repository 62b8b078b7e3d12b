------------------------------ MODULE MCServices ------------------------------
(****************************************************************************)
(* The parts of the backend that share nothing with each other, checked by one *)
(* run: Init chooses the part in play, and the others rest in a state where    *)
(* their fairness asks for nothing. The bounds are here and in Services.cfg.      *)
(* The cycle search is the module that this one extends, so its properties are  *)
(* checked as they stand; tasks being interchangeable, one of them is edited.   *)
(****************************************************************************)
EXTENDS CycleSearch, Services, OutboxWorker

CONSTANTS c1, t1

VARIABLES part,
          proc, code, listening, redis, closing, stop, heard, open, todo, probe    \* API process

Server == INSTANCE ApiServer WITH Connection <- {c1}

(* The worker runs, and nothing was ever deleted.                              *)
RestingWorker ==
  /\ stored = {} /\ cleanup = [o \in Object |-> "none"]
  /\ up = TRUE /\ batch = {} /\ crashes = 0
  /\ job = [o \in Object |-> "none"] /\ attempts = [o \in Object |-> 0]

RestingSearch ==
  edges = {} /\ taskId = t1 /\ added = {} /\ pending = {} /\ visited = {} /\ answer = "none"

ServicesInit ==
  /\ part \in {"limiter", "storage", "worker", "server", "search", "seeds", "plan"}
  /\ Limiter!Init /\ Storage!Init /\ Server!Init /\ Planning!Init
  /\ Seeding!Init /\ (part # "seeds" => seed = "demo")
  /\ IF part = "worker" THEN Worker!Init ELSE RestingWorker
  /\ IF part = "search" THEN taskId = t1 /\ Init ELSE RestingSearch

limiter == <<hits, buckets, sweepIn, failing, watch>>
storage == <<shared, memory, taking, writes, gone>>
outbox == <<stored, cleanup, worker>>
server == <<proc, code, listening, redis, closing, stop, heard, open, todo, probe>>
seeds == <<seed, account, sequence, content, links, counter, plan, row, at, ended, halved, usable>>
planned == <<tasks, dependencies, schedules>>
all == <<part, limiter, storage, outbox, server, vars, seeds, planned>>

ServicesNext ==
  \/ part = "limiter" /\ Limiter!Next /\ UNCHANGED <<part, storage, outbox, server, vars, seeds, planned>>
  \/ part = "storage" /\ Storage!Next /\ UNCHANGED <<part, limiter, outbox, server, vars, seeds, planned>>
  \/ part = "worker" /\ Worker!Next /\ UNCHANGED <<part, limiter, storage, server, vars, seeds, planned>>
  \/ part = "server" /\ Server!Next /\ UNCHANGED <<part, limiter, storage, outbox, vars, seeds, planned>>
  \/ part = "search" /\ Next /\ UNCHANGED <<part, limiter, storage, outbox, server, seeds, planned>>
  \/ part = "seeds" /\ Seeding!Next /\ UNCHANGED <<part, limiter, storage, outbox, server, vars, planned>>
  \/ part = "plan" /\ Planning!Next /\ UNCHANGED <<part, limiter, storage, outbox, server, vars, seeds>>

ServicesSpec ==
  /\ ServicesInit /\ [][ServicesNext]_all
  /\ Limiter!Fairness /\ Worker!Fairness /\ Server!Fairness /\ WF_vars(Next)

-----------------------------------------------------------------------------
(* See RateLimiter: no key is locked out for good. *)
NoLockout == Limiter!NoLockout

(* See ApiServer: every request is answered or cut. *)
EveryRequestEnds == Server!EveryRequestEnds

(* See ApiServer: a signal ends the process, unless Redis keeps it. *)
ExitsAfterSignal == Server!ExitsAfterSignal

(* See VolumePlan: a planned task that repeats has a due date. *)
PlannedRecurringHasDueDate == Planning!PlannedRecurringHasDueDate
==============================================================================
