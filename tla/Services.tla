------------------------------- MODULE Services -------------------------------
(****************************************************************************)
(* The parts of the backend that share nothing with each other or with a     *)
(* board, side by side: the rate limiter, the storage behind authentication, *)
(* the two seeds, and the plan that one of them writes.                      *)
(****************************************************************************)
EXTENDS Integers

CONSTANTS Key,
          Limit, Window, SweepEvery, MaxBuckets, MaxFailing, MaxEvicted,   \* rate limiter
          Process, RecordKey, MaxWrites,                                   \* auth storage
          MaxPlanned, Users, Seed,                                         \* seeds
          TaskCount, LookBack, MaxSchedules                                \* volume plan

VARIABLES hits, buckets, sweepIn, failing, watch,                          \* rate limiter
          shared, memory, taking, writes, gone,                            \* auth storage
          seed, account, sequence, content, links, counter, plan, row, at, ended, halved, usable,
          tasks, dependencies, schedules                                   \* volume plan

Limiter == INSTANCE RateLimiter WITH redis <- hits, memory <- buckets
Storage == INSTANCE AuthStorage WITH redis <- shared
Seeding == INSTANCE Seeds WITH edges <- links
Planning == INSTANCE VolumePlan WITH Window <- LookBack

(* Limits and sizes are numbers, and users' rows are beside those that seeds plan. *)
ASSUME ServicesAssumption ==
  /\ Limit \in Nat /\ Window \in Nat /\ LookBack \in Nat
  /\ MaxPlanned \in Nat /\ Users \cap (1..MaxPlanned) = {}

-----------------------------------------------------------------------------
(* See RateLimiter: what a client is allowed in any window is bounded. *)
BurstBounded == Limiter!BurstBounded

(* See AuthStorage: a withdrawn session value is never read again. *)
WithdrawnStaysAway == Storage!WithdrawnStaysAway

(* See Seeds: what a run of a seed leaves, after any history; see VolumePlan: the   *)
(* planned rows could have come through the API.                                     *)
SeededBoardSound == Seeding!SeededBoardSound /\ Planning!PlanObeysApi
==============================================================================
