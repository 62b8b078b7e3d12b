----------------------------- MODULE OutboxWorker -----------------------------
(****************************************************************************)
(* The worker process over the bucket and the object_cleanup table, for the  *)
(* modules that put it beside the API (FileService) or beside the other parts *)
(* of the backend (MCServices).                                               *)
(****************************************************************************)
EXTENDS Integers, FiniteSets

CONSTANTS Object,
          StartTake, SweepTake, Concurrency, MaxAttempts, MaxCrashes

VARIABLES stored, cleanup,
          up, batch, job, attempts, crashes

Worker == INSTANCE CleanupWorker WITH tries <- attempts

worker == <<up, batch, job, attempts, crashes>>

-----------------------------------------------------------------------------
(* See CleanupWorker: the worker does what the outbox promises. *)
ImplementsOutbox == Worker!ImplementsOutbox

(* See CleanupWorker: every pending row is completed or its job has failed. *)
CleanupSettles == Worker!CleanupSettles
==============================================================================
