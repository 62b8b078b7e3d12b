----------------------------- MODULE FileService -----------------------------
(****************************************************************************)
(* The files of a task from upload to the end of their objects: the API and *)
(* the worker as two processes over one bucket and one object_cleanup       *)
(* table, each in place of what the other one's module assumed of it.       *)
(****************************************************************************)
EXTENDS OutboxWorker

CONSTANTS FileHandler, Size, MaxFile, MaxTotal

VARIABLES row, visible, step, key, total, used, leaked, unanswered

Files == INSTANCE Attachments WITH Handler <- FileHandler, pc <- step

(* Handlers are finitely many, and the limits are numbers. *)
ASSUME FileAssumption ==
  /\ IsFiniteSet(FileHandler) /\ FileHandler # {}
  /\ MaxFile \in Nat /\ MaxTotal \in Nat

service == <<row, visible, step, key, total, used, leaked, unanswered>>
fileVars == <<stored, cleanup, service, worker>>

(* The worker has not been started, and has nothing to do. *)
RestingWorker ==
  /\ up = FALSE /\ batch = {} /\ crashes = 0
  /\ job = [o \in Object |-> "none"] /\ attempts = [o \in Object |-> 0]

FileInit == Files!Init /\ RestingWorker

FileNext ==
  \/ Files!Serve /\ UNCHANGED worker
  \/ Worker!Operate /\ UNCHANGED service

FileSpec == FileInit /\ [][FileNext]_fileVars

-----------------------------------------------------------------------------
(* See Attachments: what is listed has its content, up to unanswered commits. *)
ListedHasContent == Files!ListedHasContent

(* See Attachments: only a death or a failed compensation leaks an object. *)
NothingForgotten == Files!NothingForgotten

(* See Attachments: racing uploads pass the limit by a bounded amount. *)
OverrunBounded == Files!OverrunBounded

(* A removed object is gone for good once its outbox row says so: no upload and *)
(* no retry brings it back.                                                     *)
CompletedStaysGone == \A o \in Object : cleanup[o] = "done" => o \notin stored
==============================================================================
