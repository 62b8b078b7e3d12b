------------------------------- MODULE ApiServer ------------------------------
(****************************************************************************)
(* The API process: server.ts starts it, app.ts and routes.ts take a request  *)
(* through its checks, health.ts answers the readiness probe, shutdown.ts and *)
(* dependencies.ts stop it. Every step of a request may use Redis, which       *)
(* connects on its first command (lazyConnect) and may be lost and found again. *)
(****************************************************************************)
EXTENDS Integers, Sequences

CONSTANTS Connection    \* client connections, one request at a time on each

VARIABLES
  proc,        \* "starting", "running" or "exited"
  code,        \* how it exited: "none", "ok", "error" or "signal"
  listening,   \* the HTTP server: "no", "yes", "closing" or "closed"
  redis,       \* status of the ioredis client: "wait", "ready", "lost" or "end"
  closing,     \* resources that infrastructure.close still waits for
  stop,        \* the shutdown promise: "none", "pending", "complete" or "failed"
  heard,       \* signals whose once-handler has run
  open,        \* client connections
  todo,        \* the checks and calls left to the request on each connection
  probe        \* dependencies a readiness request still waits for

requests == <<open, todo, probe>>
vars == <<proc, code, listening, redis, closing, stop, heard, requests>>

Dependency == {"postgres", "redis", "s3"}
Signal == {"SIGTERM", "SIGINT"}

-----------------------------------------------------------------------------
(* Routes: the steps that may refuse a request, in their order. *)

Read     == <<"session", "parse", "serve">>
Edit     == <<"origin", "session", "parse", "serve">>
Limited  == <<"origin", "session", "budget", "parse", "serve">>

BoardRoutes      == {Limited, Read, Edit}
InvitationRoutes == {Read, Limited, <<"budget", "parse", "serve">>}
TaskRoutes       == {Read, Limited}
TaskItemRoutes   == {Read, Limited}
AttachmentRoutes ==
  {Read, Limited, <<"session", "parse", "serve", "stream">>,
   <<"origin", "session", "multipart", "budget", "parse", "serve">>}
ApiRoutes == BoardRoutes \cup InvitationRoutes \cup TaskRoutes \cup TaskItemRoutes \cup AttachmentRoutes

(* What createApp puts before the routes, and its own.                          *)
Routes == {<<"json">> \o route : route \in ApiRoutes} \cup
          {<<"auth">>, <<"json", "ready">>, <<"json">>}   \* live, docs and no route at all

Init ==
  /\ proc = "starting" /\ code = "none" /\ listening = "no"
  /\ redis = "wait" /\ closing = {} /\ stop = "none" /\ heard = {}
  /\ open = {}
  /\ todo = [c \in Connection |-> <<>>]
  /\ probe = [c \in Connection |-> {}]

Exited(how) ==
  /\ proc' = "exited" /\ code' = how
  /\ open' = {}
  /\ todo' = [c \in Connection |-> <<>>] /\ probe' = [c \in Connection |-> {}]
  /\ UNCHANGED <<listening, redis, closing, stop, heard>>

(* startServer: the port is taken or Better Auth cannot be built, so what was   *)
(* created is closed again; or the server listens and hears signals.            *)
StartFails == proc = "starting" /\ Exited("error")
Listen ==
  /\ proc = "starting" /\ proc' = "running" /\ listening' = "yes"
  /\ UNCHANGED <<code, redis, closing, stop, heard, requests>>

-----------------------------------------------------------------------------
(* Requests *)

Connect(c) ==
  /\ listening = "yes" /\ proc = "running"
  /\ c \notin open /\ todo[c] = <<>>
  /\ open' = open \cup {c}
  /\ UNCHANGED <<proc, code, listening, redis, closing, stop, heard, todo, probe>>

(* A connection that is kept alive takes another request, even in a shutdown.   *)
Send(c) ==
  /\ proc = "running" /\ c \in open /\ todo[c] = <<>>
  /\ todo' \in {[todo EXCEPT ![c] = route] : route \in Routes}
  /\ UNCHANGED <<proc, code, listening, redis, closing, stop, heard, open, probe>>

(* The client goes, or its idle connection is dropped: a request goes on.       *)
Disconnect(c) ==
  /\ c \in open /\ open' = open \ {c}
  /\ UNCHANGED <<proc, code, listening, redis, closing, stop, heard, todo, probe>>

(* A command connects a client that waits; one that is lost or ended refuses.   *)
RedisUsed == IF redis = "wait" THEN redis' \in {"ready", "lost"} ELSE UNCHANGED redis
UsesRedis == {"auth", "session", "budget", "serve", "ready"}

Answered(c) == todo' = [todo EXCEPT ![c] = <<>>]

(* The next step of a request passes it on, or answers: a success, a refusal,   *)
(* or the error that errorHandler turns into a problem.                         *)
Step(c) ==
  /\ todo[c] # <<>> /\ Head(todo[c]) \notin {"ready", "probing"}
  /\ Answered(c) \/ todo' = [todo EXCEPT ![c] = Tail(@)]
  /\ IF Head(todo[c]) \in UsesRedis THEN RedisUsed ELSE UNCHANGED redis
  /\ UNCHANGED <<proc, code, listening, closing, stop, heard, open, probe>>

(* runReadinessChecks: every dependency is asked at once, and each answer races *)
(* its own timer; a dependency may never answer.                                *)
Probe(c) ==
  /\ todo[c] = <<"ready">> /\ todo' = [todo EXCEPT ![c] = <<"probing">>]
  /\ probe' = [probe EXCEPT ![c] = Dependency]
  /\ RedisUsed
  /\ UNCHANGED <<proc, code, listening, closing, stop, heard, open>>

Settled(c, d) ==
  /\ todo[c] = <<"probing">> /\ d \in probe[c]
  /\ probe' = [probe EXCEPT ![c] = @ \ {d}]
  /\ IF probe'[c] = {} THEN Answered(c) ELSE UNCHANGED todo
  /\ UNCHANGED <<proc, code, listening, redis, closing, stop, heard, open>>

(* Slip: one timer for them all, which the first answer clears. *)
FirstTimer(c, d) == probe[c] = Dependency /\ Settled(c, d)
ProbeTimesOut(c, d) == Settled(c, d)

RedisFlaps ==
  /\ proc = "running" /\ redis \in {"ready", "lost"}
  /\ redis' \in {"ready", "lost"} \ {redis}
  /\ UNCHANGED <<proc, code, listening, closing, stop, heard, requests>>

-----------------------------------------------------------------------------
(* Shutdown *)

(* Each handler is there once: the same signal again kills the process. The      *)
(* second kind gets the promise of the first. The server stops listening and     *)
(* drops idle connections while the resources close beside it.                   *)
Hear(s) ==
  \/ /\ proc = "running" /\ s \notin heard /\ heard' = heard \cup {s}
     /\ IF stop = "none"
          THEN /\ stop' = "pending" /\ listening' = "closing" /\ closing' = Dependency
               /\ open' = {c \in open : todo[c] # <<>>}
          ELSE UNCHANGED <<stop, listening, closing, open>>
     /\ UNCHANGED <<proc, code, redis, todo, probe>>
  \/ (proc = "starting" \/ (proc = "running" /\ s \in heard)) /\ Exited("signal")

ServerClosed ==
  /\ proc = "running" /\ listening = "closing" /\ open = {} /\ listening' = "closed"
  /\ UNCHANGED <<proc, code, redis, closing, stop, heard, requests>>

(* infrastructure.close settles whatever each part does. A client that never     *)
(* connected is not asked to quit; one that is lost may refuse to.                *)
CloseResource(d) ==
  /\ proc = "running" /\ d \in closing /\ closing' = closing \ {d}
  /\ IF d = "redis" /\ redis = "ready" THEN redis' = "end"
     ELSE IF d = "redis" /\ redis = "lost" THEN redis' \in {"lost", "end"}
     ELSE UNCHANGED redis
  /\ UNCHANGED <<proc, code, listening, stop, heard, requests>>

AllDone == closing = {} /\ listening = "closed"

ShutdownComplete ==
  /\ proc = "running" /\ stop = "pending" /\ AllDone /\ stop' = "complete"
  /\ UNCHANGED <<proc, code, listening, redis, closing, heard, requests>>

(* Slip: no timer. *)
NoTimer == FALSE
TimerArmed == proc = "running" /\ stop = "pending"

(* The timer wins: all connections are cut, and the handler exits with 1.         *)
ShutdownTimesOut == TimerArmed /\ Exited("error")

(* Nothing is left that keeps the process alive.                                  *)
Exit ==
  /\ proc = "running" /\ stop = "complete" /\ redis \in {"wait", "end"}
  /\ \A c \in Connection : todo[c] = <<>>
  /\ Exited("ok")

Next ==
  \/ StartFails \/ Listen \/ RedisFlaps
  \/ \E c \in Connection :
       \/ Connect(c) \/ Send(c) \/ Disconnect(c) \/ Step(c) \/ Probe(c)
       \/ \E d \in Dependency : Settled(c, d) \/ ProbeTimesOut(c, d)
  \/ \E s \in Signal : Hear(s)
  \/ ServerClosed \/ \E d \in Dependency : CloseResource(d)
  \/ ShutdownComplete \/ ShutdownTimesOut \/ Exit

(* The steps of a request end: a Redis command has a timeout of its own, a call    *)
(* of Postgres or S3 is assumed to answer or to fail. Timers fire. A dependency      *)
(* that is probed, a resource that closes or a client may hang.                      *)
Fairness ==
  /\ \A c \in Connection : WF_vars(Step(c)) /\ WF_vars(Probe(c))
  /\ \A c \in Connection, d \in Dependency : WF_vars(ProbeTimesOut(c, d))
  /\ WF_vars(ServerClosed) /\ WF_vars(ShutdownComplete) /\ WF_vars(ShutdownTimesOut) /\ WF_vars(Exit)

-----------------------------------------------------------------------------
(* Every request is answered or cut, the readiness probe also while dependencies  *)
(* hang.                                                                          *)
EveryRequestEnds == \A c \in Connection : todo[c] # <<>> ~> todo[c] = <<>>

(* After a signal the process exits in the end, unless Redis keeps it: a client   *)
(* that refused to quit because it was lost, or that a request connected only     *)
(* after close had passed it over.                                                *)
ExitsAfterSignal ==
  heard # {} ~> \/ proc = "exited"
                \/ stop = "complete" /\ redis \in {"ready", "lost"}
==============================================================================
