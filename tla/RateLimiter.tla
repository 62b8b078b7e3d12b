------------------------------ MODULE RateLimiter -----------------------------
(****************************************************************************)
(* lib/rateLimiter.ts: a fixed window per key, counted in Redis, and in the   *)
(* memory of the process when a Redis call fails. Times are seconds left.     *)
(* A call that failed may have counted in Redis all the same: the EVAL timed  *)
(* out, or the TTL that follows it did.                                       *)
(****************************************************************************)
EXTENDS Integers, FiniteSets, Functions

CONSTANTS Key, Limit, Window,     \* one rule, "limit" calls per "windowSeconds"
          SweepEvery,             \* memorySweepIntervalMs
          MaxBuckets,             \* maxMemoryBuckets
          MaxFailing,             \* bound: calls between Redis and the fallback
          MaxEvicted              \* bound: the observer leaves after so many evictions

VARIABLES redis, memory,   \* buckets; in Redis an expired key is gone
          sweepIn,         \* seconds to nextSweepAt
          failing,         \* per key, calls on their way to consumeMemory
          watch            \* an observer of one key for one window: what it was allowed

vars == <<redis, memory, sweepIn, failing, watch>>

Gone == [count |-> 0, left |-> 0]
Up(n) == IF n > Limit THEN n ELSE n + 1     \* counts above the limit are alike

Watch(k, left) == [key |-> k, left |-> left, allowed |-> 0, fell |-> FALSE, evicted |-> 0]
Watching(k) == watch.left > 0 /\ watch.key = k

Init ==
  /\ redis = [k \in Key |-> Gone]
  /\ memory = [k \in {} |-> Gone]
  /\ sweepIn = 0
  /\ failing = [k \in Key |-> 0]
  /\ \E k \in Key : watch = Watch(k, 0)

(* Slip: every call sets the expiry again. *)
Renewed(b) == [count |-> Up(b.count), left |-> Window]
Incremented(b) == IF b.count = 0 THEN [count |-> 1, left |-> Window] ELSE [b EXCEPT !.count = Up(@)]

(* Slip: the count before this call decides. *)
AllowedBefore(k, count, fell) ==
  IF ~Watching(k) THEN watch
  ELSE [watch EXCEPT !.allowed = IF count - 1 <= Limit THEN @ + 1 ELSE @, !.fell = @ \/ fell]
Allowed(k, count, fell) ==
  IF ~Watching(k) THEN watch
  ELSE [watch EXCEPT !.allowed = IF count <= Limit THEN @ + 1 ELSE @, !.fell = @ \/ fell]

(* consume, when both Redis calls answer.                                      *)
Consume(k) ==
  /\ redis' = [redis EXCEPT ![k] = Incremented(@)]
  /\ watch' = Allowed(k, redis'[k].count, FALSE)
  /\ UNCHANGED <<memory, sweepIn, failing>>

RedisFails(k) ==
  /\ failing[k] < MaxFailing
  /\ redis' \in {redis, [redis EXCEPT ![k] = Incremented(@)]}
  /\ failing' = [failing EXCEPT ![k] = @ + 1]
  /\ UNCHANGED <<memory, sweepIn, watch>>

Live(m) == {k \in DOMAIN m : m[k].left > 0}
Swept == IF sweepIn > 0 THEN memory ELSE Restrict(memory, Live(memory))

Oldest(m) == {k \in DOMAIN m : \A other \in DOMAIN m : m[k].left <= m[other].left}
Evicted(m) ==
  IF Cardinality(DOMAIN m) < MaxBuckets THEN {m}
  ELSE {Restrict(m, DOMAIN m \ {k}) : k \in Oldest(m)}

Fresh(m, k) ==
  \E kept \in Evicted(m) :
    /\ memory' = [j \in DOMAIN kept \cup {k} |->
                    IF j = k THEN [count |-> 1, left |-> Window] ELSE kept[j]]
    /\ LET seen == Allowed(k, 1, TRUE)
       IN IF seen.left = 0 \/ seen.key \notin Live(m) \ DOMAIN kept THEN watch' = seen
          ELSE IF seen.evicted = MaxEvicted THEN watch' = Watch(seen.key, 0)
          ELSE watch' = [seen EXCEPT !.evicted = @ + 1]

(* consumeMemory, after the catch.                                             *)
ConsumeMemory(k) ==
  /\ failing[k] > 0
  /\ failing' = [failing EXCEPT ![k] = @ - 1]
  /\ sweepIn' = IF sweepIn = 0 THEN SweepEvery ELSE sweepIn
  /\ IF k \in Live(Swept)
       THEN /\ memory' = [Swept EXCEPT ![k].count = Up(@)]
            /\ watch' = Allowed(k, memory'[k].count, TRUE)
       ELSE Fresh(Swept, k)
  /\ UNCHANGED redis

Less(n) == IF n = 0 THEN 0 ELSE n - 1
Tick ==
  /\ redis' = [k \in Key |-> IF redis[k].left <= 1 THEN Gone ELSE [redis[k] EXCEPT !.left = @ - 1]]
  /\ memory' = [k \in DOMAIN memory |-> [memory[k] EXCEPT !.left = Less(@)]]
  /\ sweepIn' = Less(sweepIn)
  /\ watch' = IF watch.left <= 1 THEN Watch(watch.key, 0) ELSE [watch EXCEPT !.left = @ - 1]
  /\ UNCHANGED failing

Observe(k) ==
  /\ watch.left = 0 /\ watch' = Watch(k, Window)
  /\ UNCHANGED <<redis, memory, sweepIn, failing>>

Next == Tick \/ \E k \in Key : Consume(k) \/ RedisFails(k) \/ ConsumeMemory(k) \/ Observe(k)

(* Time passes whatever the calls.                                             *)
Fairness == WF_vars(Tick)

Spec == Init /\ [][Next]_vars /\ Fairness

-----------------------------------------------------------------------------
(* Whatever window a client picks, it is allowed at most twice the limit, twice *)
(* that if Redis fails in between and memory counts as well, and the limit once *)
(* more for each time its bucket was thrown out to make room.                   *)
BurstBounded ==
  watch.allowed <= Limit * ((IF watch.fell THEN 4 ELSE 2) + watch.evicted)

(* No key is locked out for good, not even one that keeps calling.              *)
NoLockout ==
  \A k \in Key :
    /\ redis[k].count > Limit ~> redis[k].count = 0
    /\ (k \in Live(memory) /\ memory[k].count > Limit) ~>
         ~(k \in Live(memory) /\ memory[k].count > Limit)
==============================================================================
