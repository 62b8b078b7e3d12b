------------------------------ MODULE AuthStorage -----------------------------
(****************************************************************************)
(* auth/storage.ts: the secondary storage that Better Auth keeps its sessions, *)
(* one-time values and rate-limit records in: Redis, shared by the processes,  *)
(* and in each process a memory that only rate-limit records may enter. A      *)
(* Redis call that failed may have had its effect.                             *)
(****************************************************************************)
EXTENDS Integers, FiniteSets

CONSTANTS Process, Key,
          RecordKey,     \* keys that hold rate-limit records; sessions the others
          MaxWrites      \* bound: values written

VARIABLES redis, memory,   \* the value at each key; 0 is none, or expired
          taking,          \* per process, the keys of the getAndDeletes under way
          writes,          \* values written so far
          gone             \* history: values deleted, taken or replaced in Redis

vars == <<redis, memory, taking, writes, gone>>

Init ==
  /\ redis = [k \in Key |-> 0]
  /\ memory = [p \in Process |-> [k \in Key |-> 0]]
  /\ taking = [p \in Process |-> {}]
  /\ writes = 0 /\ gone = {}

(* get: Redis first, memory when Redis fails or has nothing.                   *)
Read(p, k, answers) == IF answers /\ redis[k] # 0 THEN redis[k] ELSE memory[p][k]

(* Slip: every value is kept in memory. *)
AnyValue(k) == k \in Key
IsRateLimitRecord(k) == k \in RecordKey

Set(p, k) ==
  /\ writes < MaxWrites /\ writes' = writes + 1
  /\ memory' = IF IsRateLimitRecord(k) THEN [memory EXCEPT ![p][k] = writes'] ELSE memory
  /\ \/ redis' = [redis EXCEPT ![k] = writes'] /\ gone' = gone \cup ({redis[k]} \ {0})
     \/ redis' \in {redis, [redis EXCEPT ![k] = writes']} /\ UNCHANGED gone
  /\ UNCHANGED taking

Increment(p, k) ==
  /\ k \in RecordKey
  /\ writes < MaxWrites /\ writes' = writes + 1
  /\ \/ redis' = [redis EXCEPT ![k] = writes'] /\ UNCHANGED memory
     \/ redis' \in {redis, [redis EXCEPT ![k] = writes']}
        /\ memory' = [memory EXCEPT ![p][k] = writes']
  /\ UNCHANGED <<taking, gone>>

Delete(p, k) ==
  /\ memory' = [memory EXCEPT ![p][k] = 0]
  /\ \/ redis' = [redis EXCEPT ![k] = 0] /\ gone' = gone \cup ({redis[k]} \ {0})
     \/ redis' \in {redis, [redis EXCEPT ![k] = 0]} /\ UNCHANGED gone
  /\ UNCHANGED <<taking, writes>>

(* getAndDelete: memory forgets only when the answer of Redis is there, or else  *)
(* it gives what it has.                                                         *)
Take(p, k) ==
  /\ k \notin taking[p]
  /\ taking' = [taking EXCEPT ![p] = @ \cup {k}]
  /\ redis' = [redis EXCEPT ![k] = 0]
  /\ gone' = gone \cup ({redis[k]} \ {0})
  /\ UNCHANGED <<memory, writes>>

Taken(p, k) ==
  /\ k \in taking[p]
  /\ taking' = [taking EXCEPT ![p] = @ \ {k}]
  /\ memory' = [memory EXCEPT ![p][k] = 0]
  /\ UNCHANGED <<redis, writes, gone>>

TakeFails(p, k) ==
  /\ redis' \in {redis, [redis EXCEPT ![k] = 0]}
  /\ memory' = [memory EXCEPT ![p][k] = 0]
  /\ UNCHANGED <<taking, writes, gone>>

(* The expiry of a value, in Redis or in memory, where a read finds it out.     *)
Expire(k) ==
  \/ redis' = [redis EXCEPT ![k] = 0] /\ UNCHANGED <<memory, taking, writes, gone>>
  \/ \E p \in Process :
       memory' = [memory EXCEPT ![p][k] = 0] /\ UNCHANGED <<redis, taking, writes, gone>>

Next ==
  \E k \in Key :
    \/ Expire(k)
    \/ \E p \in Process :
         Set(p, k) \/ Increment(p, k) \/ Delete(p, k) \/ Take(p, k) \/ Taken(p, k) \/ TakeFails(p, k)

Spec == Init /\ [][Next]_vars

-----------------------------------------------------------------------------
(* A session or one-time value that was deleted, taken or replaced in Redis is  *)
(* never read again, by any process, whether Redis answers it or not.           *)
WithdrawnStaysAway ==
  \A p \in Process, k \in Key \ RecordKey, answers \in BOOLEAN : Read(p, k, answers) \notin gone
==============================================================================
