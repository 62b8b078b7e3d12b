--------------------------- MODULE Services_proofs ---------------------------
(****************************************************************************)
(* The parts of the backend that share nothing, with any constants: what    *)
(* the rate limiter lets through, that what the authentication storage       *)
(* withdraws stays away, what the seeds leave behind, and that the cycle    *)
(* search decides whether an edit would close a cycle.                      *)
(****************************************************************************)
EXTENDS CycleSearch, Services, FiniteSets, Sequences, DependencyGraph_proofs

-----------------------------------------------------------------------------
(* The rate limiter *)

Least(n) == IF n > Limit THEN Limit ELSE n

(* What one store has let through in the window that is watched: the bucket that *)
(* was there when the window began, which ends in it, and the one after it, which *)
(* outlives it.                                                                    *)
LetThrough(b) ==
  Least(b.count) + (IF b.count # 0 /\ b.left < watch.left THEN 0 ELSE Limit)
FromRedis == LetThrough(hits[watch.key])
FromMemory ==
  IF watch.key \in Limiter!Live(buckets)
    THEN Least(buckets[watch.key].count)
           + (IF buckets[watch.key].left < watch.left THEN 0 ELSE Limit)
    ELSE Limit

Bucket == [count : Nat, left : 0..Window]
Watch == [key : Key, left : 0..Window, allowed : Nat, fell : BOOLEAN, evicted : Nat]
LimiterType ==
  /\ hits \in [Key -> Bucket]
  /\ DOMAIN buckets \subseteq Key
  /\ \A k \in DOMAIN buckets : buckets[k] \in Bucket
  /\ watch \in Watch

LimiterInv ==
  /\ LimiterType
  /\ watch.left = 0 => watch.allowed = 0
  /\ watch.left > 0 =>
       watch.allowed <= FromRedis + (IF watch.fell THEN FromMemory + Limit * watch.evicted ELSE 0)

RuleAssumption == Limit \in Nat /\ Window \in Nat

LEMMA LimiterInit ==
  ASSUME RuleAssumption, Limiter!Init
  PROVE  LimiterInv
<1>1. Limiter!Gone \in Bucket /\ hits = [k \in Key |-> Limiter!Gone] /\ buckets = [k \in {} |-> Limiter!Gone]
  BY DEF RuleAssumption, Limiter!Init, Limiter!Gone, Bucket
<1>2. PICK k \in Key : watch = Limiter!Watch(k, 0)
  BY DEF Limiter!Init
<1>3. watch \in Watch /\ watch.left = 0 /\ watch.allowed = 0
  BY <1>2 DEF RuleAssumption, Watch, Limiter!Watch
<1> QED BY <1>1, <1>3 DEF LimiterInv, LimiterType

(* A count in Redis never lowers what Redis has let through, and raises it by one *)
(* when the call is allowed.                                                       *)
LEMMA CountedOnce ==
  ASSUME RuleAssumption, watch \in Watch, NEW b \in Bucket
  PROVE  LET c == Limiter!Incremented(b) IN
         /\ c \in Bucket
         /\ LetThrough(c) \in Nat /\ LetThrough(b) \in Nat
         /\ LetThrough(c) >= LetThrough(b)
         /\ c.count <= Limit => LetThrough(c) >= LetThrough(b) + 1
<1> DEFINE c == Limiter!Incremented(b)
<1>1. /\ b.count \in Nat /\ b.left \in 0..Window /\ watch.left \in 0..Window
      /\ Limit \in Nat /\ Window \in Nat
  BY DEF RuleAssumption, Bucket, Watch
<1>2. CASE b.count = 0
  <2>1. c = [count |-> 1, left |-> Window]
    BY <1>2 DEF Limiter!Incremented
  <2>2. c.count = 1 /\ c.left = Window /\ c \in Bucket
    BY <1>1, <2>1 DEF Bucket
  <2> QED BY <1>1, <1>2, <2>2 DEF LetThrough, Least
<1>3. CASE b.count # 0
  <2>1. c = [b EXCEPT !.count = Limiter!Up(b.count)]
    BY <1>3 DEF Limiter!Incremented
  <2>2. /\ c.count = Limiter!Up(b.count) /\ c.left = b.left
        /\ Limiter!Up(b.count) \in Nat \ {0} /\ c \in Bucket
    BY <1>1, <1>3, <2>1 DEF Bucket, Limiter!Up
  <2> QED BY <1>1, <1>3, <2>2 DEF LetThrough, Least, Limiter!Up
<1> QED BY <1>2, <1>3

LEMMA AmountsLet ==
  ASSUME RuleAssumption, LimiterType
  PROVE  /\ FromRedis \in Nat /\ FromMemory \in Nat /\ Limit * watch.evicted \in Nat
         /\ FromRedis <= 2 * Limit /\ FromMemory <= 2 * Limit
         /\ Limit * (watch.evicted + 1) = Limit * watch.evicted + Limit
<1>1. /\ watch.evicted \in Nat /\ watch.key \in Key /\ watch.left \in 0..Window
      /\ Limit \in Nat
  BY DEF RuleAssumption, LimiterType, Watch
<1>2. /\ Limit * watch.evicted \in Nat
      /\ Limit * (watch.evicted + 1) = Limit * watch.evicted + Limit
  BY <1>1
<1>3. FromRedis \in Nat /\ FromRedis <= 2 * Limit
  <2>1. hits[watch.key].count \in Nat /\ hits[watch.key].left \in 0..Window
    BY <1>1 DEF LimiterType, Bucket
  <2> QED BY <1>1, <2>1 DEF FromRedis, LetThrough, Least, RuleAssumption
<1>4. FromMemory \in Nat /\ FromMemory <= 2 * Limit
  <2>1. watch.key \in Limiter!Live(buckets) =>
          buckets[watch.key].count \in Nat /\ buckets[watch.key].left \in 0..Window
    BY DEF LimiterType, Bucket, Limiter!Live
  <2> QED BY <1>1, <2>1 DEF FromMemory, Least, RuleAssumption
<1> QED BY <1>2, <1>3, <1>4

LEMMA ConsumeCounts ==
  ASSUME RuleAssumption, LimiterInv, NEW k \in Key, Limiter!Consume(k) \/ Limiter!RedisFails(k)
  PROVE  LimiterInv'
<1> USE DEF RuleAssumption
<1>1. /\ LimiterType /\ watch \in Watch /\ hits[k] \in Bucket /\ hits \in [Key -> Bucket]
      /\ watch.left \in 0..Window /\ watch.allowed \in Nat /\ watch.key \in Key
  BY DEF LimiterInv, LimiterType, Watch
<1>2. hits' \in {hits, [hits EXCEPT ![k] = Limiter!Incremented(hits[k])]} /\ buckets' = buckets
  BY DEF Limiter!Consume, Limiter!RedisFails
<1>3. hits' \in [Key -> Bucket] /\ (watch.key # k => hits'[watch.key] = hits[watch.key])
  BY <1>1, <1>2, CountedOnce
<1>4. CASE watch' = watch
  <2>1. LetThrough(hits'[watch.key]) \in Nat /\ LetThrough(hits'[watch.key]) >= FromRedis
    BY <1>1, <1>2, <1>3, CountedOnce, AmountsLet DEF FromRedis
  <2>2. FromRedis' = LetThrough(hits'[watch.key]) /\ FromMemory' = FromMemory
    BY <1>2, <1>4 DEF FromRedis, FromMemory, LetThrough, Limiter!Live
  <2>3. LimiterType'
    BY <1>2, <1>3, <1>4, <1>1 DEF LimiterType
  <2> QED BY <1>1, <1>4, <2>1, <2>2, <2>3, AmountsLet DEF LimiterInv
<1>5. CASE watch' # watch
  <2>1. /\ watch.left > 0 /\ watch.key = k /\ hits'[k] = Limiter!Incremented(hits[k])
        /\ watch' = [watch EXCEPT !.allowed = IF hits'[k].count <= Limit
                                                THEN watch.allowed + 1 ELSE watch.allowed,
                                  !.fell = watch.fell \/ FALSE]
    BY <1>1, <1>5 DEF Limiter!Consume, Limiter!RedisFails, Limiter!Allowed, Limiter!Watching
  <2>2. /\ watch'.allowed = IF hits'[k].count <= Limit THEN watch.allowed + 1 ELSE watch.allowed
        /\ watch'.left = watch.left /\ watch'.key = watch.key /\ watch'.evicted = watch.evicted
        /\ watch'.fell = watch.fell /\ watch' \in Watch
    <3>1. (watch.fell \/ FALSE) = watch.fell
      BY <1>1, Zenon DEF Watch
    <3>2. watch' = [watch EXCEPT !.allowed = IF hits'[k].count <= Limit
                                               THEN watch.allowed + 1 ELSE watch.allowed,
                                 !.fell = watch.fell]
      BY <2>1, <3>1
    <3>3. PICK n \in Nat : n = IF hits'[k].count <= Limit THEN watch.allowed + 1 ELSE watch.allowed
      BY <1>1
    <3>4. watch' = [watch EXCEPT !.allowed = n, !.fell = watch.fell]
      BY <3>2, <3>3
    <3>5. watch' \in Watch
      BY <1>1, <3>4 DEF Watch
    <3>6. /\ watch'.allowed = n /\ watch'.left = watch.left /\ watch'.key = watch.key
          /\ watch'.evicted = watch.evicted /\ watch'.fell = watch.fell
      BY <1>1, <3>4 DEF Watch
    <3> QED BY <3>3, <3>5, <3>6
  <2>3. /\ FromRedis' = LetThrough(hits'[k]) /\ FromMemory' = FromMemory
        /\ FromRedis = LetThrough(hits[k])
    BY <1>2, <2>1, <2>2 DEF FromRedis, FromMemory, LetThrough, Limiter!Live
  <2>4. /\ FromRedis' \in Nat /\ FromRedis' >= FromRedis
        /\ hits'[k].count <= Limit => FromRedis' >= FromRedis + 1
    BY <1>1, <2>1, <2>3, CountedOnce
  <2>5. LimiterType'
    BY <1>1, <1>2, <1>3, <2>2 DEF LimiterType
  <2> QED BY <1>1, <2>1, <2>2, <2>3, <2>4, <2>5, AmountsLet DEF LimiterInv
<1> QED BY <1>4, <1>5

LEMMA ConsumeMemoryCounts ==
  ASSUME RuleAssumption, LimiterInv, NEW k \in Key, Limiter!ConsumeMemory(k)
  PROVE  LimiterInv'
<1> DEFINE swept == Limiter!Swept
           kept == Limiter!Live(buckets)
<1> USE DEF RuleAssumption
<1>1. /\ LimiterType /\ watch \in Watch
      /\ watch.left \in 0..Window /\ watch.allowed \in Nat /\ watch.key \in Key
      /\ watch.evicted \in Nat /\ watch.fell \in BOOLEAN
  BY DEF LimiterInv, LimiterType, Watch
<1>2. hits' = hits
  BY DEF Limiter!ConsumeMemory
<1>3. /\ DOMAIN swept \subseteq DOMAIN buckets /\ kept \subseteq DOMAIN swept
      /\ \A j \in DOMAIN swept : swept[j] = buckets[j]
      /\ Limiter!Live(swept) = kept
  BY DEF Limiter!Swept, Limiter!Live, Limiter!Restrict
<1>4. \A j \in DOMAIN swept : swept[j] \in Bucket /\ j \in Key
  BY <1>1, <1>3 DEF LimiterType
<1> HIDE DEF swept, kept
(* A bucket is there: it counts once more. *)
<1>5. CASE k \in kept
  <2>1. /\ buckets' = [swept EXCEPT ![k].count = Limiter!Up(swept[k].count)]
        /\ watch' = Limiter!Allowed(k, buckets'[k].count, TRUE)
    BY <1>3, <1>5 DEF Limiter!ConsumeMemory, swept
  <2>2. /\ k \in DOMAIN swept /\ DOMAIN buckets' = DOMAIN swept
        /\ \A j \in DOMAIN swept \ {k} : buckets'[j] = buckets[j]
    BY <1>3, <1>5, <2>1
  <2>3. /\ swept[k] = buckets[k] /\ buckets[k] \in Bucket
        /\ buckets'[k] = [buckets[k] EXCEPT !.count = Limiter!Up(buckets[k].count)]
    BY <1>3, <1>4, <2>1, <2>2
  <2>4. /\ buckets'[k].count = Limiter!Up(buckets[k].count)
        /\ buckets'[k].left = buckets[k].left /\ buckets'[k] \in Bucket
        /\ buckets[k].count \in Nat /\ buckets[k].left \in 0..Window
    BY <2>3 DEF Bucket, Limiter!Up
  <2>5. Limiter!Live(buckets') = kept
    BY <1>3, <2>2, <2>4 DEF Limiter!Live, kept
  <2>6. /\ hits' \in [Key -> Bucket] /\ DOMAIN buckets' \subseteq Key
        /\ \A j \in DOMAIN buckets' : buckets'[j] \in Bucket
    BY <1>1, <1>2, <1>3, <1>4, <2>2, <2>4 DEF LimiterType
  <2>7. CASE ~(watch.left > 0 /\ watch.key = k)
    <3>1. watch' = watch
      BY <2>1, <2>7 DEF Limiter!Allowed, Limiter!Watching
    <3>2. FromRedis' = FromRedis
      BY <1>2, <3>1 DEF FromRedis, LetThrough
    <3>3. watch.left > 0 => FromMemory' = FromMemory
      BY <1>3, <2>2, <2>5, <2>7, <3>1 DEF FromMemory, kept
    <3> QED BY <1>1, <2>6, <3>1, <3>2, <3>3 DEF LimiterInv, LimiterType
  <2>8. CASE watch.left > 0 /\ watch.key = k
    <3>1. watch' = [watch EXCEPT !.allowed = IF buckets'[k].count <= Limit
                                               THEN watch.allowed + 1 ELSE watch.allowed,
                                 !.fell = TRUE]
      BY <2>1, <2>8 DEF Limiter!Allowed, Limiter!Watching
    <3>2. /\ watch'.allowed = IF buckets'[k].count <= Limit THEN watch.allowed + 1 ELSE watch.allowed
          /\ watch'.left = watch.left /\ watch'.key = watch.key /\ watch'.evicted = watch.evicted
          /\ watch'.fell = TRUE /\ watch' \in Watch
      <4>1. PICK n \in Nat :
              n = IF buckets'[k].count <= Limit THEN watch.allowed + 1 ELSE watch.allowed
        BY <1>1
      <4>2. watch' = [watch EXCEPT !.allowed = n, !.fell = TRUE]
        BY <3>1, <4>1
      <4>3. watch' \in Watch
        BY <1>1, <4>2 DEF Watch
      <4>4. /\ watch'.allowed = n /\ watch'.left = watch.left /\ watch'.key = watch.key
            /\ watch'.evicted = watch.evicted /\ watch'.fell = TRUE
        BY <1>1, <4>2 DEF Watch
      <4> QED BY <4>1, <4>3, <4>4
    <3>3. FromRedis' = FromRedis
      BY <1>2, <3>2 DEF FromRedis, LetThrough
    <3>4. /\ FromMemory = Least(buckets[k].count) + (IF buckets[k].left < watch.left THEN 0 ELSE Limit)
          /\ FromMemory' = Least(buckets'[k].count)
                             + (IF buckets'[k].left < watch.left THEN 0 ELSE Limit)
      BY <1>5, <2>5, <2>8, <3>2 DEF FromMemory, kept
    <3>5. /\ FromMemory' \in Nat /\ FromMemory' >= FromMemory
          /\ buckets'[k].count <= Limit => FromMemory' >= FromMemory + 1
      BY <1>1, <2>4, <3>4 DEF Least, Limiter!Up
    <3> QED BY <1>1, <2>6, <2>8, <3>2, <3>3, <3>5, AmountsLet DEF LimiterInv, LimiterType
  <2> QED BY <2>7, <2>8
(* A new one, for which another may have to go. *)
<1>6. CASE k \notin kept
  <2> DEFINE seen == Limiter!Allowed(k, 1, TRUE)
  <2>1. PICK rest \in Limiter!Evicted(swept) :
          /\ buckets' = [j \in DOMAIN rest \cup {k} |->
                           IF j = k THEN [count |-> 1, left |-> Window] ELSE rest[j]]
          /\ IF seen.left = 0 \/ seen.key \notin Limiter!Live(swept) \ DOMAIN rest THEN watch' = seen
             ELSE IF seen.evicted = MaxEvicted THEN watch' = Limiter!Watch(seen.key, 0)
             ELSE watch' = [seen EXCEPT !.evicted = seen.evicted + 1]
    BY <1>3, <1>6 DEF Limiter!ConsumeMemory, Limiter!Fresh, swept
  <2>2. /\ DOMAIN rest \subseteq DOMAIN swept /\ \A j \in DOMAIN rest : rest[j] = swept[j]
    BY DEF Limiter!Evicted, Limiter!Restrict
  <2>3. /\ DOMAIN buckets' = DOMAIN rest \cup {k}
        /\ buckets'[k] = [count |-> 1, left |-> Window]
        /\ \A j \in DOMAIN rest \ {k} : buckets'[j] = buckets[j]
    BY <1>3, <2>1, <2>2
  <2>4. buckets'[k].count = 1 /\ buckets'[k].left = Window /\ buckets'[k] \in Bucket
    BY <2>3 DEF Bucket
  <2>5. /\ hits' \in [Key -> Bucket] /\ DOMAIN buckets' \subseteq Key
        /\ \A j \in DOMAIN buckets' : buckets'[j] \in Bucket
    BY <1>1, <1>2, <1>3, <1>4, <2>2, <2>3, <2>4 DEF LimiterType
  <2> HIDE DEF seen
  <2>6. CASE watch.left = 0
    <3>1. watch' = watch
      BY <2>1, <2>6 DEF seen, Limiter!Allowed, Limiter!Watching
    <3> QED BY <1>1, <2>5, <2>6, <3>1 DEF LimiterInv, LimiterType
  (* The call of the client that is watched: it has no bucket to lose. *)
  <2>7. CASE watch.left > 0 /\ watch.key = k
    <3>1. seen = [watch EXCEPT !.allowed = IF 1 <= Limit THEN watch.allowed + 1 ELSE watch.allowed,
                               !.fell = TRUE]
      BY <2>7 DEF seen, Limiter!Allowed, Limiter!Watching
    <3>2. /\ seen.allowed = IF 1 <= Limit THEN watch.allowed + 1 ELSE watch.allowed
          /\ seen.left = watch.left /\ seen.key = k /\ seen.evicted = watch.evicted
          /\ seen.fell = TRUE /\ seen \in Watch
      <4>1. PICK n \in Nat : n = IF 1 <= Limit THEN watch.allowed + 1 ELSE watch.allowed
        BY <1>1
      <4>2. seen = [watch EXCEPT !.allowed = n, !.fell = TRUE]
        BY <3>1, <4>1
      <4>3. seen \in Watch
        BY <1>1, <4>2 DEF Watch
      <4>4. /\ seen.allowed = n /\ seen.left = watch.left /\ seen.key = watch.key
            /\ seen.evicted = watch.evicted /\ seen.fell = TRUE
        BY <1>1, <4>2 DEF Watch
      <4> QED BY <2>7, <4>1, <4>3, <4>4
    <3>3. watch' = seen
      BY <1>3, <1>6, <2>1, <3>2
    <3>4. FromRedis' = FromRedis
      BY <1>2, <2>7, <3>2, <3>3 DEF FromRedis, LetThrough
    <3>5. FromMemory = Limit
      BY <1>6, <2>7 DEF FromMemory, kept
    <3>6. k \in Limiter!Live(buckets')
      BY <1>1, <2>3, <2>4, <2>7 DEF Limiter!Live
    <3>7. FromMemory' = Least(1) + Limit
      <4>1. FromMemory' = Least(buckets'[k].count)
                            + (IF buckets'[k].left < watch.left THEN 0 ELSE Limit)
        BY <3>2, <3>3, <3>6 DEF FromMemory
      <4>2. ~(Window < watch.left)
        BY <1>1
      <4> QED BY <2>4, <4>1, <4>2
    <3>8. /\ Least(1) \in Nat /\ (1 <= Limit => Least(1) = 1)
      BY DEF Least
    <3>9. watch'.allowed <= FromRedis' + (FromMemory' + Limit * watch.evicted)
      <4>1. watch.allowed <= FromRedis + (FromMemory + Limit * watch.evicted)
        BY <1>1, <2>7, AmountsLet DEF LimiterInv
      <4>2. FromMemory' = FromMemory + Least(1) /\ FromMemory' \in Nat
        BY <3>5, <3>7, <3>8
      <4>3. /\ watch'.allowed \in Nat
            /\ watch'.allowed <= watch.allowed + Least(1)
        BY <1>1, <3>2, <3>3, <3>8
      <4> QED BY <1>1, <3>4, <3>8, <4>1, <4>2, <4>3, AmountsLet
    <3> QED BY <1>1, <2>5, <2>7, <3>2, <3>3, <3>9 DEF LimiterInv, LimiterType
  (* The call of another one. *)
  <2>8. CASE watch.left > 0 /\ watch.key # k
    <3>1. seen = watch
      BY <2>8 DEF seen, Limiter!Allowed, Limiter!Watching
    <3>2. CASE watch.key \in kept \ DOMAIN rest
      <4>1. CASE watch.evicted = MaxEvicted
        <5>1. watch' = Limiter!Watch(watch.key, 0)
          BY <1>1, <1>3, <2>1, <2>8, <3>1, <3>2, <4>1
        <5>2. watch' \in Watch /\ watch'.left = 0 /\ watch'.allowed = 0
          BY <1>1, <5>1 DEF Limiter!Watch, Watch
        <5> QED BY <2>5, <5>2 DEF LimiterInv, LimiterType
      <4>2. CASE watch.evicted # MaxEvicted
        <5>1. watch' = [watch EXCEPT !.evicted = watch.evicted + 1]
          BY <1>1, <1>3, <2>1, <2>8, <3>1, <3>2, <4>2
        <5>2. /\ watch'.allowed = watch.allowed /\ watch'.left = watch.left
              /\ watch'.key = watch.key /\ watch'.evicted = watch.evicted + 1
              /\ watch'.fell = watch.fell /\ watch' \in Watch
          BY <1>1, <5>1 DEF Watch
        <5>3. FromRedis' = FromRedis
          BY <1>2, <5>2 DEF FromRedis, LetThrough
        <5>4. watch.key \notin Limiter!Live(buckets')
          BY <2>3, <2>8, <3>2 DEF Limiter!Live
        <5>5. FromMemory' = Limit
          BY <5>2, <5>4 DEF FromMemory
        <5>6. (Limit * watch.evicted)' = Limit * watch.evicted + Limit
          BY <5>2, AmountsLet, <1>1
        <5> QED BY <1>1, <2>5, <2>8, <5>2, <5>3, <5>5, <5>6, AmountsLet DEF LimiterInv, LimiterType
      <4> QED BY <4>1, <4>2
    <3>3. CASE watch.key \notin kept \ DOMAIN rest
      <4>1. watch' = watch
        BY <1>3, <2>1, <3>1, <3>3
      <4>2. FromRedis' = FromRedis
        BY <1>2, <4>1 DEF FromRedis, LetThrough
      <4>3. FromMemory' = FromMemory
        <5>1. CASE watch.key \in kept
          <6>1. /\ watch.key \in DOMAIN buckets' /\ buckets'[watch.key] = buckets[watch.key]
            BY <2>3, <2>8, <3>3, <5>1
          <6>2. watch.key \in Limiter!Live(buckets')
            BY <5>1, <6>1 DEF Limiter!Live, kept
          <6> QED BY <4>1, <5>1, <6>1, <6>2 DEF FromMemory, kept
        <5>2. CASE watch.key \notin kept
          <6>1. watch.key \notin Limiter!Live(buckets')
            BY <1>3, <2>2, <2>3, <2>8, <5>2 DEF Limiter!Live, kept
          <6> QED BY <4>1, <5>2, <6>1 DEF FromMemory, kept
        <5> QED BY <5>1, <5>2
      <4> QED BY <1>1, <2>5, <2>8, <4>1, <4>2, <4>3 DEF LimiterInv, LimiterType
    <3> QED BY <3>2, <3>3
  <2> QED BY <1>1, <2>6, <2>7, <2>8
<1> QED BY <1>5, <1>6

LEMMA TickCounts ==
  ASSUME RuleAssumption, LimiterInv, Limiter!Tick
  PROVE  LimiterInv'
<1> USE DEF RuleAssumption
<1>1. /\ LimiterType /\ watch \in Watch
      /\ watch.left \in 0..Window /\ watch.allowed \in Nat /\ watch.key \in Key
  BY DEF LimiterInv, LimiterType, Watch
<1>2. /\ hits' = [k \in Key |-> IF hits[k].left <= 1 THEN Limiter!Gone
                                 ELSE [hits[k] EXCEPT !.left = hits[k].left - 1]]
      /\ buckets' = [k \in DOMAIN buckets |->
                       [buckets[k] EXCEPT !.left = Limiter!Less(buckets[k].left)]]
      /\ watch' = IF watch.left <= 1 THEN Limiter!Watch(watch.key, 0)
                  ELSE [watch EXCEPT !.left = watch.left - 1]
  BY DEF Limiter!Tick
<1>3. ASSUME NEW k \in Key
      PROVE  /\ hits[k].count \in Nat /\ hits[k].left \in 0..Window
             /\ hits'[k] \in Bucket
             /\ hits[k].left <= 1 => hits'[k].count = 0 /\ hits'[k].left = 0
             /\ hits[k].left > 1 => /\ hits'[k].count = hits[k].count
                                    /\ hits'[k].left = hits[k].left - 1
  <2>1. hits[k] \in Bucket /\ hits'[k] = IF hits[k].left <= 1 THEN Limiter!Gone
                                 ELSE [hits[k] EXCEPT !.left = hits[k].left - 1]
    BY <1>1, <1>2 DEF LimiterType
  <2> QED BY <2>1 DEF Bucket, Limiter!Gone
<1>4. ASSUME NEW k \in DOMAIN buckets
      PROVE  /\ buckets[k].count \in Nat /\ buckets[k].left \in 0..Window
             /\ buckets'[k] \in Bucket /\ buckets'[k].count = buckets[k].count
             /\ buckets'[k].left = Limiter!Less(buckets[k].left)
  <2>1. /\ buckets[k] \in Bucket
        /\ buckets'[k] = [buckets[k] EXCEPT !.left = Limiter!Less(buckets[k].left)]
    BY <1>1, <1>2 DEF LimiterType
  <2> QED BY <2>1 DEF Bucket, Limiter!Less
<1>5. DOMAIN buckets' = DOMAIN buckets /\ hits' \in [Key -> Bucket]
  BY <1>2, <1>3
<1>6. CASE watch.left <= 1
  <2>1. watch' \in Watch /\ watch'.left = 0 /\ watch'.allowed = 0
    BY <1>1, <1>2, <1>6 DEF Limiter!Watch, Watch
  <2> QED BY <1>1, <1>4, <1>5, <2>1 DEF LimiterInv, LimiterType
<1>7. CASE watch.left > 1
  <2>1. watch' = [watch EXCEPT !.left = watch.left - 1]
    BY <1>1, <1>2, <1>7
  <2>2. /\ watch'.left = watch.left - 1 /\ watch'.key = watch.key /\ watch'.fell = watch.fell
        /\ watch'.allowed = watch.allowed /\ watch'.evicted = watch.evicted /\ watch' \in Watch
    BY <1>1, <1>7, <2>1 DEF Watch
  <2>3. FromRedis' \in Nat /\ FromRedis' >= FromRedis
    <3> DEFINE k == watch.key
    <3>1. FromRedis' = Least(hits'[k].count)
                        + (IF hits'[k].count # 0 /\ hits'[k].left < watch.left - 1 THEN 0 ELSE Limit)
      BY <2>2 DEF FromRedis, LetThrough
    <3>2. FromRedis = Least(hits[k].count)
                        + (IF hits[k].count # 0 /\ hits[k].left < watch.left THEN 0 ELSE Limit)
      BY DEF FromRedis, LetThrough
    <3>3. /\ hits[k].count \in Nat /\ hits[k].left \in 0..Window
          /\ hits[k].left <= 1 => hits'[k].count = 0 /\ hits'[k].left = 0
          /\ hits[k].left > 1 => hits'[k].count = hits[k].count /\ hits'[k].left = hits[k].left - 1
      BY <1>1, <1>3
    <3>4. CASE hits[k].left <= 1
      <4>1. hits[k].left < watch.left
        BY <1>1, <1>7, <3>3, <3>4
      <4>2. FromRedis' = Limit
        BY <3>1, <3>3, <3>4 DEF Least
      <4> QED BY <3>2, <3>3, <4>1, <4>2 DEF Least
    <3>5. CASE hits[k].left > 1
      BY <1>1, <1>7, <3>1, <3>2, <3>3, <3>5 DEF Least
    <3> QED BY <3>3, <3>4, <3>5
  <2>4. FromMemory' \in Nat /\ FromMemory' >= FromMemory
    <3> DEFINE k == watch.key
    <3>1. CASE k \notin Limiter!Live(buckets)
      <4>1. k \notin Limiter!Live(buckets')
        BY <1>4, <1>5, <3>1 DEF Limiter!Live, Limiter!Less
      <4> QED BY <1>1, <2>2, <3>1, <4>1 DEF FromMemory
    <3>2. CASE k \in Limiter!Live(buckets)
      <4>1. /\ k \in DOMAIN buckets /\ buckets[k].left > 0
            /\ FromMemory = Least(buckets[k].count)
                              + (IF buckets[k].left < watch.left THEN 0 ELSE Limit)
        BY <3>2 DEF FromMemory, Limiter!Live
      <4>2. CASE k \notin Limiter!Live(buckets')
        <5>1. FromMemory' = Limit
          BY <2>2, <4>2 DEF FromMemory
        <5>2. buckets[k].left < watch.left
          BY <1>1, <1>4, <1>5, <1>7, <4>1, <4>2 DEF Limiter!Live, Limiter!Less
        <5> QED BY <1>1, <1>4, <4>1, <5>1, <5>2 DEF Least
      <4>3. CASE k \in Limiter!Live(buckets')
        <5>1. FromMemory' = Least(buckets'[k].count)
                              + (IF buckets'[k].left < watch.left - 1 THEN 0 ELSE Limit)
          BY <2>2, <4>3 DEF FromMemory
        <5>2. buckets'[k].left = buckets[k].left - 1 /\ buckets'[k].count = buckets[k].count
          BY <1>4, <4>1 DEF Limiter!Less
        <5> QED BY <1>1, <1>4, <4>1, <5>1, <5>2 DEF Least
      <4> QED BY <4>2, <4>3
    <3> QED BY <3>1, <3>2
  <2>5. LimiterType'
    BY <1>1, <1>4, <1>5, <2>2 DEF LimiterType
  <2> QED BY <1>1, <1>7, <2>2, <2>3, <2>4, <2>5, AmountsLet DEF LimiterInv
<1> QED BY <1>1, <1>6, <1>7

LEMMA LimiterNext ==
  ASSUME RuleAssumption, LimiterInv, [Limiter!Next]_(Limiter!vars)
  PROVE  LimiterInv'
<1>1. CASE UNCHANGED Limiter!vars
  BY <1>1 DEF Limiter!vars, LimiterInv, LimiterType, FromRedis, FromMemory, LetThrough, Limiter!Live
<1>2. ASSUME NEW k \in Key, Limiter!Observe(k) PROVE LimiterInv'
  <2>1. watch' = Limiter!Watch(k, Window) /\ hits' = hits /\ buckets' = buckets
    BY <1>2 DEF Limiter!Observe
  <2>2. watch' \in Watch /\ watch'.allowed = 0 /\ watch'.fell = FALSE
    BY <2>1 DEF Limiter!Watch, Watch, RuleAssumption
  <2>3. LimiterType'
    BY <2>1, <2>2 DEF LimiterInv, LimiterType
  <2>4. FromRedis' \in Nat
    <3> DEFINE b == hits[watch.key]
    <3>1. /\ b'.count \in Nat /\ b'.left \in 0..Window /\ watch'.left \in 0..Window
          /\ Limit \in Nat /\ Window \in Nat
      BY <2>3 DEF LimiterType, Watch, Bucket, RuleAssumption
    <3>2. FromRedis' = Least(b'.count) + (IF b'.count # 0 /\ b'.left < watch'.left THEN 0 ELSE Limit)
      BY DEF FromRedis, LetThrough
    <3> HIDE DEF b
    <3> QED BY <3>1, <3>2 DEF Least
  <2>5. (IF watch'.fell THEN FromMemory' + (Limit * watch.evicted)' ELSE 0) = 0
    BY <2>2
  <2>6. watch'.allowed <= FromRedis' + (IF watch'.fell THEN FromMemory' + (Limit * watch.evicted)' ELSE 0)
    <3> DEFINE rest == IF watch'.fell THEN FromMemory' + (Limit * watch.evicted)' ELSE 0
    <3>1. rest = 0
      BY <2>5
    <3> HIDE DEF rest
    <3>2. \A n \in Nat : \A m \in {0} : 0 <= n + m
      OBVIOUS
    <3>3. 0 <= FromRedis' + rest
      BY <2>4, <3>1, <3>2
    <3>4. watch'.allowed <= FromRedis' + rest
      BY <2>2, <3>3
    <3> QED BY <3>4 DEF rest
  <2> QED BY <2>2, <2>3, <2>6 DEF LimiterInv
<1> QED BY <1>1, <1>2, TickCounts, ConsumeCounts, ConsumeMemoryCounts DEF Limiter!Next

(* lib/rateLimiter.ts: whatever window a client picks and whichever Redis calls   *)
(* fail, it is allowed a multiple of the limit that is known: two buckets of each  *)
(* store may fall into the window, and one more for each eviction.                  *)
THEOREM BurstAlwaysBounded == Limiter!Spec => []BurstBounded
<1>. RuleAssumption
  BY ServicesAssumption DEF RuleAssumption
<1>1. ASSUME LimiterInv PROVE BurstBounded
  <2>1. /\ watch.evicted \in Nat /\ watch.allowed \in Nat /\ Limit \in Nat
        /\ watch.left \in 0..Window /\ Window \in Nat
    BY <1>1 DEF LimiterInv, LimiterType, Watch, RuleAssumption
  <2>2. watch.allowed <= IF watch.fell THEN 4 * Limit + Limit * watch.evicted ELSE 2 * Limit
    BY <1>1, <2>1, AmountsLet DEF LimiterInv
  <2>3. /\ Limit * (4 + watch.evicted) = 4 * Limit + Limit * watch.evicted
        /\ Limit * (2 + watch.evicted) = 2 * Limit + Limit * watch.evicted
        /\ Limit * watch.evicted \in Nat
    BY <2>1
  <2> QED BY <2>1, <2>2, <2>3 DEF BurstBounded, Limiter!BurstBounded
<1>2. LimiterInv /\ [Limiter!Next]_(Limiter!vars) => LimiterInv'
  BY LimiterNext
<1>3. Limiter!Init => LimiterInv
  BY LimiterInit
<1> QED BY <1>1, <1>2, <1>3, PTL DEF Limiter!Spec

-----------------------------------------------------------------------------
(* Authentication storage *)

(* Values are numbered as they are written. A session value is at one key, and *)
(* memory keeps none.                                                          *)
SessionsInRedis ==
  /\ writes \in Nat
  /\ shared \in [Key -> 0..writes] /\ gone \subseteq 1..writes
  /\ DOMAIN memory = Process
  /\ \A p \in Process : DOMAIN memory[p] = Key /\ \A k \in Key \ RecordKey : memory[p][k] = 0
  /\ \A k \in Key : shared[k] # 0 =>
       shared[k] \notin gone /\ \A j \in Key : shared[j] = shared[k] => j = k

LEMMA StorageInit == Storage!Init => SessionsInRedis
BY DEF Storage!Init, SessionsInRedis

LEMMA StorageNext ==
  ASSUME SessionsInRedis, [Storage!Next]_(Storage!vars)
  PROVE  SessionsInRedis'
<1> USE DEF SessionsInRedis
<1>1. CASE UNCHANGED Storage!vars
  BY <1>1 DEF Storage!vars
<1>2. ASSUME NEW k \in Key, Storage!Expire(k) PROVE SessionsInRedis'
  BY <1>2 DEF Storage!Expire
<1>3. ASSUME NEW k \in Key, NEW p \in Process, Storage!Set(p, k) PROVE SessionsInRedis'
  BY <1>3 DEF Storage!Set, Storage!IsRateLimitRecord
<1>4. ASSUME NEW k \in Key, NEW p \in Process, Storage!Increment(p, k) PROVE SessionsInRedis'
  BY <1>4 DEF Storage!Increment
<1>5. ASSUME NEW k \in Key, NEW p \in Process, Storage!Delete(p, k) PROVE SessionsInRedis'
  BY <1>5 DEF Storage!Delete
<1>6. ASSUME NEW k \in Key, NEW p \in Process, Storage!Take(p, k) PROVE SessionsInRedis'
  <2>1. /\ shared' = [shared EXCEPT ![k] = 0] /\ gone' = gone \cup ({shared[k]} \ {0})
        /\ memory' = memory /\ writes' = writes
    BY <1>6 DEF Storage!Take
  <2>2. shared' \in [Key -> 0..writes]
    BY <2>1
  <2>3. shared[k] \in 0..writes /\ (shared[k] # 0 => shared[k] \in 1..writes)
    OBVIOUS
  <2>4. gone' \subseteq 1..writes
    <3>1. gone \subseteq 1..writes /\ writes' = writes /\ gone' = gone \cup ({shared[k]} \ {0})
      BY <2>1
    <3> HIDE DEF SessionsInRedis
    <3> QED BY <2>3, <3>1
  <2>5. ASSUME NEW j \in Key, shared'[j] # 0
        PROVE  /\ j # k /\ shared'[j] = shared[j] /\ shared'[j] \notin gone'
               /\ \A i \in Key : shared'[i] = shared'[j] => i = j
    BY <2>1, <2>5
  <2> QED BY <2>1, <2>2, <2>4, <2>5
<1>7. ASSUME NEW k \in Key, NEW p \in Process, Storage!Taken(p, k) \/ Storage!TakeFails(p, k)
      PROVE  SessionsInRedis'
  BY <1>7 DEF Storage!Taken, Storage!TakeFails
<1> QED BY <1>1, <1>2, <1>3, <1>4, <1>5, <1>6, <1>7 DEF Storage!Next

(* auth/storage.ts: a session or one-time value that was deleted, taken or     *)
(* replaced in Redis is never read again by any process, whichever calls fail. *)
THEOREM WithdrawnNeverRead == Storage!Spec => []WithdrawnStaysAway
<1>1. SessionsInRedis => WithdrawnStaysAway
  BY DEF SessionsInRedis, WithdrawnStaysAway, Storage!WithdrawnStaysAway, Storage!Read
<1>2. SessionsInRedis /\ [Storage!Next]_(Storage!vars) => SessionsInRedis'
  BY StorageNext
<1> QED BY <1>1, <1>2, StorageInit, PTL DEF Storage!Spec

-----------------------------------------------------------------------------
(* The seeds *)

PlannedRow == 1..MaxPlanned

RowsInv ==
  /\ plan \in 0..MaxPlanned /\ counter \in Nat /\ row \in Nat \ {0}
  /\ sequence \in [Seeding!Row -> Nat]
  /\ \E n \in Nat : \A r \in Seeding!Row : sequence[r] <= n
  /\ \A r \in PlannedRow : sequence[r] \in {0, r}

(* Where a run is, and what it has done so far. *)
RunInv ==
  /\ at = "board" \/ (at = "users" /\ seed = "demo") => row = 1 /\ plan = MaxPlanned
  /\ at \in {"board", "tasks", "counter"} =>
       seed = "demo" /\ account = "credential" /\ plan = MaxPlanned
  /\ at = "tasks" => \A r \in 1..plan : r < row => sequence[r] # 0
  /\ at = "counter" => \A r \in 1..plan : sequence[r] # 0
  /\ at \in {"link", "reset", "write"} => seed = "volume"
  /\ at = "link" => account = "user"
  /\ at \in {"reset", "write"} => account = "credential" \/ halved
  /\ account \in {"none", "user", "credential"}
  /\ account = "user" => at = "link" \/ halved

SeedInv == RowsInv /\ RunInv /\ Seeding!SeededBoardSound

SeedAssumption == MaxPlanned \in Nat /\ Users \cap PlannedRow = {}

(* A set of naturals that has a bound has a greatest element. *)
LEMMA Greatest ==
  ASSUME NEW S \in SUBSET Nat, S # {}, NEW n \in Nat, \A x \in S : x <= n
  PROVE  Seeding!Max(S) \in S /\ \A x \in S : x <= Seeding!Max(S)
<1> DEFINE bounds == {m \in Nat : \A x \in S : x <= m}
<1>1. bounds \in SUBSET Nat /\ bounds # {}
  OBVIOUS
<1>2. PICK m \in bounds : \A other \in bounds : m <= other
  <2> HIDE DEF bounds
  <2> QED BY <1>1, LeastElement
<1>3. m \in S
  <2> SUFFICES ASSUME m \notin S PROVE FALSE
    OBVIOUS
  <2>1. m \in Nat /\ \A x \in S : x \in Nat /\ x <= m /\ x # m
    BY <1>2
  <2>2. m # 0
    <3>1. PICK x \in S : TRUE
      OBVIOUS
    <3>2. x \in Nat /\ x <= m /\ x # m
      BY <2>1
    <3> QED BY <2>1, <3>2
  <2>3. m - 1 \in Nat /\ \A x \in S : x <= m - 1
    BY <2>1, <2>2
  <2>4. m <= m - 1
    BY <1>2, <2>3
  <2> QED BY <2>1, <2>4
<1>4. \A x \in S : m >= x
  BY <1>2
<1> QED BY <1>3, <1>4 DEF Seeding!Max

LEMMA SeedInit == SeedAssumption /\ Seeding!Init => SeedInv
<1> SUFFICES ASSUME SeedAssumption, Seeding!Init PROVE SeedInv
  OBVIOUS
<1>1. /\ plan = 0 /\ counter = 0 /\ row = 1 /\ at = "idle" /\ ended = "never" /\ account = "none"
      /\ sequence = [r \in Seeding!Row |-> 0]
  BY DEF Seeding!Init
<1>2. RowsInv
  BY <1>1 DEF RowsInv, SeedAssumption, PlannedRow, Seeding!Row
<1>3. RunInv
  BY <1>1 DEF RunInv
<1>4. Seeding!SeededBoardSound
  BY <1>1 DEF Seeding!SeededBoardSound
<1> QED BY <1>2, <1>3, <1>4 DEF SeedInv

(* The steps of a run that write no row, and are not its last. *)
LEMMA RunGoesOn ==
  ASSUME SeedAssumption, SeedInv,
         \/ Seeding!StartDemo \/ Seeding!SignUpDemoUsers \/ Seeding!UpsertBoard
         \/ Seeding!UpsertDependencies
         \/ Seeding!StartVolume \/ Seeding!ProvisionVolumeUsers \/ Seeding!LinkAccount
  PROVE  SeedInv'
<1> USE DEF SeedInv, Seeding!board, Seeding!outcome
<1>1. sequence' = sequence /\ halved' = halved /\ at' # "idle"
  BY DEF Seeding!StartDemo, Seeding!SignUpDemoUsers, Seeding!UpsertBoard,
         Seeding!UpsertDependencies,
         Seeding!StartVolume, Seeding!ProvisionVolumeUsers, Seeding!LinkAccount
<1>2. plan' \in 0..MaxPlanned /\ counter' \in Nat /\ row' \in Nat \ {0}
  BY DEF RowsInv, SeedAssumption, Seeding!StartDemo, Seeding!SignUpDemoUsers, Seeding!UpsertBoard,
         Seeding!UpsertDependencies,
         Seeding!StartVolume, Seeding!ProvisionVolumeUsers, Seeding!LinkAccount
<1>3. RowsInv'
  BY <1>1, <1>2 DEF RowsInv, Seeding!Row
<1>4. CASE Seeding!StartDemo
  BY <1>1, <1>3, <1>4 DEF Seeding!StartDemo, RunInv, Seeding!SeededBoardSound
<1>5. CASE Seeding!SignUpDemoUsers
  BY <1>1, <1>3, <1>5 DEF Seeding!SignUpDemoUsers, RunInv, Seeding!SeededBoardSound
<1>6. CASE Seeding!UpsertBoard
  <2>1. row = 1
    BY <1>6 DEF RunInv, Seeding!UpsertBoard
  <2> QED BY <1>1, <1>3, <1>6, <2>1 DEF Seeding!UpsertBoard, RunInv, Seeding!SeededBoardSound
<1>7. CASE Seeding!UpsertDependencies
  <2>1. \A r \in 1..plan : sequence[r] # 0
    <3>1. at = "tasks" /\ row \notin 1..plan /\ row \in Nat \ {0} /\ plan \in Nat
      BY <1>7 DEF Seeding!UpsertDependencies, Seeding!Planned, RowsInv, SeedAssumption
    <3>2. \A r \in 1..plan : r < row
      BY <3>1
    <3> QED BY <3>1, <3>2 DEF RunInv
  <2> QED BY <1>1, <1>3, <1>7, <2>1
      DEF Seeding!UpsertDependencies, RunInv, Seeding!SeededBoardSound
<1>8. CASE Seeding!StartVolume
  BY <1>1, <1>3, <1>8 DEF Seeding!StartVolume, RunInv, Seeding!SeededBoardSound
<1>9. CASE Seeding!ProvisionVolumeUsers
  BY <1>1, <1>3, <1>9 DEF Seeding!ProvisionVolumeUsers, RunInv, Seeding!SeededBoardSound
<1>10. CASE Seeding!LinkAccount
  BY <1>1, <1>3, <1>10 DEF Seeding!LinkAccount, RunInv, Seeding!SeededBoardSound
<1> QED BY <1>4, <1>5, <1>6, <1>7, <1>8, <1>9, <1>10

LEMMA DemoRows ==
  ASSUME SeedAssumption, SeedInv, Seeding!UpsertTask \/ Seeding!SetCounter
  PROVE  SeedInv'
<1> USE DEF SeedInv, Seeding!board, Seeding!outcome
<1>1. CASE Seeding!UpsertTask
  <2>1. /\ at = "tasks" /\ row \in 1..plan /\ row' = row + 1
        /\ sequence' = [sequence EXCEPT ![row] = row]
        /\ UNCHANGED <<seed, account, counter, plan, at, ended, halved>>
    BY <1>1 DEF Seeding!UpsertTask, Seeding!Planned
  <2>2. row \in PlannedRow /\ row \in Seeding!Row /\ row \in Nat /\ row # 0
    BY <2>1 DEF RowsInv, PlannedRow, Seeding!Row, SeedAssumption
  <2>3. PICK n \in Nat : \A r \in Seeding!Row : sequence[r] <= n
    BY DEF RowsInv
  <2>4. sequence' \in [Seeding!Row -> Nat] /\ \A r \in PlannedRow : sequence'[r] \in {0, r}
    BY <2>1, <2>2 DEF RowsInv
  <2>5. \E m \in Nat : \A r \in Seeding!Row : sequence'[r] <= m
    <3>1. n + row \in Nat
      BY <2>2, <2>3
    <3>2. ASSUME NEW r \in Seeding!Row PROVE sequence'[r] <= n + row
      BY <2>1, <2>2, <2>3, <3>2 DEF RowsInv
    <3> QED BY <3>1, <3>2
  <2>6. RowsInv'
    BY <2>1, <2>2, <2>4, <2>5 DEF RowsInv, Seeding!Row
  <2>7. ASSUME NEW r \in 1..plan, r < row + 1 PROVE sequence'[r] # 0
    <3>1. r \in Seeding!Row
      BY DEF RowsInv, Seeding!Row, SeedAssumption
    <3>2. CASE r = row
      BY <2>1, <2>2, <3>2 DEF RowsInv
    <3>3. CASE r # row
      <4>1. sequence'[r] = sequence[r] /\ r < row
        BY <2>1, <2>2, <2>7, <3>1, <3>3 DEF RowsInv
      <4> QED BY <2>1, <4>1 DEF RunInv
    <3> QED BY <3>2, <3>3
  <2>8. RunInv'
    BY <2>1, <2>7 DEF RunInv
  <2> QED BY <2>1, <2>6, <2>8 DEF Seeding!SeededBoardSound
<1>2. CASE Seeding!SetCounter
  <2>1. /\ at = "counter" /\ at' = "idle" /\ ended' = "done"
        /\ counter' = Seeding!Highest(Seeding!Planned) + 1
        /\ UNCHANGED <<seed, account, sequence, plan, row, halved>>
    BY <1>2 DEF Seeding!SetCounter
  <2>2. counter' \in Nat /\ \A r \in 1..plan : r < counter'
    <3>1. /\ Seeding!Planned \cup {0} \in SUBSET Nat /\ plan \in Nat
          /\ \A r \in Seeding!Planned \cup {0} : r <= plan
      BY DEF RowsInv, Seeding!Planned, SeedAssumption
    <3>2. /\ Seeding!Highest(Seeding!Planned) \in Nat
          /\ \A r \in Seeding!Planned : r <= Seeding!Highest(Seeding!Planned)
      BY <3>1, Greatest DEF Seeding!Highest
    <3>3. counter' \in Nat
      BY <2>1, <3>2
    <3>4. \A r \in 1..plan : r < counter'
      BY <2>1, <3>1, <3>2 DEF Seeding!Planned
    <3> QED BY <3>3, <3>4
  <2>3. /\ seed = "demo" /\ account = "credential" /\ plan = MaxPlanned
        /\ \A r \in 1..plan : sequence[r] # 0
    BY <2>1 DEF RunInv
  <2>8. \A r \in Seeding!Row \ Users : sequence[r] < counter'
    <3>1. \A r \in Seeding!Row \ Users : r \in 1..plan /\ r \in PlannedRow
      BY <2>3 DEF Seeding!Row, PlannedRow
    <3>2. \A r \in 1..plan : sequence[r] = r
      BY <2>3 DEF RowsInv, PlannedRow
    <3> QED BY <2>2, <3>1, <3>2
  <2>4. RowsInv'
    BY <2>1, <2>2 DEF RowsInv, Seeding!Row
  <2>5. RunInv'
    BY <2>1, <2>3 DEF RunInv
  <2>6. (1..plan) \subseteq {r \in Seeding!Row : sequence[r] # 0}
    BY <2>3 DEF Seeding!Row, RowsInv, SeedAssumption
  <2>7. Seeding!SeededBoardSound'
    BY <2>1, <2>3, <2>6, <2>8
       DEF Seeding!SeededBoardSound, Seeding!Planned, Seeding!Rows, Seeding!Row
  <2> QED BY <2>4, <2>5, <2>7
<1> QED BY <1>1, <1>2

LEMMA VolumeResets ==
  ASSUME SeedAssumption, SeedInv, Seeding!ResetVolumeData
  PROVE  SeedInv'
<1> USE DEF SeedInv, Seeding!board, Seeding!outcome
<1>1. /\ at = "reset" /\ at' = "write"
      /\ \/ sequence' = [r \in Seeding!Row |-> 0] /\ counter' = 0
         \/ sequence' = sequence /\ counter' = counter
      /\ UNCHANGED <<seed, account, plan, row, ended, halved>>
  BY DEF Seeding!ResetVolumeData
<1>2. /\ sequence' \in [Seeding!Row -> Nat] /\ counter' \in Nat
      /\ \A r \in PlannedRow : sequence'[r] \in {0, r}
  <2>1. PlannedRow \subseteq Seeding!Row
    BY DEF PlannedRow, Seeding!Row
  <2>2. sequence' \in [Seeding!Row -> Nat] /\ counter' \in Nat
    BY <1>1 DEF RowsInv
  <2>3. ASSUME NEW r \in PlannedRow PROVE sequence'[r] \in {0, r}
    BY <1>1, <2>1 DEF RowsInv
  <2> QED BY <2>2, <2>3
<1>3. \E n \in Nat : \A r \in Seeding!Row : sequence'[r] <= n
  BY <1>1 DEF RowsInv
<1>4. RowsInv'
  BY <1>1, <1>2, <1>3 DEF RowsInv, Seeding!Row
<1>5. RunInv'
  BY <1>1 DEF RunInv
<1> QED BY <1>1, <1>4, <1>5 DEF Seeding!SeededBoardSound

LEMMA VolumeWrites ==
  ASSUME SeedAssumption, SeedInv, Seeding!WriteVolumePlan
  PROVE  SeedInv'
<1> DEFINE Outrun == \E u \in Users : sequence[u] \in 1..plan
<1> USE DEF SeedInv
<1>1. /\ at = "write" /\ at' = "idle" /\ seed = "volume" /\ (account = "credential" \/ halved)
      /\ UNCHANGED <<seed, account, plan, row, halved>>
  BY DEF Seeding!WriteVolumePlan, RunInv
<1>2. RunInv'
  BY <1>1 DEF RunInv
(* A planned row that is neither there nor inserted has met a task of a user. *)
<1>3. ASSUME NEW r \in 1..plan, sequence[r] = 0, r \notin Seeding!Inserted
      PROVE  Outrun
  <2>1. r \in PlannedRow /\ r \in Nat
    BY DEF RowsInv, PlannedRow, SeedAssumption
  <2>2. r \in Seeding!Taken
    BY <1>3, <2>1 DEF Seeding!Inserted, Seeding!Planned, Seeding!Rows
  <2>3. PICK q \in Seeding!Row : sequence[q] # 0 /\ r = sequence[q]
    BY <2>2 DEF Seeding!Taken, Seeding!Rows
  <2>4. q \notin PlannedRow
    BY <1>3, <2>3 DEF RowsInv
  <2> QED BY <2>3, <2>4 DEF Seeding!Row, PlannedRow
<1>4. CASE \A e \in Seeding!PlannedEdges : {e[1], e[2]} \subseteq Seeding!Rows \cup Seeding!Inserted
  <2>1. /\ sequence' = [r \in Seeding!Row |-> IF r \in Seeding!Inserted THEN r ELSE sequence[r]]
        /\ counter' = Seeding!Raised(Seeding!Inserted) /\ ended' = "done"
    BY <1>4 DEF Seeding!WriteVolumePlan
  <2>2. Seeding!Inserted \subseteq 1..plan /\ Seeding!Inserted \subseteq PlannedRow
    BY DEF Seeding!Inserted, Seeding!Planned, RowsInv, PlannedRow, SeedAssumption
  <2>3. /\ sequence' \in [Seeding!Row -> Nat]
        /\ \A r \in PlannedRow : sequence'[r] \in {0, r}
    <3>1. PlannedRow \subseteq Seeding!Row /\ PlannedRow \subseteq Nat
      BY DEF PlannedRow, Seeding!Row, SeedAssumption
    <3>2. ASSUME NEW r \in Seeding!Row
          PROVE  /\ (IF r \in Seeding!Inserted THEN r ELSE sequence[r]) \in Nat
                 /\ r \in PlannedRow => sequence[r] \in {0, r}
      BY <2>2, <3>1 DEF RowsInv
    <3> HIDE DEF SeedInv
    <3>3. sequence' \in [Seeding!Row -> Nat]
      BY <2>1, <3>2
    <3>4. ASSUME NEW r \in PlannedRow PROVE sequence'[r] \in {0, r}
      BY <2>1, <3>1, <3>2
    <3> QED BY <3>3, <3>4
  <2>4. PICK n \in Nat : \A r \in Seeding!Row : sequence[r] <= n
    BY DEF RowsInv
  <2>5. /\ counter' \in Nat
        /\ \A r \in Seeding!Row : sequence'[r] # 0 => sequence'[r] < counter'
    <3> DEFINE numbers == Seeding!Taken \cup Seeding!Inserted \cup {0}
               highest == Seeding!Highest(Seeding!Taken \cup Seeding!Inserted)
    <3>1. numbers \in SUBSET Nat
      <4>1. Seeding!Taken \subseteq Nat
        BY DEF Seeding!Taken, Seeding!Rows, RowsInv
      <4>2. Seeding!Inserted \subseteq Nat
        BY <2>2 DEF PlannedRow, SeedAssumption
      <4> QED BY <4>1, <4>2
    <3>2. n + MaxPlanned \in Nat /\ \A m \in numbers : m <= n + MaxPlanned
      <4>1. ASSUME NEW m \in Seeding!Taken PROVE m <= n /\ m \in Nat
        BY <2>4 DEF Seeding!Taken, Seeding!Rows, RowsInv
      <4>2. ASSUME NEW m \in Seeding!Inserted PROVE m <= MaxPlanned /\ m \in Nat
        BY <2>2 DEF PlannedRow, SeedAssumption
      <4> QED BY <4>1, <4>2, <2>4 DEF SeedAssumption
    <3>3. highest \in Nat /\ \A m \in numbers : m <= highest
      <4> HIDE DEF numbers
      <4>1. Seeding!Max(numbers) \in numbers /\ \A m \in numbers : m <= Seeding!Max(numbers)
        <5>1. numbers # {}
          BY DEF numbers
        <5> QED BY <3>1, <3>2, <5>1, Greatest
      <4>2. highest = Seeding!Max(numbers)
        BY DEF numbers, Seeding!Highest
      <4> QED BY <3>1, <4>1, <4>2
    <3>4. counter' \in Nat /\ counter' >= highest + 1
      <4>1. counter \in Nat /\ counter' = Seeding!Max({counter, highest + 1})
        BY <2>1 DEF Seeding!Raised, RowsInv
      <4> HIDE DEF highest
      <4>2. {counter, highest + 1} \in SUBSET Nat /\ counter + highest + 1 \in Nat
        BY <3>3, <4>1
      <4>3. \A m \in {counter, highest + 1} : m <= counter + highest + 1
        BY <3>3, <4>1
      <4>4. /\ Seeding!Max({counter, highest + 1}) \in {counter, highest + 1}
            /\ \A m \in {counter, highest + 1} : m <= Seeding!Max({counter, highest + 1})
        BY <4>2, <4>3, Greatest
      <4> QED BY <4>1, <4>2, <4>4
    <3>5. ASSUME NEW r \in Seeding!Row, sequence'[r] # 0 PROVE sequence'[r] \in numbers
      BY <2>1, <3>5 DEF Seeding!Taken, Seeding!Rows
    <3> HIDE DEF numbers, highest
    <3>6. ASSUME NEW r \in Seeding!Row, sequence'[r] # 0 PROVE sequence'[r] < counter'
      <4>1. sequence'[r] <= highest /\ sequence'[r] \in Nat
        BY <3>1, <3>3, <3>5, <3>6
      <4> QED BY <3>3, <3>4, <4>1
    <3> QED BY <3>4, <3>6
  <2>6. \E m \in Nat : \A r \in Seeding!Row : sequence'[r] <= m
    <3>1. ASSUME NEW r \in Seeding!Row PROVE sequence'[r] <= counter'
      BY <2>3, <2>5
    <3> QED BY <2>5, <3>1
  <2>7. RowsInv'
    BY <1>1, <2>3, <2>5, <2>6 DEF RowsInv, Seeding!Row
  <2>8. ASSUME ~Outrun', NEW r \in 1..plan PROVE r \in Seeding!Row /\ sequence'[r] # 0
    <3>1. r \in Seeding!Row /\ r \in PlannedRow /\ r # 0
      BY DEF RowsInv, PlannedRow, Seeding!Row, SeedAssumption
    <3>2. \A u \in Users : sequence'[u] = sequence[u]
      BY <2>1, <2>2 DEF SeedAssumption, Seeding!Row
    <3>3. ~Outrun
      BY <1>1, <2>8, <3>2
    <3> QED BY <1>3, <2>1, <3>1, <3>3
  <2>9. Seeding!SeededBoardSound'
    BY <1>1, <2>1, <2>5, <2>8
    DEF Seeding!SeededBoardSound, Seeding!Planned, Seeding!Rows, Seeding!Row
  <2> QED BY <1>2, <2>7, <2>9
<1>5. CASE ~\A e \in Seeding!PlannedEdges : {e[1], e[2]} \subseteq Seeding!Rows \cup Seeding!Inserted
  <2>1. sequence' = sequence /\ counter' = counter /\ ended' = "refused"
    BY <1>5 DEF Seeding!WriteVolumePlan, Seeding!board
  <2>2. PICK r \in 1..plan : r \notin Seeding!Rows \cup Seeding!Inserted
    <3>1. PICK r \in 2..plan : ~({r, r - 1} \subseteq Seeding!Rows \cup Seeding!Inserted)
      BY <1>5 DEF Seeding!PlannedEdges
    <3>2. r \in 1..plan /\ r - 1 \in 1..plan
      BY DEF RowsInv, SeedAssumption
    <3> QED BY <3>1, <3>2
  <2>3. Outrun
    <3>1. r \in Seeding!Row
      BY DEF RowsInv, Seeding!Row, SeedAssumption
    <3> QED BY <1>3, <2>2, <3>1 DEF Seeding!Rows
  <2>4. RowsInv'
    BY <1>1, <2>1 DEF RowsInv, Seeding!Row
  <2>5. Seeding!SeededBoardSound'
    BY <1>1, <2>1, <2>3 DEF Seeding!SeededBoardSound, Seeding!Planned
  <2> QED BY <1>2, <2>4, <2>5
<1> QED BY <1>4, <1>5

LEMMA RunIsCut ==
  ASSUME SeedInv, Seeding!Crash
  PROVE  SeedInv'
<1>1. /\ at # "idle" /\ at' = "idle" /\ ended' = "cut" /\ halved' = (halved \/ at = "link")
      /\ UNCHANGED <<seed, account, sequence, counter, plan, row>>
  BY DEF Seeding!Crash, Seeding!board
<1>2. RowsInv'
  BY <1>1 DEF SeedInv, RowsInv, Seeding!Row
<1>3. account = "user" => halved'
  BY <1>1 DEF SeedInv, RunInv
<1>4. RunInv'
  BY <1>1, <1>3 DEF SeedInv, RunInv
<1> QED BY <1>1, <1>2, <1>4 DEF SeedInv, Seeding!SeededBoardSound

LEMMA UsersGoOn ==
  ASSUME SeedAssumption, SeedInv,
         \/ \E u \in Users : Seeding!CreateTask(u)
         \/ \E r \in PlannedRow : Seeding!UpdateTask(r)
  PROVE  SeedInv'
<1> USE DEF SeedInv, Seeding!outcome
<1>1. ASSUME NEW r \in PlannedRow, Seeding!UpdateTask(r) PROVE SeedInv'
  BY <1>1 DEF Seeding!UpdateTask, RowsInv, RunInv, Seeding!SeededBoardSound,
              Seeding!Row, Seeding!Rows, Seeding!Planned
<1>2. ASSUME NEW u \in Users, Seeding!CreateTask(u) PROVE SeedInv'
  <2>1. /\ counter # 0 /\ sequence[u] = 0 /\ sequence' = [sequence EXCEPT ![u] = counter]
        /\ counter' = counter + 1 /\ counter \in Nat
        /\ UNCHANGED <<seed, account, plan, row, at, ended, halved>>
    BY <1>2 DEF Seeding!CreateTask, RowsInv
  <2>2. u \in Seeding!Row /\ u \notin PlannedRow
    BY DEF Seeding!Row, SeedAssumption
  <2>3. /\ sequence' \in [Seeding!Row -> Nat] /\ sequence'[u] = counter
        /\ \A r \in Seeding!Row : r # u => sequence'[r] = sequence[r]
        /\ \A r \in Seeding!Row : sequence[r] # 0 => sequence'[r] = sequence[r]
    BY <2>1, <2>2 DEF RowsInv
  <2>4. PICK n \in Nat : \A r \in Seeding!Row : sequence[r] <= n
    BY DEF RowsInv
  <2>5. \E m \in Nat : \A r \in Seeding!Row : sequence'[r] <= m
    <3>1. ASSUME NEW r \in Seeding!Row PROVE sequence'[r] <= n + counter
      <4>1. sequence[r] \in Nat /\ sequence[r] <= n /\ sequence'[r] \in {sequence[r], counter}
        BY <2>3, <2>4 DEF RowsInv
      <4> QED BY <2>1, <4>1
    <3> QED BY <2>1, <3>1
  <2>6. PlannedRow \subseteq Seeding!Row /\ 1..plan \subseteq PlannedRow
    BY DEF PlannedRow, Seeding!Row, RowsInv, SeedAssumption
  <2>7. RowsInv'
    <3>1. \A r \in PlannedRow : sequence'[r] \in {0, r}
      BY <2>2, <2>3, <2>6 DEF RowsInv
    <3> QED BY <2>1, <2>3, <2>5, <3>1 DEF RowsInv, Seeding!Row
  <2>8. RunInv'
    <3>1. \A r \in 1..plan : sequence'[r] = sequence[r]
      BY <2>2, <2>3, <2>6
    <3> QED BY <2>1, <3>1 DEF RunInv
  <2>9. ASSUME NEW v \in Users, sequence[v] \in 1..plan PROVE sequence'[v] \in 1..plan
    <3>1. sequence[v] # 0 /\ v \in Seeding!Row
      BY <2>9 DEF Seeding!Row, RowsInv, SeedAssumption
    <3> QED BY <2>3, <2>9, <3>1
  <2> DEFINE Excused(r) == seed = "demo" /\ r \in Users
  <2>10. ASSUME NEW r \in Seeding!Row, sequence'[r] # 0,
                sequence[r] # 0 => sequence[r] < counter \/ Excused(r)
         PROVE  sequence'[r] < counter' \/ Excused(r)
    <3>1. CASE r = u
      BY <2>1, <2>3, <3>1
    <3>2. CASE r # u
      <4>1. sequence'[r] = sequence[r] /\ sequence[r] \in Nat
        BY <2>3, <3>2 DEF RowsInv
      <4> QED BY <2>1, <2>10, <4>1
    <3> QED BY <3>1, <3>2
  <2>11. Seeding!SeededBoardSound'
    <3> SUFFICES ASSUME at = "idle"
                 PROVE  LET outrun == \E v \in Users : sequence'[v] \in 1..plan IN
                        /\ ended = "refused" => seed = "volume" /\ outrun
                        /\ ended = "done" =>
                             /\ \A r \in Seeding!Row :
                                  sequence'[r] # 0 => sequence'[r] < counter' \/ Excused(r)
                             /\ ~outrun => \A r \in 1..plan : r \in Seeding!Row /\ sequence'[r] # 0
                             /\ account = "credential" \/ halved
      BY <2>1 DEF Seeding!SeededBoardSound, Seeding!Rows, Seeding!Row, Seeding!Planned
    <3>1. /\ ended = "refused" => seed = "volume" /\ \E v \in Users : sequence[v] \in 1..plan
          /\ ended = "done" =>
               /\ \A r \in Seeding!Row : sequence[r] # 0 => sequence[r] < counter \/ Excused(r)
               /\ (~\E v \in Users : sequence[v] \in 1..plan)
                    => \A r \in 1..plan : r \in Seeding!Row /\ sequence[r] # 0
               /\ account = "credential" \/ halved
      BY DEF Seeding!SeededBoardSound, Seeding!Rows, Seeding!Planned
    <3>2. ended = "refused" => seed = "volume" /\ \E v \in Users : sequence'[v] \in 1..plan
      BY <2>9, <3>1
    <3>3. ASSUME ended = "done"
          PROVE  \A r \in Seeding!Row : sequence'[r] # 0 => sequence'[r] < counter' \/ Excused(r)
      BY <2>10, <3>1, <3>3
    <3>4. ASSUME ended = "done", ~\E v \in Users : sequence'[v] \in 1..plan
          PROVE  \A r \in 1..plan : r \in Seeding!Row /\ sequence'[r] # 0
      <4>1. \A r \in 1..plan : r \in Seeding!Row /\ sequence[r] # 0
        BY <2>9, <3>1, <3>4
      <4> QED BY <2>3, <4>1
    <3> QED BY <3>1, <3>2, <3>3, <3>4
  <2> QED BY <2>7, <2>8, <2>11
<1> QED BY <1>1, <1>2

LEMMA SeedNext ==
  ASSUME SeedAssumption, SeedInv, [Seeding!Next]_(Seeding!vars)
  PROVE  SeedInv'
<1>1. CASE UNCHANGED Seeding!vars
  BY <1>1 DEF Seeding!vars, SeedInv, RowsInv, RunInv, Seeding!SeededBoardSound,
              Seeding!Row, Seeding!Rows, Seeding!Planned
<1> QED BY <1>1, RunGoesOn, DemoRows, VolumeResets, VolumeWrites, RunIsCut, UsersGoOn
    DEF Seeding!Next, PlannedRow

-----------------------------------------------------------------------------
(* The plan of the volume seed *)

PlannedTask == [status : Planning!Statuses, live : BOOLEAN, dated : BOOLEAN]

(* A prerequisite is an earlier task; only open live tasks have one, or repeat. *)
PlanInv ==
  /\ tasks \in Seq(PlannedTask)
  /\ dependencies \subseteq Planning!Sequences \X Planning!Sequences
  /\ schedules \subseteq Planning!Sequences
  /\ Acyclic(dependencies, Planning!Sequences)
  /\ \A e \in dependencies :
       /\ tasks[e[1]].status = "NOT_STARTED" /\ tasks[e[1]].live /\ tasks[e[2]].live
  /\ \A s \in schedules : tasks[s].status = "NOT_STARTED" /\ tasks[s].live

LEMMA PlanInit == Planning!Init => PlanInv
<1> SUFFICES ASSUME Planning!Init PROVE PlanInv
  OBVIOUS
<1>1. tasks = <<>> /\ dependencies = {} /\ schedules = {}
  BY DEF Planning!Init
<1>2. tasks \in Seq(PlannedTask)
  BY <1>1
<1>3. Acyclic(dependencies, Planning!Sequences)
  BY <1>1 DEF Acyclic
<1> QED BY <1>1, <1>2, <1>3 DEF PlanInv

(* The draws look back, at most to the first task.                             *)
LEMMA ChosenEarlier ==
  ASSUME LookBack \in Nat, tasks \in Seq(PlannedTask), NEW chosen, chosen \in Planning!Chosen(Len(tasks) + 1)
  PROVE  chosen \subseteq 1..Len(tasks) /\ \A d \in chosen : tasks[d].live
<1> DEFINE s == Len(tasks) + 1
           back == Planning!Min({LookBack, s - 1})
           drawn == {d \in (s - back)..(s - 1) : tasks[d].live}
<1>1. chosen \subseteq drawn
  BY DEF Planning!Chosen, Planning!kSubset
<1>2. back \in {LookBack, s - 1} /\ back <= s - 1
  BY DEF Planning!Min
<1>3. drawn \subseteq 1..Len(tasks)
  BY <1>2
<1> QED BY <1>1, <1>3

LEMMA PlanNext ==
  ASSUME LookBack \in Nat, PlanInv, [Planning!Next]_(Planning!vars)
  PROVE  PlanInv'
<1> USE DEF PlanInv, Planning!Sequences
<1>1. CASE UNCHANGED Planning!vars
  BY <1>1 DEF Planning!vars
<1>2. ASSUME NEW new \in PlannedTask, Planning!PlanTask(new) PROVE PlanInv'
  <2> DEFINE s == Len(tasks) + 1
  <2>1. PICK chosen : /\ chosen \in IF s > 1 /\ Planning!MayDepend(new)
                                      THEN Planning!Chosen(s) ELSE {{}}
                      /\ dependencies' = dependencies \cup ({s} \X chosen)
    BY <1>2 DEF Planning!PlanTask
  <2>2. /\ tasks' = Append(tasks, new) /\ s \in Nat
        /\ \/ schedules' = schedules
           \/ schedules' = schedules \cup {s} /\ Planning!MayRepeat(new)
    BY <1>2 DEF Planning!PlanTask
  <2>3. /\ tasks' \in Seq(PlannedTask) /\ Len(tasks') = s /\ tasks'[s] = new
        /\ \A i \in 1..Len(tasks) : tasks'[i] = tasks[i]
    BY <2>2
  <2>4. /\ chosen \subseteq 1..Len(tasks) /\ \A d \in chosen : tasks[d].live
        /\ chosen # {} => Planning!MayDepend(new)
    BY <2>1, ChosenEarlier
  <2>5. Acyclic(dependencies', 1..s)
    <3>1. Acyclic(dependencies, 1..s)
      <4> SUFFICES ASSUME NEW S \in SUBSET (1..s), S # {}
                   PROVE  \E a \in S : \A b \in S : <<a, b>> \notin dependencies
        BY DEF Acyclic
      <4>1. CASE s \in S
        BY <4>1
      <4>2. CASE s \notin S
        <5>1. S \in SUBSET (1..Len(tasks))
          BY <4>2
        <5> QED BY <5>1 DEF Acyclic
      <4> QED BY <4>1, <4>2
    <3>2. ~Reaches(dependencies, 1..s, chosen, s)
      <4>1. dependencies \subseteq (1..s) \X (1..s) /\ \A e \in dependencies : e[2] # s
        OBVIOUS
      <4>2. chosen \in SUBSET (1..s) /\ s \notin chosen
        BY <2>4
      <4> QED BY <4>1, <4>2, FreshUnreachable
    <3> QED BY <2>1, <3>1, <3>2, AddPrerequisitesAcyclic
  <2>6. /\ dependencies' \subseteq (1..s) \X (1..s) /\ schedules' \subseteq 1..s
    <3>1. 1..Len(tasks) \subseteq 1..s /\ s \in 1..s
      OBVIOUS
    <3>2. {s} \X chosen \subseteq (1..s) \X (1..s)
      BY <3>1, <2>4
    <3>3. dependencies \subseteq (1..s) \X (1..s)
      BY <3>1
    <3>4. schedules' \subseteq 1..s
      BY <3>1, <2>2
    <3> QED BY <2>1, <3>2, <3>3, <3>4
  <2>7. ASSUME NEW e \in dependencies'
        PROVE  /\ tasks'[e[1]].status = "NOT_STARTED"
               /\ tasks'[e[1]].live /\ tasks'[e[2]].live
    BY <2>1, <2>3, <2>4 DEF Planning!MayDepend
  <2>8. ASSUME NEW t \in schedules' PROVE tasks'[t].status = "NOT_STARTED" /\ tasks'[t].live
    <3>1. CASE t \in schedules
      BY <3>1, <2>3
    <3>2. CASE t \notin schedules
      BY <2>2, <2>3, <2>8, <3>2 DEF Planning!MayRepeat
    <3> QED BY <3>1, <3>2
  <2> QED BY <2>3, <2>5, <2>6, <2>7, <2>8
<1> QED BY <1>1, <1>2 DEF Planning!Next, PlannedTask

(* seed-volume.ts writes past the API, but the API would have accepted its plan. *)
THEOREM PlanAlwaysObeysApi == Planning!Spec => []Planning!PlanObeysApi
<1>. LookBack \in Nat
  BY ServicesAssumption
<1>1. PlanInv => Planning!PlanObeysApi
  BY DEF PlanInv, Planning!PlanObeysApi, Planning!Acyclic, Acyclic, Planning!Settled
<1>2. PlanInv /\ [Planning!Next]_(Planning!vars) => PlanInv'
  BY PlanNext
<1> QED BY <1>1, <1>2, PlanInit, PTL DEF Planning!Spec

(* seed.ts and seed-volume.ts: a run of a seed, however often one was stopped     *)
(* before and whatever users did in between, ends with a board that is complete up *)
(* to what users took first, whose counter is past every task (past its own rows, in *)
(* the demo seed), and whose users can sign in but for one that a crash left halfway; *)
(* and what the volume seed plans past the API the API would have      *)
(* accepted: no cycle, live prerequisites, no task begun over an open one, and        *)
(* schedules on live tasks that are not archived.                                      *)
THEOREM SeededBoardAlwaysSound == Seeding!Spec /\ Planning!Spec => []SeededBoardSound
<1>. SeedAssumption
  BY ServicesAssumption DEF SeedAssumption, PlannedRow
<1>1. SeedInv /\ [Seeding!Next]_(Seeding!vars) => SeedInv'
  BY SeedNext
<1>2. Seeding!Init => SeedInv
  BY SeedInit
<1>3. SeedInv /\ Planning!PlanObeysApi => SeededBoardSound
  BY DEF SeedInv, SeededBoardSound
<1>4. Seeding!Spec => []SeedInv
  BY <1>1, <1>2, PTL DEF Seeding!Spec
<1> QED BY <1>3, <1>4, PlanAlwaysObeysApi, PTL

-----------------------------------------------------------------------------
(* The cycle check of the code decides reachability, on any graph of a board. *)

(* What the loop keeps: it has visited only what the added prerequisites       *)
(* reach, everything they need is visited or pending, and the edited task was  *)
(* not met.                                                                    *)
SearchInv ==
  /\ TypeOK
  /\ taskId \notin visited
  /\ answer # "cycle" =>
       /\ added \subseteq visited \cup pending
       /\ \A e \in edges : e[1] \in visited => e[2] \in visited \cup pending
  /\ \A S \in SUBSET Task :
       added \subseteq S /\ Closed(edges, S) => visited \cup pending \subseteq S
  /\ SearchCorrect

LEMMA SearchInvInit == Init => SearchInv
BY DEF Init, SearchInv, TypeOK, SearchCorrect

LEMMA VisitInv ==
  ASSUME SearchInv, NEW current \in Task, Visit(current)
  PROVE  SearchInv'
<1> USE DEF SearchInv, TypeOK
<1>1. /\ answer = "open" /\ current \in pending
      /\ UNCHANGED <<edges, taskId, added>>
  BY DEF Visit
<1>2. CASE current \in visited
  BY <1>1, <1>2 DEF Visit, Popped, SearchCorrect
<1>3. CASE current \notin visited /\ current = taskId
  <2>1. answer' = "cycle" /\ visited' = visited /\ pending' = pending \ {current}
    BY <1>3 DEF Visit, Popped
  <2>2. Reaches(edges, Task, added, taskId)
    BY <1>1, <1>3 DEF Reaches
  <2>3. SearchCorrect'
    BY <1>1, <2>1, <2>2 DEF SearchCorrect
  <2> QED BY <1>1, <2>1, <2>3
<1>4. CASE current \notin visited /\ current # taskId
  <2>1. /\ visited' = visited \cup {current}
        /\ pending' = (pending \ {current}) \cup Prerequisites(edges, Task, current)
        /\ answer' = "open"
    BY <1>1, <1>4 DEF Visit, Expanded, Popped
  <2>2. Prerequisites(edges, Task, current) \subseteq Task
    BY DEF Prerequisites
  <2>3. \A e \in edges : e[1] = current => e[2] \in Prerequisites(edges, Task, current)
    BY DEF Prerequisites
  <2>4. \A S \in SUBSET Task : Closed(edges, S) /\ current \in S =>
          Prerequisites(edges, Task, current) \subseteq S
    BY DEF Closed, Prerequisites
  <2>5. TypeOK' /\ taskId' \notin visited' /\ (added \subseteq visited \cup pending)'
    BY <1>1, <1>4, <2>1, <2>2
  <2>6. (\A e \in edges : e[1] \in visited => e[2] \in visited \cup pending)'
    BY <1>1, <2>1, <2>3
  <2>7. (\A S \in SUBSET Task :
           added \subseteq S /\ Closed(edges, S) => visited \cup pending \subseteq S)'
    BY <1>1, <2>1, <2>4
  <2>8. SearchCorrect'
    BY <2>1 DEF SearchCorrect
  <2> QED BY <2>5, <2>6, <2>7, <2>8
<1> QED BY <1>2, <1>3, <1>4

LEMMA ExhaustInv ==
  ASSUME SearchInv, Exhaust
  PROVE  SearchInv'
<1>1. visited \in SUBSET Task /\ added \subseteq visited /\ Closed(edges, visited)
  BY DEF SearchInv, TypeOK, Exhaust, Closed
<1>2. ~Reaches(edges, Task, added, taskId)
  BY <1>1 DEF Reaches, SearchInv
<1> QED BY <1>2 DEF SearchInv, TypeOK, SearchCorrect, Exhaust

LEMMA SearchInvInductive == Spec => []SearchInv
<1>1. SearchInv /\ UNCHANGED vars => SearchInv'
  BY DEF SearchInv, TypeOK, SearchCorrect, vars
<1>2. SearchInv /\ [Next]_vars => SearchInv'
  BY <1>1, VisitInv, ExhaustInv DEF Next
<1> QED BY <1>2, SearchInvInit, PTL DEF Spec

(* The answer of wouldCreateCycle is right for every board and every order in   *)
(* which its edges are returned.                                                *)
THEOREM SearchIsCorrect == Spec => []SearchCorrect
<1>1. SearchInv => SearchCorrect
  BY DEF SearchInv
<1> QED BY <1>1, SearchInvInductive, PTL

(* An update passes the check exactly when its edges leave the graph acyclic:   *)
(* DEPENDENCY_CYCLE is neither missed nor spurious.                             *)
THEOREM AnswerDecides == Spec => []AnswerDecidesAcyclicity
<1> DEFINE GraphInv == added \subseteq Task /\ Acyclic(edges, Task)
<1>1. Init => GraphInv
  BY DEF Init
<1>2. GraphInv /\ [Next]_vars => GraphInv'
  <2>1. [Next]_vars => UNCHANGED <<edges, added>>
    BY DEF Next, Visit, Exhaust, vars
  <2> QED BY <2>1
<1>3. SearchInv /\ GraphInv => AnswerDecidesAcyclicity
  BY AddPrerequisitesAcyclic, AddPrerequisitesCycle
  DEF SearchInv, TypeOK, SearchCorrect, AnswerDecidesAcyclicity
<1> HIDE DEF GraphInv
<1> QED BY <1>1, <1>2, <1>3, SearchInvInductive, PTL DEF Spec
=============================================================================
