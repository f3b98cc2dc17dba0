------------------------- MODULE RateLimiterProofs --------------------------
(***************************************************************************)
(* The in-memory limiter implements the ideal one, for every configuration *)
(* with positive rates and burst: lazily refilled, created on demand and   *)
(* evicted, its buckets have the levels of buckets that exist for ever.    *)
(***************************************************************************)
EXTENDS RateLimiter, TLAPS

LEMMA CapacityPositive ==
  Capacity \in Nat /\ Unit \in Nat /\ Unit > 0 /\ Unit <= Capacity
  BY BucketConstants DEF Capacity

(* Refills are proportional to the time they are for.                      *)
LEMMA RefillAmount ==
  ASSUME NEW rate \in Nat, NEW t \in Nat, NEW last \in Nat, last <= t
  PROVE  /\ (t - last) * rate \in Nat
         /\ ((t + 1) - last) * rate = (t - last) * rate + rate
  OBVIOUS

(* The level of a bucket is between empty and full.                        *)
LEMMA LevelRange ==
  ASSUME NEW b \in Bucket, NEW rate \in Nat, NEW t \in Nat, b.last <= t
  PROVE  LevelAt(b, rate, t) \in 0 .. Capacity
<1>1. b.tokens \in 0 .. Capacity /\ b.last \in Nat
  BY BucketConstants DEF Bucket, Times
<1>2. (t - b.last) * rate \in Nat
  BY <1>1, RefillAmount
<1>3. QED
  BY <1>1, <1>2, CapacityPositive DEF LevelAt, Capped

(* A tick raises the level of an untouched bucket by one refill: the lazy  *)
(* computation over the whole interval agrees with refilling every tick.   *)
LEMMA LevelOfTick ==
  ASSUME NEW b \in Bucket, NEW rate \in Nat, NEW t \in Nat, b.last <= t
  PROVE  LevelAt(b, rate, t + 1) = Capped(LevelAt(b, rate, t) + rate)
<1>1. b.tokens \in Nat /\ b.last \in Nat
  BY BucketConstants, CapacityPositive DEF Bucket, Times
<1>2. (t - b.last) * rate \in Nat /\ ((t + 1) - b.last) * rate = (t - b.last) * rate + rate
  BY <1>1, RefillAmount
<1>3. \A x, y \in Nat : Capped(x + y) = Capped(Capped(x) + y)
  BY CapacityPositive DEF Capped
<1>4. ASSUME NEW a \in Nat
      PROVE  Capped(b.tokens + (a + rate)) = Capped(Capped(b.tokens + a) + rate)
  <2>1. b.tokens + (a + rate) = (b.tokens + a) + rate /\ b.tokens + a \in Nat
    BY <1>1
  <2>2. QED
    BY <1>3, <2>1
<1>5. QED
  BY <1>2, <1>4 DEF LevelAt

(* Refilling does not change the level; a full bucket is full; taking a    *)
(* token lowers the level by one token.                                    *)
LEMMA BucketOperations ==
  ASSUME now \in Times, NEW b \in Bucket, NEW rate \in Nat, b.last <= now
  PROVE  /\ Refilled(b, rate) \in Bucket
         /\ Refilled(b, rate).last = now
         /\ Level(Refilled(b, rate), rate) = Level(b, rate)
         /\ HasToken(b, rate) => /\ Consumed(b, rate) \in Bucket
                                 /\ Consumed(b, rate).last = now
                                 /\ Level(Consumed(b, rate), rate) = Level(b, rate) - Unit
<1>1. now \in Nat
  BY BucketConstants DEF Times
<1>2. Level(b, rate) \in 0 .. Capacity
  BY <1>1, LevelRange DEF Level
<1>3. (now - now) * rate = 0
  BY <1>1
<1>4. Refilled(b, rate) \in Bucket /\ Refilled(b, rate).last = now
      /\ Refilled(b, rate).tokens = Level(b, rate)
  BY <1>2 DEF Refilled, Bucket
<1>5. Level(Refilled(b, rate), rate) = Level(b, rate)
  BY <1>2, <1>3, <1>4, CapacityPositive DEF Level, LevelAt, Capped
<1>6. ASSUME HasToken(b, rate)
      PROVE  /\ Consumed(b, rate) \in Bucket
             /\ Consumed(b, rate).last = now
             /\ Level(Consumed(b, rate), rate) = Level(b, rate) - Unit
  <2>1. Level(b, rate) - Unit \in 0 .. Capacity
    BY <1>2, <1>6, CapacityPositive DEF HasToken
  <2>2. Consumed(b, rate) = [tokens |-> Level(b, rate) - Unit, last |-> now]
    BY <1>4 DEF Consumed, Refilled
  <2>3. Level(Consumed(b, rate), rate) = Capped(Level(b, rate) - Unit)
    BY <1>3, <2>1, <2>2, CapacityPositive DEF Level, LevelAt
  <2>4. QED
    BY <2>1, <2>2, <2>3, CapacityPositive DEF Bucket, Capped
<1>7. QED
  BY <1>4, <1>5, <1>6

LEMMA FullLevel ==
  ASSUME now \in Times, NEW rate \in Nat
  PROVE  FullBucket \in Bucket /\ FullBucket.last = now /\ Level(FullBucket, rate) = Capacity
<1>1. now \in Nat /\ (now - now) * rate = 0
  BY BucketConstants DEF Times
<1>2. QED
  BY <1>1, CapacityPositive DEF FullBucket, Bucket, Level, LevelAt, Capped

(* Only full buckets are stale: this is why eviction cannot be observed.   *)
LEMMA StaleIsFull ==
  ASSUME now \in Times, NEW b \in Bucket, b.last <= now, Stale(b)
  PROVE  Level(b, ToolRate) = Capacity
<1>1. now \in Nat /\ b.tokens \in Nat /\ b.last \in Nat
  BY BucketConstants, CapacityPositive DEF Times, Bucket
<1>2. (now - b.last) * ToolRate \in Nat
  BY <1>1, RefillAmount, BucketConstants
<1>3. QED
  BY <1>1, <1>2, CapacityPositive DEF Stale, Level, LevelAt, Capped
-----------------------------------------------------------------------------
BucketsOK(buckets) ==
  /\ DOMAIN buckets \subseteq Keys
  /\ \A k \in DOMAIN buckets : buckets[k] \in Bucket /\ buckets[k].last <= now

(* The level a table of buckets gives to a pair.                           *)
LevelIn(buckets, k) ==
  IF k \in DOMAIN buckets THEN Level(buckets[k], ToolRate) ELSE Capacity

(* Looking a bucket up makes it present and changes no pair's level.       *)
LEMMA LookupInvisible ==
  ASSUME Inv, NEW key \in Keys
  PROVE  /\ BucketsOK(WithBucket(key))
         /\ key \in DOMAIN WithBucket(key)
         /\ \A k \in Keys : LevelIn(WithBucket(key), k) = LevelIn(toolBuckets, k)
<1>1. now \in Times /\ now \in Nat /\ ToolRate \in Nat /\ BucketsOK(toolBuckets)
  BY BucketConstants DEF Inv, TypeOK, RefillsPast, BucketsOK, Times
<1>2. CASE key \in DOMAIN toolBuckets
  BY <1>1, <1>2 DEF WithBucket
<1>3. CASE key \notin DOMAIN toolBuckets
  <2> DEFINE D == DOMAIN toolBuckets \cup {key}
             added == [k \in D |-> IF k = key THEN FullBucket ELSE toolBuckets[k]]
             kept == {k \in D : ~ Stale(added[k])}
             result_ == [k \in kept |-> added[k]]
  <2>1. WithBucket(key) = result_
    BY <1>3 DEF WithBucket, Restrict
  <2>2. ASSUME NEW k \in D
        PROVE  /\ added[k] \in Bucket /\ added[k].last <= now
               /\ Level(added[k], ToolRate) = LevelIn(toolBuckets, k)
    <3>1. CASE k = key
      BY <1>1, <1>3, <3>1, FullLevel DEF LevelIn
    <3>2. CASE k # key
      BY <1>1, <2>2, <3>2 DEF BucketsOK, LevelIn
    <3>3. QED
      BY <3>1, <3>2
  <2>3. ~ Stale(FullBucket)
    BY <1>1, CapacityPositive DEF FullBucket, Stale
  <2>4. key \in kept
    BY <2>3
  <2>5. ASSUME NEW k \in Keys PROVE LevelIn(result_, k) = LevelIn(toolBuckets, k)
    <3>1. CASE k \in kept
      BY <2>2, <3>1 DEF LevelIn
    <3>2. CASE k \in D /\ k \notin kept
      <4>1. Stale(added[k])
        BY <3>2
      <4>2. Level(added[k], ToolRate) = Capacity
        BY <1>1, <2>2, <3>2, <4>1, StaleIsFull
      <4>3. LevelIn(result_, k) = Capacity
        BY <3>2 DEF LevelIn
      <4>4. QED
        BY <2>2, <3>2, <4>2, <4>3
    <3>3. CASE k \notin D
      BY <3>3 DEF LevelIn
    <3>4. QED
      BY <3>1, <3>2, <3>3
  <2>6. BucketsOK(result_)
    BY <1>1, <2>2 DEF BucketsOK
  <2>7. QED
    BY <2>1, <2>4, <2>5, <2>6
<1>4. QED
  BY <1>2, <1>3

(* Storing a bucket under a key leaves the other pairs alone.              *)
LEMMA StoreBucket ==
  ASSUME NEW buckets, BucketsOK(buckets), NEW key \in DOMAIN buckets,
         NEW b \in Bucket, b.last = now, now \in Times
  PROVE  LET stored == [buckets EXCEPT ![key] = b]
         IN  /\ BucketsOK(stored)
             /\ LevelIn(stored, key) = Level(b, ToolRate)
             /\ \A k \in Keys \ {key} : LevelIn(stored, k) = LevelIn(buckets, k)
<1> DEFINE stored == [buckets EXCEPT ![key] = b]
<1>1. now <= now
  BY BucketConstants DEF Times
<1>2. DOMAIN stored = DOMAIN buckets /\ stored[key] = b
      /\ \A k \in DOMAIN buckets \ {key} : stored[k] = buckets[k]
  OBVIOUS
<1>3. BucketsOK(stored)
  BY <1>1, <1>2 DEF BucketsOK
<1>4. QED
  BY <1>2, <1>3 DEF LevelIn

(* What an answered request leaves behind is well formed.                  *)
LEMMA AnsweredInv ==
  ASSUME Inv, now' = now, globalBucket' \in Bucket, globalBucket'.last = now,
         BucketsOK(toolBuckets'), grantsSince' \in [Times -> Nat],
         keyGrants' \in [Keys -> [Times -> Nat]]
  PROVE  Inv'
<1>1. now \in Times /\ now <= now
  BY BucketConstants DEF Inv, TypeOK, Times
<1>2. TypeOK'
  BY <1>1 DEF TypeOK, BucketsOK, Times, Keys, Bucket, Capacity
<1>3. RefillsPast'
  BY <1>1 DEF RefillsPast, BucketsOK
<1>4. QED
  BY <1>2, <1>3 DEF Inv

(* Types, and no refill dated in the future (Init and every action).       *)
THEOREM LimiterTyped == Spec => []Inv
<1> USE BucketConstants, CapacityPositive
<1>1. Init => Inv
  BY DEF Init, Inv, TypeOK, RefillsPast, Times, NoGrants, Bucket
<1>2. Inv /\ [Next]_vars => Inv'
  <2> SUFFICES ASSUME Inv, [Next]_vars PROVE Inv'
    OBVIOUS
  <2>1. now \in Times /\ globalBucket \in Bucket /\ globalBucket.last <= now
        /\ GlobalRate \in Nat /\ ToolRate \in Nat
        /\ grantsSince \in [Times -> Nat] /\ keyGrants \in [Keys -> [Times -> Nat]]
    BY DEF Inv, TypeOK, RefillsPast
  <2>2. /\ Refilled(globalBucket, GlobalRate) \in Bucket
        /\ Refilled(globalBucket, GlobalRate).last = now
        /\ HasToken(globalBucket, GlobalRate) =>
             /\ Consumed(globalBucket, GlobalRate) \in Bucket
             /\ Consumed(globalBucket, GlobalRate).last = now
    BY <2>1, BucketOperations
  <2>3. CASE Tick
    <3>1. now' \in Times /\ now \in Nat /\ now' = now + 1
      BY <2>1, <2>3 DEF Tick, Times
    <3>2. TypeOK'
      BY <2>3, <3>1 DEF Tick, Inv, TypeOK, Times, Bucket, Keys, Capacity
    <3>3. \A last \in Nat : last <= now => last <= now'
      BY <3>1
    <3>4. \A b \in Bucket : b.last \in Nat
      BY DEF Bucket, Times
    <3>5. RefillsPast'
      BY <2>1, <2>3, <3>3, <3>4 DEF Tick, Inv, TypeOK, RefillsPast
    <3>6. QED
      BY <3>2, <3>5 DEF Inv
  <2>4. CASE Reset
    <3>1. NoGrants \in [Times -> Nat] /\ FullBucket \in Bucket /\ FullBucket.last = now
      BY <2>1, FullLevel DEF NoGrants
    <3>2. BucketsOK(toolBuckets')
      BY <2>4 DEF Reset, BucketsOK
    <3>3. QED
      BY <2>4, <3>1, <3>2, AnsweredInv DEF Reset
  <2>5. ASSUME NEW s \in Sessions, NEW t \in Tools, DenyGlobal(s, t) PROVE Inv'
    <3>1. BucketsOK(WithBucket(BucketKey(s, t)))
      BY LookupInvisible DEF BucketKey, Keys
    <3>2. QED
      BY <2>1, <2>2, <2>5, <3>1, AnsweredInv DEF DenyGlobal
  <2>6. ASSUME NEW s \in Sessions, NEW t \in Tools, DenyTool(s, t) PROVE Inv'
    <3> DEFINE key == BucketKey(s, t)
               buckets == WithBucket(key)
               b == Refilled(buckets[key], ToolRate)
    <3>1. BucketsOK(buckets) /\ key \in DOMAIN buckets
      BY LookupInvisible DEF BucketKey, Keys
    <3>2. b \in Bucket /\ b.last = now
      BY <2>1, <3>1, BucketOperations DEF BucketsOK
    <3>3. toolBuckets' = [buckets EXCEPT ![key] = b]
      BY <2>6 DEF DenyTool
    <3>4. BucketsOK(toolBuckets')
      BY <2>1, <3>1, <3>2, <3>3, StoreBucket
    <3>5. QED
      BY <2>1, <2>2, <2>6, <3>4, AnsweredInv DEF DenyTool
  <2>7. ASSUME NEW s \in Sessions, NEW t \in Tools, Allow(s, t) PROVE Inv'
    <3> DEFINE key == BucketKey(s, t)
               buckets == WithBucket(key)
               b == Consumed(buckets[key], ToolRate)
    <3>1. BucketsOK(buckets) /\ key \in DOMAIN buckets
      BY LookupInvisible DEF BucketKey, Keys
    <3>2. b \in Bucket /\ b.last = now
      BY <2>1, <2>7, <3>1, BucketOperations DEF BucketsOK, Allow
    <3>3. toolBuckets' = [buckets EXCEPT ![key] = b]
      BY <2>7 DEF Allow
    <3>4. BucketsOK(toolBuckets')
      BY <2>1, <3>1, <3>2, <3>3, StoreBucket
    <3>5. \A g \in [Times -> Nat] : CountedAt(now, g) \in [Times -> Nat]
      BY DEF CountedAt
    <3>6. grantsSince' \in [Times -> Nat] /\ keyGrants' \in [Keys -> [Times -> Nat]]
      BY <2>1, <2>7, <3>5 DEF Allow
    <3>7. QED
      BY <2>1, <2>2, <2>7, <3>4, <3>6, AnsweredInv DEF Allow
  <2>8. CASE UNCHANGED vars
    BY <2>8 DEF vars, Inv, TypeOK, RefillsPast
  <2>9. QED
    BY <2>3, <2>4, <2>5, <2>6, <2>7, <2>8 DEF Next, Check
<1>3. QED
  BY <1>1, <1>2, PTL DEF Spec
-----------------------------------------------------------------------------
(* While the clock stands still, the levels are those of the new buckets.  *)
LEMMA LevelsOfBuckets ==
  /\ ToolLevel = [k \in Keys |-> LevelIn(toolBuckets, k)]
  /\ now' = now => /\ GlobalLevel' = Level(globalBucket', GlobalRate)
                   /\ ToolLevel' = [k \in Keys |-> LevelIn(toolBuckets', k)]
  BY DEF ToolLevel, GlobalLevel, LevelIn, Level, LevelAt, Capped, Keys, Capacity

(* A denied request changes no level.                                      *)
LEMMA DenialKeepsLevels ==
  ASSUME Inv, NEW s \in Sessions, NEW t \in Tools, DenyGlobal(s, t) \/ DenyTool(s, t)
  PROVE  GlobalLevel' = GlobalLevel /\ ToolLevel' = ToolLevel
<1> DEFINE key == BucketKey(s, t)
           buckets == WithBucket(key)
           b == Refilled(buckets[key], ToolRate)
<1>1. now \in Times /\ globalBucket \in Bucket /\ globalBucket.last <= now
      /\ GlobalRate \in Nat /\ ToolRate \in Nat /\ key \in Keys
  BY BucketConstants DEF Inv, TypeOK, RefillsPast, BucketKey, Keys
<1>2. BucketsOK(buckets) /\ key \in DOMAIN buckets
      /\ \A k \in Keys : LevelIn(buckets, k) = LevelIn(toolBuckets, k)
  BY <1>1, LookupInvisible
<1>3. now' = now /\ globalBucket' = Refilled(globalBucket, GlobalRate)
  BY DEF DenyGlobal, DenyTool
<1>4. GlobalLevel' = GlobalLevel
  BY <1>1, <1>3, BucketOperations, LevelsOfBuckets DEF GlobalLevel
<1>5. \A k \in Keys : LevelIn(toolBuckets', k) = LevelIn(toolBuckets, k)
  <2>1. CASE DenyGlobal(s, t)
    BY <1>2, <2>1 DEF DenyGlobal
  <2>2. CASE DenyTool(s, t)
    <3>1. b \in Bucket /\ b.last = now /\ Level(b, ToolRate) = Level(buckets[key], ToolRate)
      BY <1>1, <1>2, BucketOperations DEF BucketsOK
    <3>2. toolBuckets' = [buckets EXCEPT ![key] = b]
      BY <2>2 DEF DenyTool
    <3>3. LevelIn(buckets, key) = Level(buckets[key], ToolRate)
      BY <1>2 DEF LevelIn
    <3>4. LevelIn(toolBuckets', key) = LevelIn(buckets, key)
          /\ \A k \in Keys \ {key} : LevelIn(toolBuckets', k) = LevelIn(buckets, k)
      BY <1>1, <1>2, <3>1, <3>2, <3>3, StoreBucket
    <3>5. QED
      BY <1>2, <3>4
  <2>3. QED
    BY <2>1, <2>2
<1>6. QED
  BY <1>3, <1>4, <1>5, LevelsOfBuckets

(* An allowed request costs one token in each of its two buckets.          *)
LEMMA AllowTakesOne ==
  ASSUME Inv, NEW s \in Sessions, NEW t \in Tools, Allow(s, t)
  PROVE  /\ GlobalLevel >= Unit /\ GlobalLevel' = GlobalLevel - Unit
         /\ ToolLevel[<<s, t>>] >= Unit
         /\ ToolLevel' = [ToolLevel EXCEPT ![<<s, t>>] = @ - Unit]
<1> DEFINE key == BucketKey(s, t)
           buckets == WithBucket(key)
           b == Consumed(buckets[key], ToolRate)
<1>1. now \in Times /\ globalBucket \in Bucket /\ globalBucket.last <= now
      /\ GlobalRate \in Nat /\ ToolRate \in Nat /\ key \in Keys /\ key = <<s, t>>
  BY BucketConstants DEF Inv, TypeOK, RefillsPast, BucketKey, Keys
<1>2. BucketsOK(buckets) /\ key \in DOMAIN buckets
      /\ \A k \in Keys : LevelIn(buckets, k) = LevelIn(toolBuckets, k)
  BY <1>1, LookupInvisible
<1>3. now' = now /\ globalBucket' = Consumed(globalBucket, GlobalRate)
      /\ HasToken(globalBucket, GlobalRate) /\ HasToken(buckets[key], ToolRate)
      /\ toolBuckets' = [buckets EXCEPT ![key] = b]
  BY DEF Allow
<1>4. GlobalLevel >= Unit /\ GlobalLevel' = GlobalLevel - Unit
  BY <1>1, <1>3, BucketOperations, LevelsOfBuckets DEF GlobalLevel, HasToken
<1>5. b \in Bucket /\ b.last = now /\ Level(b, ToolRate) = Level(buckets[key], ToolRate) - Unit
  BY <1>1, <1>2, <1>3, BucketOperations DEF BucketsOK
<1>6. LevelIn(buckets, key) = Level(buckets[key], ToolRate)
  BY <1>2 DEF LevelIn
<1>7. LevelIn(toolBuckets', key) = LevelIn(toolBuckets, key) - Unit
      /\ \A k \in Keys \ {key} : LevelIn(toolBuckets', k) = LevelIn(toolBuckets, k)
  BY <1>1, <1>2, <1>3, <1>5, <1>6, StoreBucket
<1>8. LevelIn(toolBuckets, key) >= Unit
  BY <1>1, <1>2, <1>3, <1>6 DEF HasToken
<1>9. QED
  BY <1>1, <1>3, <1>4, <1>7, <1>8, LevelsOfBuckets

(* Every step of the limiter is a step of the ideal one, or none of its    *)
(* levels moves.                                                           *)
LEMMA StepImplements ==
  ASSUME Inv, [Next]_vars
  PROVE  [Ideal!Next]_Ideal!vars
<1> USE DEF Ideal!vars, Ideal!Next
<1>1. CASE Tick
  <2>1. now \in Nat /\ globalBucket \in Bucket /\ globalBucket.last <= now
        /\ GlobalRate \in Nat /\ ToolRate \in Nat /\ BucketsOK(toolBuckets)
    BY BucketConstants DEF Inv, TypeOK, RefillsPast, Times, BucketsOK
  <2>2. now < MaxTime /\ now' = now + 1 /\ globalBucket' = globalBucket
        /\ toolBuckets' = toolBuckets /\ UNCHANGED <<grantsSince, keyGrants>>
    BY <1>1 DEF Tick
  <2>3. GlobalLevel' = Capped(GlobalLevel + GlobalRate)
    <3>1. GlobalLevel' = LevelAt(globalBucket, GlobalRate, now + 1)
      BY <2>2 DEF GlobalLevel, Level, LevelAt, Capped, Capacity
    <3>2. QED
      BY <2>1, <3>1, LevelOfTick DEF GlobalLevel, Level
  <2>4. ToolLevel' = [k \in Keys |-> Capped(ToolLevel[k] + ToolRate)]
    <3>1. ToolLevel' = [k \in Keys |-> IF k \in DOMAIN toolBuckets
                                       THEN LevelAt(toolBuckets[k], ToolRate, now + 1)
                                       ELSE Capacity]
      BY <2>2 DEF ToolLevel, Level, LevelAt, Capped, Capacity, Keys
    <3>2. ASSUME NEW k \in DOMAIN toolBuckets
          PROVE  LevelAt(toolBuckets[k], ToolRate, now + 1)
                   = Capped(Level(toolBuckets[k], ToolRate) + ToolRate)
      BY <2>1, LevelOfTick DEF BucketsOK, Level
    <3>3. Capped(Capacity + ToolRate) = Capacity
      BY <2>1, CapacityPositive, BucketConstants DEF Capped
    <3>4. QED
      BY <3>1, <3>2, <3>3 DEF ToolLevel
  <2>5. Ideal!Tick
    BY <2>2, <2>3, <2>4 DEF Ideal!Tick, Ideal!Capped, Ideal!Capacity, Ideal!Keys,
                            Capped, Capacity, Keys
  <2>6. QED
    BY <2>5
<1>2. CASE Reset
  <2>1. GlobalLevel' = Capacity
    BY <1>2, FullLevel, LevelsOfBuckets, BucketConstants DEF Reset, Inv, TypeOK
  <2>2. ToolLevel' = [k \in Keys |-> Capacity]
    BY <1>2, LevelsOfBuckets DEF Reset, LevelIn
  <2>3. Ideal!Reset
    BY <1>2, <2>1, <2>2 DEF Reset, Ideal!Reset, Ideal!NoGrants, NoGrants, Ideal!Times, Times,
                            Ideal!Capacity, Capacity, Ideal!Keys, Keys
  <2>4. QED
    BY <2>3
<1>3. ASSUME NEW s \in Sessions, NEW t \in Tools, DenyGlobal(s, t) \/ DenyTool(s, t)
      PROVE  UNCHANGED Ideal!vars
  BY <1>3, DenialKeepsLevels DEF DenyGlobal, DenyTool
<1>4. ASSUME NEW s \in Sessions, NEW t \in Tools, Allow(s, t)
      PROVE  Ideal!Next
  <2>1. Ideal!Allow(<<s, t>>)
    BY <1>4, AllowTakesOne DEF Allow, Ideal!Allow, Ideal!CountedAt, CountedAt, Ideal!Times, Times
  <2>2. <<s, t>> \in Ideal!Keys
    BY DEF Ideal!Keys
  <2>3. QED
    BY <2>1, <2>2
<1>5. CASE UNCHANGED vars
  BY <1>5 DEF vars, GlobalLevel, ToolLevel, Level, LevelAt, Capped, Capacity, Keys
<1>6. QED
  BY <1>1, <1>2, <1>3, <1>4, <1>5 DEF Next, Check

(* The limiter implements the ideal limiter.                               *)
THEOREM LimiterImplements == Spec => ImplementsTokenBuckets
<1>1. Init => Ideal!Init
  <2> SUFFICES ASSUME Init PROVE Ideal!Init
    OBVIOUS
  <2>1. now = 0 /\ globalBucket = [tokens |-> Capacity, last |-> 0] /\ toolBuckets = << >>
    BY DEF Init
  <2>2. GlobalLevel = Capacity
    BY <2>1, BucketConstants, CapacityPositive DEF GlobalLevel, Level, LevelAt, Capped
  <2>3. ToolLevel = [k \in Keys |-> Capacity]
    BY <2>1 DEF ToolLevel
  <2>4. QED
    BY <2>2, <2>3 DEF Init, Ideal!Init, Ideal!NoGrants, NoGrants, Ideal!Times, Times,
                      Ideal!Capacity, Capacity, Ideal!Keys, Keys
<1>2. Inv /\ [Next]_vars => [Ideal!Next]_Ideal!vars
  BY StepImplements
<1>3. QED
  BY <1>1, <1>2, LimiterTyped, PTL DEF Spec, ImplementsTokenBuckets, Ideal!Spec

(* A denied request costs nothing, in any bucket.                          *)
THEOREM DenialsAreFree == Spec => DenialIsFree
<1>1. ASSUME Inv, [Next]_vars, UNCHANGED vars \/ now' = now, result'.verdict \in {"global", "tool"}
      PROVE  GlobalLevel' = GlobalLevel /\ ToolLevel' = ToolLevel
  <2>1. CASE UNCHANGED vars
    BY <2>1 DEF vars, GlobalLevel, ToolLevel, Level, LevelAt, Capped, Capacity, Keys
  <2>2. ASSUME NEW s \in Sessions, NEW t \in Tools, DenyGlobal(s, t) \/ DenyTool(s, t)
        PROVE  GlobalLevel' = GlobalLevel /\ ToolLevel' = ToolLevel
    BY <1>1, <2>2, DenialKeepsLevels
  <2>3. ASSUME NEW s \in Sessions, NEW t \in Tools, Allow(s, t) PROVE FALSE
    BY <1>1, <2>3 DEF Allow, Answered
  <2>4. CASE Tick
    BY <1>1, <2>4, BucketConstants DEF Tick, Inv, TypeOK, Times, vars
  <2>5. CASE Reset
    <3>1. result' = NoAnswer
      BY <2>5 DEF Reset
    <3>2. result'.verdict = "none"
      BY <3>1 DEF NoAnswer
    <3>3. QED
      BY <1>1, <3>2
  <2>6. QED
    BY <1>1, <2>1, <2>2, <2>3, <2>4, <2>5 DEF Next, Check
<1>2. Inv /\ [Next]_vars =>
        [result'.verdict \in {"global", "tool"} /\ now' = now
           => GlobalLevel' = GlobalLevel /\ ToolLevel' = ToolLevel]_vars
  BY <1>1
<1>3. QED
  BY <1>2, LimiterTyped, PTL DEF Spec, DenialIsFree

(* A request changes the level of no other pair.                           *)
THEOREM QuotasIsolated == Spec => QuotaIsolation
<1>1. ASSUME Inv, NEW s \in Sessions, NEW t \in Tools, Check(s, t)
      PROVE  \A k \in Keys \ {<<s, t>>} : ToolLevel'[k] = ToolLevel[k]
  <2>1. CASE DenyGlobal(s, t) \/ DenyTool(s, t)
    BY <1>1, <2>1, DenialKeepsLevels
  <2>2. CASE Allow(s, t)
    <3>1. ToolLevel' = [ToolLevel EXCEPT ![<<s, t>>] = @ - Unit]
      BY <1>1, <2>2, AllowTakesOne
    <3>2. DOMAIN ToolLevel = Keys
      BY DEF ToolLevel
    <3>3. QED
      BY <3>1, <3>2
  <2>3. QED
    BY <1>1, <2>1, <2>2 DEF Check
<1>2. Inv => [\A s \in Sessions, t \in Tools :
                Check(s, t) => \A k \in Keys \ {<<s, t>>} : ToolLevel'[k] = ToolLevel[k]]_vars
  BY <1>1
<1>3. QED
  BY <1>2, LimiterTyped, PTL DEF Spec, QuotaIsolation

(* The bound on every window carries over from the ideal limiter.          *)
IdealProofs == INSTANCE TokenBucketsProofs
  WITH globalLevel <- GlobalLevel, toolLevel <- ToolLevel

THEOREM WindowsBounded == Spec => []WindowBound
<1>1. Ideal!Spec => []Ideal!WindowBound
  <2>1. IdealProofs!Spec => []IdealProofs!WindowBound
    BY IdealProofs!WindowsBounded, BucketConstants DEF IdealProofs!BucketConstants
  <2>2. Ideal!Init <=> IdealProofs!Init
    BY DEF Ideal!Init, IdealProofs!Init, Ideal!NoGrants, IdealProofs!NoGrants, Ideal!Times,
           IdealProofs!Times, Ideal!Capacity, IdealProofs!Capacity, Ideal!Keys, IdealProofs!Keys
  <2>3. [Ideal!Next]_Ideal!vars <=> [IdealProofs!Next]_IdealProofs!vars
    BY DEF Ideal!Next, IdealProofs!Next, Ideal!vars, IdealProofs!vars, Ideal!Tick,
           IdealProofs!Tick, Ideal!Reset, IdealProofs!Reset, Ideal!Allow, IdealProofs!Allow,
           Ideal!Capped, IdealProofs!Capped, Ideal!CountedAt, IdealProofs!CountedAt,
           Ideal!NoGrants, IdealProofs!NoGrants, Ideal!Times, IdealProofs!Times,
           Ideal!Capacity, IdealProofs!Capacity, Ideal!Keys, IdealProofs!Keys
  <2>4. Ideal!WindowBound <=> IdealProofs!WindowBound
    BY DEF Ideal!WindowBound, IdealProofs!WindowBound, Ideal!Capacity, IdealProofs!Capacity,
           Ideal!Keys, IdealProofs!Keys
  <2>5. QED
    BY <2>1, <2>2, <2>3, <2>4, PTL DEF Ideal!Spec, IdealProofs!Spec
<1>2. QED
  BY <1>1, LimiterImplements, PTL DEF ImplementsTokenBuckets, WindowBound
-----------------------------------------------------------------------------
(* The announced wait: what is missing to one token, rounded up to whole   *)
(* ticks, is refilled from that tick on and not before.                    *)
LEMMA RoundedUp ==
  ASSUME NEW rate \in Nat, rate > 0, NEW missing \in Nat, NEW n \in Nat
  PROVE  n * rate >= missing <=> n >= (missing + rate - 1) \div rate
<1> DEFINE a == missing + rate - 1
           w == a \div rate
<1>1. a \in Nat /\ w \in Int
  OBVIOUS
<1>2. w * rate <= a /\ a < w * rate + rate
  <2>1. a = rate * w + (a % rate) /\ (a % rate) \in 0 .. rate - 1
    BY <1>1
  <2> HIDE DEF w, a
  <2>2. rate * w = w * rate
    BY <1>1
  <2> QED
    BY <1>1, <2>1, <2>2
<1> HIDE DEF w
<1>3. CASE n >= w
  <2>1. n = w + (n - w) /\ n - w \in Nat
    BY <1>1, <1>3
  <2>2. n * rate = w * rate + (n - w) * rate /\ (n - w) * rate \in Nat
    BY <1>1, <2>1
  <2>3. w * rate \in Int /\ n * rate \in Int
    BY <1>1
  <2> QED
    BY <1>2, <1>3, <2>2, <2>3 DEF w
<1>4. CASE n < w
  <2>1. w - n - 1 \in Nat
    BY <1>1, <1>4
  <2>2. w * rate = n * rate + rate + (w - n - 1) * rate /\ (w - n - 1) * rate \in Nat
    BY <1>1, <2>1
  <2>3. w * rate \in Int /\ n * rate \in Int
    BY <1>1
  <2> QED
    BY <1>2, <1>4, <2>2, <2>3 DEF w
<1>5. QED
  BY <1>1, <1>3, <1>4

(* The bucket that denied has not been touched since: it was refilled when *)
(* the answer was given, was short of a token then, and is still there.    *)
Denied(b, rate) ==
  /\ b.last = result.at
  /\ b.tokens < Unit
  /\ result.wait = (Unit - b.tokens + rate - 1) \div rate

RetryInv ==
  /\ result.verdict = "global" => Denied(globalBucket, GlobalRate)
  /\ result.verdict = "tool" =>
       /\ result.key \in DOMAIN toolBuckets
       /\ Denied(toolBuckets[result.key], ToolRate)

LEMMA DeniedUntilRetry ==
  ASSUME now \in Times, NEW rate \in Nat, rate > 0, NEW b \in Bucket, b.last <= now,
         Denied(b, rate)
  PROVE  Level(b, rate) >= Unit <=> now >= result.at + result.wait
<1>1. now \in Nat /\ b.last \in Nat /\ b.tokens \in Nat /\ Unit - b.tokens \in Nat
  BY BucketConstants, CapacityPositive DEF Times, Bucket, Denied
<1> DEFINE n == now - b.last
           missing == Unit - b.tokens
<1>2. n \in Nat /\ n * rate \in Nat /\ missing \in Nat
  BY <1>1, RefillAmount
<1>3. Level(b, rate) = Capped(b.tokens + n * rate)
  BY DEF Level, LevelAt
<1>4. result.at = b.last /\ result.wait = (missing + rate - 1) \div rate
  BY DEF Denied
<1>5. result.wait \in Int
  BY <1>1, <1>4
<1>6. n * rate >= missing <=> n >= result.wait
  BY <1>2, <1>4, RoundedUp
<1> HIDE DEF n
<1>7. Level(b, rate) >= Unit <=> n * rate >= missing
  BY <1>1, <1>2, <1>3, CapacityPositive DEF Capped
<1>8. n >= result.wait <=> now >= result.at + result.wait
  BY <1>1, <1>4, <1>5 DEF n
<1>9. QED
  BY <1>6, <1>7, <1>8

LEMMA DeniedNow ==
  ASSUME now \in Times, NEW b \in Bucket, NEW rate \in Nat, rate > 0, b.last <= now,
         ~ HasToken(b, rate), NEW key, NEW verdict,
         result' = Answered(key, verdict, RetryAfter(b, rate))
  PROVE  /\ Refilled(b, rate).last = result'.at
         /\ Refilled(b, rate).tokens < Unit
         /\ result'.wait = (Unit - Refilled(b, rate).tokens + rate - 1) \div rate
<1>1. Level(b, rate) \in Nat
  BY LevelRange, BucketConstants, CapacityPositive DEF Level, Times
<1>2. QED
  BY <1>1, BucketConstants DEF Refilled, RetryAfter, Answered, HasToken

LEMMA StepRetry == Inv /\ RetryInv /\ [Next]_vars => RetryInv'
<1> USE BucketConstants
<1> SUFFICES ASSUME Inv, RetryInv, [Next]_vars PROVE RetryInv'
  OBVIOUS
<1>1. now \in Times /\ globalBucket \in Bucket /\ globalBucket.last <= now
  BY DEF Inv, TypeOK, RefillsPast
<1>2. CASE Tick \/ UNCHANGED vars
  BY <1>2 DEF Tick, vars, RetryInv, Denied
<1>3. CASE Reset
  BY <1>3 DEF Reset, NoAnswer, RetryInv
<1>4. ASSUME NEW s \in Sessions, NEW t \in Tools, DenyGlobal(s, t) PROVE RetryInv'
  <2>1. /\ globalBucket' = Refilled(globalBucket, GlobalRate)
        /\ result' = Answered(BucketKey(s, t), "global", RetryAfter(globalBucket, GlobalRate))
        /\ ~ HasToken(globalBucket, GlobalRate)
    BY <1>4 DEF DenyGlobal
  <2>2. Denied(globalBucket, GlobalRate)'
    BY <1>1, <2>1, DeniedNow DEF Denied
  <2>3. result'.verdict = "global"
    BY <2>1 DEF Answered
  <2>4. QED
    BY <2>2, <2>3 DEF RetryInv
<1>5. ASSUME NEW s \in Sessions, NEW t \in Tools, DenyTool(s, t) PROVE RetryInv'
  <2> DEFINE key == BucketKey(s, t)
             buckets == WithBucket(key)
             b == buckets[key]
  <2>1. BucketsOK(buckets) /\ key \in DOMAIN buckets
    BY LookupInvisible DEF BucketKey, Keys
  <2>2. b \in Bucket /\ b.last <= now
    BY <2>1 DEF BucketsOK
  <2>3. /\ toolBuckets' = [buckets EXCEPT ![key] = Refilled(b, ToolRate)]
        /\ result' = Answered(key, "tool", RetryAfter(b, ToolRate))
        /\ ~ HasToken(b, ToolRate)
    BY <1>5 DEF DenyTool
  <2>4. result'.verdict = "tool" /\ result'.key = key
    BY <2>3 DEF Answered
  <2>5. key \in DOMAIN toolBuckets' /\ toolBuckets'[key] = Refilled(b, ToolRate)
    BY <2>1, <2>3
  <2> HIDE DEF b, buckets, key
  <2>6. /\ Refilled(b, ToolRate).last = result'.at
        /\ Refilled(b, ToolRate).tokens < Unit
        /\ result'.wait = (Unit - Refilled(b, ToolRate).tokens + ToolRate - 1) \div ToolRate
    BY <1>1, <2>2, <2>3, DeniedNow
  <2>7. QED
    BY <2>4, <2>5, <2>6 DEF RetryInv, Denied
<1>6. ASSUME NEW s \in Sessions, NEW t \in Tools, Allow(s, t) PROVE RetryInv'
  BY <1>6 DEF Allow, Answered, RetryInv
<1>7. QED
  BY <1>2, <1>3, <1>4, <1>5, <1>6 DEF Next, Check

(* A denied client that waits as long as it is told finds a token, and     *)
(* would not have found one earlier, for every rate and burst size.        *)
THEOREM RetryAfterIsExact == Spec => []RetryAfterExact
<1>1. Init => RetryInv
  BY DEF Init, NoAnswer, RetryInv
<1>2. Inv /\ RetryInv => RetryAfterExact
  <2> SUFFICES ASSUME Inv, RetryInv PROVE RetryAfterExact
    OBVIOUS
  <2> USE BucketConstants
  <2>1. now \in Times /\ globalBucket \in Bucket /\ globalBucket.last <= now
        /\ GlobalRate \in Nat /\ GlobalRate > 0 /\ ToolRate \in Nat /\ ToolRate > 0
    BY DEF Inv, TypeOK, RefillsPast
  <2>2. CASE result.verdict = "global"
    <3>1. GlobalLevel >= Unit <=> now >= result.at + result.wait
      BY <2>1, <2>2, DeniedUntilRetry DEF RetryInv, GlobalLevel
    <3>2. QED
      BY <2>2, <3>1 DEF RetryAfterExact, DenyingLevel
  <2>3. CASE result.verdict = "tool"
    <3> DEFINE b == toolBuckets[result.key]
    <3>1. b \in Bucket /\ b.last <= now /\ Denied(b, ToolRate) /\ result.key \in Keys
      BY <2>3 DEF Inv, TypeOK, RefillsPast, RetryInv
    <3>2. ToolLevel[result.key] = Level(b, ToolRate)
      BY <2>3, <3>1 DEF RetryInv, ToolLevel
    <3>3. Level(b, ToolRate) >= Unit <=> now >= result.at + result.wait
      BY <2>1, <3>1, DeniedUntilRetry
    <3>4. QED
      BY <2>3, <3>2, <3>3 DEF RetryAfterExact, DenyingLevel
  <2>4. QED
    BY <2>2, <2>3 DEF RetryAfterExact
<1>3. QED
  BY <1>1, <1>2, StepRetry, LimiterTyped, PTL DEF Spec
=============================================================================
