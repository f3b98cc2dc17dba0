---------------------------- MODULE RateLimiter -----------------------------
(***************************************************************************)
(* The in-memory rate limiter: security/rate_limiter.py.                   *)
(*                                                                         *)
(* RateLimiter.check is synchronous, so one call is one atomic step of the *)
(* event loop.  A bucket stores the tokens it had at its last refill; a    *)
(* per-(session, tool) bucket is created full by the first request for the *)
(* pair, and creating one evicts every bucket that has had time to fill.   *)
(***************************************************************************)
EXTENDS BucketParameters, Functions

VARIABLES
  now,          \* time.monotonic(), in ticks
  globalBucket, \* RateLimiter._global_bucket
  toolBuckets,  \* RateLimiter._tool_buckets: a function on the keys present
  result,       \* the last RateLimitResult and the request it answered
  grantsSince,  \* history, as in TokenBuckets
  keyGrants     \* history, as in TokenBuckets

vars == <<now, globalBucket, toolBuckets, result, grantsSince, keyGrants>>

Bucket == [tokens : 0 .. Capacity, last : Times]
FullBucket == [tokens |-> Capacity, last |-> now]

(* A seeded fault: a refill that may overflow the bucket.                  *)
LevelAtUncapped(b, rate, t) == b.tokens + (t - b.last) * rate

(* What a bucket last refilled at b.last holds once it is refilled at t.   *)
LevelAt(b, rate, t) == Capped(b.tokens + (t - b.last) * rate)
Level(b, rate) == LevelAt(b, rate, now)

(* A seeded fault: a refill that does not move last_refill.                *)
RefilledUndated(b, rate) == [b EXCEPT !.tokens = Level(b, rate)]

(* _refill(): the level becomes the stored count, dated now.               *)
Refilled(b, rate) == [tokens |-> Level(b, rate), last |-> now]

HasToken(b, rate) == Level(b, rate) >= Unit

(* consume(), on a bucket that was just refilled.                          *)
Consumed(b, rate) == [Refilled(b, rate) EXCEPT !.tokens = @ - Unit]

(* A seeded fault: the wait until the bucket is full.                      *)
RetryAfterFromFull(b, rate) == (Capacity - Level(b, rate) + rate - 1) \div rate

(* retry_after() of a refilled bucket, rounded up to a whole tick.         *)
RetryAfter(b, rate) == (Unit - Level(b, rate) + rate - 1) \div rate

(* A seeded fault: one bucket per tool for all sessions.                   *)
SharedKey(session, tool) == <<CHOOSE s \in Sessions : TRUE, tool>>

(* Each session has its own bucket for a tool.                             *)
BucketKey(session, tool) == <<session, tool>>

(* A seeded fault: a bucket evicted once it has gained a token.            *)
StaleTooSoon(b) == (now - b.last) * ToolRate > Unit

(* A bucket is stale when the time since its last refill exceeds           *)
(* capacity / refill_rate.                                                 *)
Stale(b) == (now - b.last) * ToolRate > Capacity

(* The buckets after the lookup of key: a missing one is added full, and   *)
(* only then are the stale ones dropped.                                   *)
WithBucket(key) ==
  IF key \in DOMAIN toolBuckets
  THEN toolBuckets
  ELSE LET added == [k \in DOMAIN toolBuckets \cup {key} |->
                       IF k = key THEN FullBucket ELSE toolBuckets[k]]
       IN  Restrict(added, {k \in DOMAIN added : ~ Stale(added[k])})

Answered(key, verdict, wait) == [key |-> key, verdict |-> verdict, wait |-> wait, at |-> now]
NoAnswer == [verdict |-> "none"]
-----------------------------------------------------------------------------
Init ==
  /\ now = 0
  /\ globalBucket = [tokens |-> Capacity, last |-> 0]
  /\ toolBuckets = << >>
  /\ result = NoAnswer
  /\ grantsSince = NoGrants
  /\ keyGrants = [k \in Keys |-> NoGrants]

Tick ==
  /\ now < MaxTime
  /\ now' = now + 1
  /\ UNCHANGED <<globalBucket, toolBuckets, result, grantsSince, keyGrants>>

(* The global bucket is empty: it has been refilled, the tool's bucket is  *)
(* not looked at.                                                          *)
DenyGlobal(session, tool) ==
  LET key == BucketKey(session, tool)
  IN  /\ ~ HasToken(globalBucket, GlobalRate)
      /\ globalBucket' = Refilled(globalBucket, GlobalRate)
      /\ toolBuckets' = WithBucket(key)
      /\ result' = Answered(key, "global", RetryAfter(globalBucket, GlobalRate))
      /\ UNCHANGED <<now, grantsSince, keyGrants>>

(* A seeded fault: charged before the other bucket is looked at.           *)
DenyToolCharging(session, tool) ==
  LET key == BucketKey(session, tool)
      buckets == WithBucket(key)
  IN  /\ HasToken(globalBucket, GlobalRate)
      /\ ~ HasToken(buckets[key], ToolRate)
      /\ globalBucket' = Consumed(globalBucket, GlobalRate)
      /\ toolBuckets' = [buckets EXCEPT ![key] = Refilled(@, ToolRate)]
      /\ result' = Answered(key, "tool", RetryAfter(buckets[key], ToolRate))
      /\ UNCHANGED <<now, grantsSince, keyGrants>>

(* The tool's bucket is empty: both have been refilled, none is charged.   *)
DenyTool(session, tool) ==
  LET key == BucketKey(session, tool)
      buckets == WithBucket(key)
  IN  /\ HasToken(globalBucket, GlobalRate)
      /\ ~ HasToken(buckets[key], ToolRate)
      /\ globalBucket' = Refilled(globalBucket, GlobalRate)
      /\ toolBuckets' = [buckets EXCEPT ![key] = Refilled(@, ToolRate)]
      /\ result' = Answered(key, "tool", RetryAfter(buckets[key], ToolRate))
      /\ UNCHANGED <<now, grantsSince, keyGrants>>

(* Both buckets have a token: one is taken from each.                      *)
Allow(session, tool) ==
  LET key == BucketKey(session, tool)
      buckets == WithBucket(key)
  IN  /\ HasToken(globalBucket, GlobalRate)
      /\ HasToken(buckets[key], ToolRate)
      /\ globalBucket' = Consumed(globalBucket, GlobalRate)
      /\ toolBuckets' = [buckets EXCEPT ![key] = Consumed(@, ToolRate)]
      /\ result' = Answered(key, "allowed", 0)
      /\ grantsSince' = CountedAt(now, grantsSince)
      /\ keyGrants' = [keyGrants EXCEPT ![<<session, tool>>] = CountedAt(now, @)]
      /\ UNCHANGED now

(* reset(): the global bucket is filled, the others are forgotten.         *)
Reset ==
  /\ globalBucket' = FullBucket
  /\ toolBuckets' = << >>
  /\ result' = NoAnswer
  /\ grantsSince' = NoGrants
  /\ keyGrants' = [k \in Keys |-> NoGrants]
  /\ UNCHANGED now

Check(session, tool) ==
  DenyGlobal(session, tool) \/ DenyTool(session, tool) \/ Allow(session, tool)

Next == Tick \/ Reset \/ \E s \in Sessions, t \in Tools : Check(s, t)

Spec == Init /\ [][Next]_vars
-----------------------------------------------------------------------------
TypeOK ==
  /\ now \in Times
  /\ globalBucket \in Bucket
  /\ DOMAIN toolBuckets \subseteq Keys
  /\ \A k \in DOMAIN toolBuckets : toolBuckets[k] \in Bucket
  /\ grantsSince \in [Times -> Nat]
  /\ keyGrants \in [Keys -> [Times -> Nat]]

(* A refill never predates the clock, so no refill has a negative amount.  *)
RefillsPast ==
  /\ globalBucket.last <= now
  /\ \A k \in DOMAIN toolBuckets : toolBuckets[k].last <= now

(* The inductive invariant of the limiter's own state.                     *)
Inv == TypeOK /\ RefillsPast

(* A pair without a bucket behaves as one whose bucket is full.            *)
GlobalLevel == Level(globalBucket, GlobalRate)
ToolLevel ==
  [k \in Keys |-> IF k \in DOMAIN toolBuckets THEN Level(toolBuckets[k], ToolRate)
                                              ELSE Capacity]

Ideal == INSTANCE TokenBuckets WITH globalLevel <- GlobalLevel, toolLevel <- ToolLevel

(* Creating buckets on demand, refilling them lazily and evicting them is  *)
(* unobservable: the limiter implements one bucket per pair that exists    *)
(* for ever (check, _refill, _evict_stale).                                *)
ImplementsTokenBuckets == Ideal!Spec

(* In any window of time, no more than burst_size plus the refill of the   *)
(* window is allowed, for the server and for every (session, tool), even   *)
(* when the pair's bucket was evicted and created again in the window.     *)
WindowBound == Ideal!WindowBound

(* "Peek both buckets before consuming either": a denied request costs     *)
(* nothing, neither a global token nor one of any pair's bucket.           *)
DenialIsFree ==
  [][result'.verdict \in {"global", "tool"} /\ now' = now
       => GlobalLevel' = GlobalLevel /\ ToolLevel' = ToolLevel]_vars

(* "one session cannot deplete another session's per-tool quota": a        *)
(* request changes the level of no pair but its own.                       *)
QuotaIsolation ==
  [][\A s \in Sessions, t \in Tools :
       Check(s, t) => \A k \in Keys \ {<<s, t>>} : ToolLevel'[k] = ToolLevel[k]]_vars

(* A client that waits retry_after is not sent away by the same bucket     *)
(* again, and the wait is no longer than it has to be: while no further    *)
(* request is made, the bucket that denied has a token exactly from the    *)
(* announced moment on, whatever was evicted meanwhile.                    *)
DenyingLevel == IF result.verdict = "global" THEN GlobalLevel ELSE ToolLevel[result.key]
RetryAfterExact ==
  result.verdict \in {"global", "tool"} =>
    (DenyingLevel >= Unit <=> now >= result.at + result.wait)
=============================================================================
