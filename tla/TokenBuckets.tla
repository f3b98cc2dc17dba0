---------------------------- MODULE TokenBuckets ----------------------------
(***************************************************************************)
(* What the rate limiter promises: one global token bucket and one bucket  *)
(* for every (session, tool) pair, each always in existence and refilled   *)
(* continuously.  A request takes one token from both of its buckets, or   *)
(* nothing from either.  The in-memory limiter of                          *)
(* security/rate_limiter.py creates its buckets on demand, refills them    *)
(* lazily and evicts them; module RateLimiter shows that none of this can  *)
(* be observed.                                                            *)
(***************************************************************************)
EXTENDS BucketParameters

VARIABLES
  now,          \* the monotonic clock
  globalLevel,  \* what the global bucket holds
  toolLevel,    \* what each (session, tool) bucket holds
  grantsSince,  \* history: grantsSince[s] requests were allowed at or after s
  keyGrants     \* history: the same, for each (session, tool)

levelVars == <<globalLevel, toolLevel>>
vars == <<now, globalLevel, toolLevel, grantsSince, keyGrants>>

-----------------------------------------------------------------------------
Init ==
  /\ now = 0
  /\ globalLevel = Capacity
  /\ toolLevel = [k \in Keys |-> Capacity]
  /\ grantsSince = NoGrants
  /\ keyGrants = [k \in Keys |-> NoGrants]

Tick ==
  /\ now < MaxTime
  /\ now' = now + 1
  /\ globalLevel' = Capped(globalLevel + GlobalRate)
  /\ toolLevel' = [k \in Keys |-> Capped(toolLevel[k] + ToolRate)]
  /\ UNCHANGED <<grantsSince, keyGrants>>

Allow(k) ==
  /\ globalLevel >= Unit
  /\ toolLevel[k] >= Unit
  /\ globalLevel' = globalLevel - Unit
  /\ toolLevel' = [toolLevel EXCEPT ![k] = @ - Unit]
  /\ grantsSince' = CountedAt(now, grantsSince)
  /\ keyGrants' = [keyGrants EXCEPT ![k] = CountedAt(now, @)]
  /\ UNCHANGED now

(* Starting over also starts every measurement window over.                *)
Reset ==
  /\ globalLevel' = Capacity
  /\ toolLevel' = [k \in Keys |-> Capacity]
  /\ grantsSince' = NoGrants
  /\ keyGrants' = [k \in Keys |-> NoGrants]
  /\ UNCHANGED now

Next == Tick \/ Reset \/ \E k \in Keys : Allow(k)

Spec == Init /\ [][Next]_vars
-----------------------------------------------------------------------------
TypeOK ==
  /\ now \in Times
  /\ globalLevel \in 0 .. Capacity
  /\ toolLevel \in [Keys -> 0 .. Capacity]
  /\ grantsSince \in [Times -> Nat]
  /\ keyGrants \in [Keys -> [Times -> Nat]]

(* In every window that ends at t, the grants and what the bucket still    *)
(* holds were paid for by one full bucket and the refill of that window;   *)
(* a window that has not begun has no grants.                              *)
Paid(t, grants, level, rate) ==
  \A s \in Times :
    IF s <= t THEN grants[s] * Unit + level <= Capacity + rate * (t - s)
              ELSE grants[s] = 0

Ledger ==
  /\ Paid(now, grantsSince, globalLevel, GlobalRate)
  /\ \A k \in Keys : Paid(now, keyGrants[k], toolLevel[k], ToolRate)

(* The promise of RateLimitConfig: in any window of time no more than      *)
(* burst_size requests plus the refill of that window are allowed, over    *)
(* the whole server at the global rate, and for every (session, tool) at   *)
(* the per-tool rate.                                                      *)
WindowBound ==
  \A s \in 0 .. now :
    /\ grantsSince[s] * Unit <= Capacity + GlobalRate * (now - s)
    /\ \A k \in Keys : keyGrants[k][s] * Unit <= Capacity + ToolRate * (now - s)
=============================================================================
