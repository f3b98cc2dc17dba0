-------------------------- MODULE BucketParameters --------------------------
(***************************************************************************)
(* Configuration and arithmetic shared by the ideal rate limiter and the   *)
(* one of security/rate_limiter.py.                                        *)
(*                                                                         *)
(* Levels are integers: one token is Unit, a bucket gains a whole number   *)
(* of units per clock tick.  With a tick of one second and Unit = 60 the   *)
(* rates are the configured requests per minute.  Rate limiting is enabled *)
(* throughout: a disabled limiter answers "allowed" and keeps no state.    *)
(***************************************************************************)
EXTENDS Integers

CONSTANTS
  Sessions,    \* session identifiers (fss_session_id)
  Tools,       \* tool, resource and prompt names
  Unit,        \* units in one token
  Burst,       \* burst_size: capacity of every bucket, in tokens
  GlobalRate,  \* units the global bucket gains per tick (global_rpm)
  ToolRate,    \* units a per-tool bucket gains per tick (per_tool_rpm)
  MaxTime      \* bound: the clock stops there

(* Configuration loading rejects values below 1 when limiting is enabled.  *)
ASSUME BucketConstants ==
  /\ Unit \in Nat \ {0}
  /\ Burst \in Nat \ {0}
  /\ GlobalRate \in Nat \ {0}
  /\ ToolRate \in Nat \ {0}
  /\ MaxTime \in Nat

Keys == Sessions \X Tools
Capacity == Burst * Unit
Times == 0 .. MaxTime

(* A bucket never holds more than its capacity.                            *)
Capped(units) == IF units > Capacity THEN Capacity ELSE units

(* Histories count, for every time s, the grants at or after s.  A grant   *)
(* at t adds one to every window that has begun.                           *)
CountedAt(t, grants) == [s \in Times |-> IF s <= t THEN grants[s] + 1 ELSE grants[s]]
NoGrants == [s \in Times |-> 0]
=============================================================================
