---------------------------- MODULE ReplayGuard -----------------------------
(***************************************************************************)
(* Replay prevention as implemented: middleware/pipeline.py, the module's  *)
(* _seen_timestamps cache, _evict_seen_timestamps and _check_replay.  The  *)
(* check is synchronous: one call is one step of the event loop.           *)
(*                                                                         *)
(* The cache forgets.  An entry goes away once its acceptance is more than *)
(* two windows old, and only when another timestamp is accepted.  Two      *)
(* windows are what it takes: a timestamp accepted one window ahead of the *)
(* clock stays acceptable for two.  The wall clock is assumed not to step  *)
(* back while the process lives.                                           *)
(***************************************************************************)
EXTENDS ReplayWindow, Functions

VARIABLES
  now,       \* datetime.now(UTC)
  seen,      \* _seen_timestamps: acceptance time of the timestamps remembered
  accepted,  \* history: every timestamp accepted since the process started
  verdict    \* the last answer of _check_replay

vars == <<now, seen, accepted, verdict>>

(* A seeded fault: entries dropped after one window.                       *)
KeptOneWindow(cache) ==
  Restrict(cache, {st \in DOMAIN cache : cache[st] >= now - Window})

(* A seeded fault: nothing is evicted.                                     *)
KeptForEver(cache) == cache

(* _evict_seen_timestamps: what is left of a cache.                        *)
Kept(cache) ==
  Restrict(cache, {st \in DOMAIN cache : cache[st] >= now - 2 * Window})

Recorded(stamp) ==
  [st \in DOMAIN seen \cup {stamp} |-> IF st = stamp THEN now ELSE seen[st]]
-----------------------------------------------------------------------------
Init ==
  /\ now = 0
  /\ seen = << >>
  /\ accepted = {}
  /\ verdict = NoVerdict

Tick ==
  /\ now < MaxTime
  /\ now' = now + 1
  /\ UNCHANGED <<seen, accepted, verdict>>

RejectOutside(stamp) ==
  /\ ~ InWindow(stamp, now)
  /\ verdict' = Verdict(stamp, "outside")
  /\ UNCHANGED <<now, seen, accepted>>

RejectDuplicate(stamp) ==
  /\ InWindow(stamp, now)
  /\ stamp \in DOMAIN seen
  /\ verdict' = Verdict(stamp, "duplicate")
  /\ UNCHANGED <<now, seen, accepted>>

Accept(stamp) ==
  /\ InWindow(stamp, now)
  /\ stamp \notin DOMAIN seen
  /\ seen' = Kept(Recorded(stamp))
  /\ accepted' = accepted \cup {stamp}
  /\ verdict' = Verdict(stamp, "accepted")
  /\ UNCHANGED now

(* No timestamp (stdio, or a client that sends none) or a malformed one:   *)
(* the request passes and nothing is recorded.                             *)
PassUnstamped ==
  /\ verdict' = NoVerdict
  /\ UNCHANGED <<now, seen, accepted>>

(* The cache is the module's memory: a new process starts without it.      *)
Restart ==
  /\ seen' = << >>
  /\ accepted' = {}
  /\ verdict' = NoVerdict
  /\ UNCHANGED now

CheckReplay(stamp) == RejectOutside(stamp) \/ RejectDuplicate(stamp) \/ Accept(stamp)

Next == Tick \/ PassUnstamped \/ Restart \/ \E stamp \in Stamp : CheckReplay(stamp)

Spec == Init /\ [][Next]_vars
-----------------------------------------------------------------------------
TypeOK ==
  /\ now \in Times
  /\ DOMAIN seen \subseteq Stamp
  /\ \A st \in DOMAIN seen : seen[st] \in Times
  /\ accepted \subseteq Stamp

(* An entry is not from the future and was acceptable when it was made.    *)
EntriesSound ==
  \A st \in DOMAIN seen : seen[st] <= now /\ InWindow(st, seen[st]) /\ st \in accepted

(* What was accepted and is no longer remembered has left the window for   *)
(* good: the check of the window alone answers for it from then on.        *)
ForgottenIsExpired ==
  \A st \in accepted \ DOMAIN seen : now > st.at + Window

Inv == TypeOK /\ EntriesSound /\ ForgottenIsExpired

(* The forgetful cache answers exactly as a registry that never forgets:   *)
(* in one life of the process a timestamp is accepted at most once, and    *)
(* only a timestamp that was accepted is called a duplicate.               *)
Ideal == INSTANCE NonceRegistry
ImplementsNonceRegistry == Ideal!Spec

(* "Entries are evicted in _evict_seen_timestamps": the cache stays small. *)
(* Whenever a timestamp is accepted, everything remembered was written for *)
(* a time at most three windows ago.                                       *)
CacheBounded ==
  [][verdict'.outcome = "accepted" /\ seen' # seen
       => \A st \in DOMAIN seen' : now - st.at <= 3 * Window]_vars
=============================================================================
