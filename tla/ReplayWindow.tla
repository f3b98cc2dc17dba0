---------------------------- MODULE ReplayWindow ----------------------------
(***************************************************************************)
(* Request timestamps and the window in which they are acceptable          *)
(* (X-Request-Timestamp, pipeline.py _check_replay).  A timestamp is what  *)
(* the client wrote: the same instant can be spelled in several ways       *)
(* ("...Z", "...+00:00"), and spellings are different timestamps.          *)
(***************************************************************************)
EXTENDS Integers

CONSTANTS
  Spellings,  \* ways to write one instant
  Window,     \* replay_window_seconds
  MaxTime     \* bound: the clock stops there, and no timestamp is later

(* A window of zero or less switches the check off.                        *)
ASSUME ReplayConstants == Window \in Nat \ {0} /\ MaxTime \in Nat

Times == 0 .. MaxTime
Stamp == [at : Times, spelling : Spellings]

(* A seeded fault: timestamps from the future are not limited.             *)
InWindowPast(stamp, t) == t - stamp.at <= Window

(* The request time is at most Window away from the clock, on either side. *)
InWindow(stamp, t) == t - stamp.at <= Window /\ stamp.at - t <= Window

NoVerdict == [outcome |-> "none"]
Verdict(stamp, outcome) == [outcome |-> outcome, stamp |-> stamp]
=============================================================================
