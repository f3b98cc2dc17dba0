--------------------------- MODULE NonceRegistry ----------------------------
(***************************************************************************)
(* What replay prevention promises while the process lives: a registry     *)
(* that never forgets.  A timestamp in the window is accepted the first    *)
(* time it is presented and at no other time; nothing else is called a     *)
(* duplicate.                                                              *)
(***************************************************************************)
EXTENDS ReplayWindow

VARIABLES
  now,       \* the wall clock, in seconds
  accepted,  \* every timestamp accepted since the process started
  verdict    \* the last answer

vars == <<now, accepted, verdict>>

Init ==
  /\ now = 0
  /\ accepted = {}
  /\ verdict = NoVerdict

Tick ==
  /\ now < MaxTime
  /\ now' = now + 1
  /\ UNCHANGED <<accepted, verdict>>

Judged(stamp) ==
  CASE ~ InWindow(stamp, now) -> "outside"
    [] InWindow(stamp, now) /\ stamp \in accepted -> "duplicate"
    [] OTHER -> "accepted"

Present(stamp) ==
  /\ verdict' = Verdict(stamp, Judged(stamp))
  /\ accepted' = IF Judged(stamp) = "accepted" THEN accepted \cup {stamp} ELSE accepted
  /\ UNCHANGED now

(* A request without a usable timestamp passes unrecorded.                 *)
PresentNothing ==
  /\ verdict' = NoVerdict
  /\ UNCHANGED <<now, accepted>>

Restart ==
  /\ accepted' = {}
  /\ verdict' = NoVerdict
  /\ UNCHANGED now

Next == Tick \/ PresentNothing \/ Restart \/ \E stamp \in Stamp : Present(stamp)

Spec == Init /\ [][Next]_vars
=============================================================================
