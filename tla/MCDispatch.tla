----------------------------- MODULE MCDispatch -----------------------------
(* Small instances of request dispatch.                                    *)
EXTENDS Dispatch, TLC

CONSTANTS r1, r2, r3

Base ==
  [kind |-> "tool", session |-> "s", name |-> "t", stamp |-> NoStamp,
   credential |-> "good", fit |-> "absent", digest |-> TRUE, fault |-> None]

Stamp0 == [at |-> 0, spelling |-> "z"]

(* Retries of one stamped call, one of them too large, beside calls and a  *)
(* prompt that fail one later check each, and a resource.  A good          *)
(* credential may be refused too: signing keys are fetched over a network. *)
Mixed ==
  << [Base EXCEPT !.stamp = Stamp0],
     [Base EXCEPT !.stamp = Stamp0, !.fault = "too_large"],
     [Base EXCEPT !.session = "u", !.credential = "local", !.fit = "good",
                  !.digest = FALSE],
     [Base EXCEPT !.fit = "bad"],
     [Base EXCEPT !.fault = "invalid"],
     [Base EXCEPT !.fault = "unknown"],
     [Base EXCEPT !.kind = "resource"],
     [Base EXCEPT !.kind = "prompt", !.fault = "too_deep"] >>
MixedEnvelopes == {Mixed[i] : i \in DOMAIN Mixed}

(* The stamped call beside any two messages: requests are interchangeable, *)
(* so one assignment for every pair is enough.                             *)
Ordered ==
  \E i \in DOMAIN Mixed : \E j \in i .. Len(Mixed) :
    envelope = (r1 :> Mixed[1]) @@ (r2 :> Mixed[i]) @@ (r3 :> Mixed[j])
MCInit == Ordered /\ Init
MCSpec == MCInit /\ [][Next]_vars
=============================================================================
