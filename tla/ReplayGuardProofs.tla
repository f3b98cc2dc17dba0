------------------------- MODULE ReplayGuardProofs --------------------------
(***************************************************************************)
(* The forgetful cache of accepted timestamps implements the registry that *)
(* never forgets, for every window and every set of timestamps.            *)
(***************************************************************************)
EXTENDS ReplayGuard, TLAPS

(* The instants a state is about are integers.                             *)
LEMMA StampTimes == \A st \in Stamp : st.at \in Nat
  BY ReplayConstants DEF Stamp, Times

(* The cache an acceptance leaves: sound entries, all of them recorded,    *)
(* and what the eviction drops has left the window.                        *)
LEMMA AcceptedCache ==
  ASSUME Inv, NEW stamp \in Stamp, InWindow(stamp, now)
  PROVE  LET cache == Kept(Recorded(stamp))
         IN  /\ DOMAIN cache \subseteq DOMAIN seen \cup {stamp}
             /\ \A st \in DOMAIN cache :
                  /\ cache[st] \in Times /\ cache[st] <= now /\ InWindow(st, cache[st])
                  /\ cache[st] >= now - 2 * Window
             /\ \A st \in (DOMAIN seen \cup {stamp}) \ DOMAIN cache : now > st.at + Window
<1> DEFINE D == DOMAIN seen \cup {stamp}
           recorded == [st \in D |-> IF st = stamp THEN now ELSE seen[st]]
           kept == {st \in D : recorded[st] >= now - 2 * Window}
           cache == [st \in kept |-> recorded[st]]
<1>1. Kept(Recorded(stamp)) = cache
  BY DEF Kept, Recorded, Restrict
<1>2. now \in Nat /\ now \in Times /\ Window \in Nat
  BY ReplayConstants DEF Inv, TypeOK, Times
<1>3. ASSUME NEW st \in D
      PROVE  /\ recorded[st] \in Times /\ recorded[st] \in Nat /\ recorded[st] <= now
             /\ InWindow(st, recorded[st]) /\ st.at \in Nat
  <2>1. st.at \in Nat
    BY StampTimes DEF Inv, TypeOK
  <2>2. CASE st = stamp
    BY <1>2, <2>1, <2>2
  <2>3. CASE st # stamp
    BY <1>2, <2>1, <2>3, ReplayConstants DEF Inv, TypeOK, EntriesSound, Times
  <2>4. QED
    BY <2>2, <2>3
<1>4. ASSUME NEW st \in D, st \notin kept PROVE now > st.at + Window
  <2>1. ~ (recorded[st] >= now - 2 * Window)
    BY <1>4
  <2>2. recorded[st] \in Nat /\ st.at \in Nat /\ InWindow(st, recorded[st])
    BY <1>3
  <2>3. \A r, a \in Nat : ~ (r >= now - 2 * Window) /\ a - r <= Window => now > a + Window
    BY <1>2
  <2> HIDE DEF recorded, kept
  <2>4. st.at - recorded[st] <= Window
    BY <2>2 DEF InWindow
  <2>5. QED
    BY <2>1, <2>2, <2>3, <2>4
<1>5. QED
  BY <1>1, <1>3, <1>4

(* Entries are sound and what was forgotten has expired, in every state.   *)
THEOREM GuardInvariant == Spec => []Inv
<1> USE ReplayConstants
<1>1. Init => Inv
  BY DEF Init, Inv, TypeOK, EntriesSound, ForgottenIsExpired, Times
<1>2. Inv /\ [Next]_vars => Inv'
  <2> SUFFICES ASSUME Inv, [Next]_vars PROVE Inv'
    OBVIOUS
  <2>1. now \in Nat /\ now \in Times /\ Window \in Nat
    BY DEF Inv, TypeOK, Times
  <2>2. CASE Tick
    <3>1. now' \in Times /\ now' = now + 1 /\ seen' = seen /\ accepted' = accepted
      BY <2>1, <2>2 DEF Tick, Times
    <3>2. TypeOK'
      BY <3>1 DEF Inv, TypeOK, Stamp, Times
    <3>3. EntriesSound'
      <4>1. \A st \in DOMAIN seen : seen[st] \in Nat
        BY DEF Inv, TypeOK, Times
      <4>2. QED
        BY <2>1, <3>1, <4>1 DEF Inv, EntriesSound, InWindow
    <3>4. ForgottenIsExpired'
      <4>1. \A st \in accepted : st.at \in Nat
        BY StampTimes DEF Inv, TypeOK
      <4>2. QED
        BY <2>1, <3>1, <4>1 DEF Inv, ForgottenIsExpired
    <3>5. QED
      BY <3>2, <3>3, <3>4 DEF Inv
  <2>3. ASSUME NEW stamp \in Stamp, Accept(stamp) PROVE Inv'
    <3> DEFINE cache == Kept(Recorded(stamp))
    <3>1. InWindow(stamp, now) /\ now' = now /\ seen' = cache
          /\ accepted' = accepted \cup {stamp}
      BY <2>3 DEF Accept
    <3>2. /\ DOMAIN cache \subseteq DOMAIN seen \cup {stamp}
          /\ \A st \in DOMAIN cache :
               cache[st] \in Times /\ cache[st] <= now /\ InWindow(st, cache[st])
          /\ \A st \in (DOMAIN seen \cup {stamp}) \ DOMAIN cache : now > st.at + Window
      BY <3>1, AcceptedCache
    <3>3. TypeOK'
      BY <3>1, <3>2 DEF Inv, TypeOK, Stamp, Times
    <3>4. EntriesSound'
      BY <3>1, <3>2 DEF Inv, EntriesSound, InWindow
    <3>5. ForgottenIsExpired'
      BY <3>1, <3>2 DEF Inv, ForgottenIsExpired
    <3>6. QED
      BY <3>3, <3>4, <3>5 DEF Inv
  <2>4. CASE Restart
    BY <2>4 DEF Restart, Inv, TypeOK, EntriesSound, ForgottenIsExpired, Times
  <2>5. CASE UNCHANGED <<now, seen, accepted>>
    BY <2>5 DEF Inv, TypeOK, EntriesSound, ForgottenIsExpired, InWindow, Stamp, Times
  <2>6. QED
    BY <2>2, <2>3, <2>4, <2>5
       DEF Next, PassUnstamped, CheckReplay, RejectOutside, RejectDuplicate, vars
<1>3. QED
  BY <1>1, <1>2, PTL DEF Spec

(* Each verdict of the cache is the registry's.                            *)
LEMMA VerdictsAgree ==
  ASSUME Inv, NEW stamp \in Stamp, CheckReplay(stamp)
  PROVE  Ideal!Present(stamp)
<1>1. stamp \in DOMAIN seen => stamp \in accepted
  BY DEF Inv, EntriesSound
<1>2. InWindow(stamp, now) /\ stamp \in accepted => stamp \in DOMAIN seen
  <2>1. stamp.at \in Nat /\ now \in Nat /\ Window \in Nat
    BY StampTimes, ReplayConstants DEF Inv, TypeOK, Times
  <2>2. QED
    BY <2>1 DEF Inv, ForgottenIsExpired, InWindow
<1>3. CASE RejectOutside(stamp)
  <2>1. Ideal!Judged(stamp) = "outside"
    BY <1>3 DEF RejectOutside, Ideal!Judged, Ideal!InWindow, InWindow
  <2>2. QED
    BY <1>3, <2>1 DEF RejectOutside, Ideal!Present, Ideal!Verdict, Verdict
<1>4. CASE RejectDuplicate(stamp)
  <2>1. Ideal!Judged(stamp) = "duplicate"
    BY <1>1, <1>4 DEF RejectDuplicate, Ideal!Judged, Ideal!InWindow, InWindow
  <2>2. QED
    BY <1>4, <2>1 DEF RejectDuplicate, Ideal!Present, Ideal!Verdict, Verdict
<1>5. CASE Accept(stamp)
  <2>1. Ideal!Judged(stamp) = "accepted"
    BY <1>2, <1>5 DEF Accept, Ideal!Judged, Ideal!InWindow, InWindow
  <2>2. QED
    BY <1>5, <2>1 DEF Accept, Ideal!Present, Ideal!Verdict, Verdict
<1>6. QED
  BY <1>3, <1>4, <1>5 DEF CheckReplay

(* The cache implements the registry.                                      *)
THEOREM GuardImplements == Spec => ImplementsNonceRegistry
<1>1. Init => Ideal!Init
  BY DEF Init, Ideal!Init, Ideal!NoVerdict, NoVerdict
<1>2. Inv /\ [Next]_vars => [Ideal!Next]_Ideal!vars
  <2> SUFFICES ASSUME Inv, [Next]_vars PROVE [Ideal!Next]_Ideal!vars
    OBVIOUS
  <2>1. CASE Tick
    BY <2>1 DEF Tick, Ideal!Next, Ideal!Tick
  <2>2. CASE PassUnstamped
    BY <2>2 DEF PassUnstamped, Ideal!Next, Ideal!PresentNothing, Ideal!NoVerdict, NoVerdict
  <2>3. CASE Restart
    BY <2>3 DEF Restart, Ideal!Next, Ideal!Restart, Ideal!NoVerdict, NoVerdict
  <2>4. ASSUME NEW stamp \in Stamp, CheckReplay(stamp) PROVE Ideal!Next
    BY <2>4, VerdictsAgree DEF Ideal!Next, Ideal!Stamp, Stamp, Ideal!Times, Times
  <2>5. CASE UNCHANGED vars
    BY <2>5 DEF vars, Ideal!vars
  <2>6. QED
    BY <2>1, <2>2, <2>3, <2>4, <2>5 DEF Next
<1>3. QED
  BY <1>1, <1>2, GuardInvariant, PTL DEF Spec, ImplementsNonceRegistry, Ideal!Spec

(* The cache never outgrows three windows of timestamps.                   *)
THEOREM CacheStaysSmall == Spec => CacheBounded
<1>1. ASSUME Inv, NEW stamp \in Stamp, Accept(stamp)
      PROVE  \A st \in DOMAIN seen' : now - st.at <= 3 * Window
  <2>1. ASSUME NEW st \in DOMAIN seen' PROVE now - st.at <= 3 * Window
    <3>1. seen' = Kept(Recorded(stamp)) /\ InWindow(stamp, now)
      BY <1>1 DEF Accept
    <3>2. st \in DOMAIN seen \cup {stamp} /\ seen'[st] \in Times
          /\ InWindow(st, seen'[st]) /\ seen'[st] >= now - 2 * Window
      BY <1>1, <2>1, <3>1, AcceptedCache
    <3>3. st.at \in Nat /\ now \in Nat /\ Window \in Nat /\ seen'[st] \in Nat
      <4>1. st \in Stamp
        BY <1>1, <3>2 DEF Inv, TypeOK
      <4>2. QED
        BY <1>1, <3>2, <4>1, StampTimes, ReplayConstants DEF Inv, TypeOK, Times
    <3>4. seen'[st] - st.at <= Window
      BY <3>2 DEF InWindow
    <3>5. QED
      BY <3>2, <3>3, <3>4
  <2>2. QED
    BY <2>1
<1>2. Inv /\ [Next]_vars =>
        [verdict'.outcome = "accepted" /\ seen' # seen
           => \A st \in DOMAIN seen' : now - st.at <= 3 * Window]_vars
  <2> SUFFICES ASSUME Inv, [Next]_vars, verdict'.outcome = "accepted", seen' # seen
               PROVE  \A st \in DOMAIN seen' : now - st.at <= 3 * Window
    OBVIOUS
  <2>1. CASE Restart
    BY <2>1 DEF Restart
  <2>2. QED
    BY <1>1, <2>1 DEF Next, Tick, PassUnstamped, CheckReplay, RejectOutside, RejectDuplicate, vars
<1>3. QED
  BY <1>2, GuardInvariant, PTL DEF Spec, CacheBounded
=============================================================================
