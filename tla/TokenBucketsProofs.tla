------------------------- MODULE TokenBucketsProofs -------------------------
(***************************************************************************)
(* The ideal limiter keeps its promise for every number of sessions and    *)
(* tools, every burst size and every rate.                                 *)
(***************************************************************************)
EXTENDS TokenBuckets, TLAPS

(* The constants the arithmetic is about.                                  *)
LEMMA CapacityPositive == Capacity \in Nat /\ Unit \in Nat /\ Unit > 0 /\ Unit <= Capacity
  BY BucketConstants DEF Capacity

(* Refill is proportional to time: one more tick is one more rate.         *)
LEMMA OneMoreTick ==
  ASSUME NEW rate \in Nat, NEW t \in Nat, NEW s \in Nat, s <= t
  PROVE  /\ rate * (t - s) \in Nat
         /\ rate * ((t + 1) - s) = rate * (t - s) + rate
  OBVIOUS

(* A level stays within its bucket, whatever is poured in.                 *)
LEMMA CappedRange ==
  ASSUME NEW n \in Nat
  PROVE  Capped(n) \in 0 .. Capacity /\ Capped(n) <= n
  BY CapacityPositive DEF Capped

(* The levels and the history have their types (Init and every action).    *)
THEOREM LevelsTyped == Spec => []TypeOK
<1> USE BucketConstants, CapacityPositive
<1>1. Init => TypeOK
  BY DEF Init, TypeOK, Times, NoGrants
<1>2. TypeOK /\ [Next]_vars => TypeOK'
  <2> SUFFICES ASSUME TypeOK, [Next]_vars PROVE TypeOK'
    OBVIOUS
  <2>1. CASE Tick
    <3>1. now' \in Times
      BY <2>1 DEF Tick, TypeOK, Times
    <3>2. globalLevel' \in 0 .. Capacity
      BY <2>1, CappedRange DEF Tick, TypeOK
    <3>3. toolLevel' \in [Keys -> 0 .. Capacity]
      <4>1. \A k \in Keys : Capped(toolLevel[k] + ToolRate) \in 0 .. Capacity
        BY CappedRange DEF TypeOK
      <4>2. QED
        BY <2>1, <4>1 DEF Tick
    <3>4. QED
      BY <2>1, <3>1, <3>2, <3>3 DEF Tick, TypeOK, Times, Keys, Capacity
  <2>2. CASE Reset
    BY <2>2 DEF Reset, TypeOK, Times, NoGrants
  <2>3. ASSUME NEW k \in Keys, Allow(k) PROVE TypeOK'
    <3>1. \A g \in [Times -> Nat] : CountedAt(now, g) \in [Times -> Nat]
      BY DEF CountedAt
    <3>2. globalLevel' \in 0 .. Capacity
      BY <2>3 DEF Allow, TypeOK
    <3>3. toolLevel' \in [Keys -> 0 .. Capacity]
      BY <2>3 DEF Allow, TypeOK
    <3>4. keyGrants' \in [Keys -> [Times -> Nat]] /\ grantsSince' \in [Times -> Nat]
      BY <2>3, <3>1 DEF Allow, TypeOK
    <3>5. QED
      BY <2>3, <3>2, <3>3, <3>4 DEF Allow, TypeOK, Times, Keys, Capacity
  <2>4. CASE UNCHANGED vars
    BY <2>4 DEF vars, TypeOK
  <2>5. QED
    BY <2>1, <2>2, <2>3, <2>4 DEF Next
<1>3. QED
  BY <1>1, <1>2, PTL DEF Spec

(* A tick adds at most one refill to what is owed for.                     *)
LEMMA TickPaid ==
  ASSUME NEW t \in Nat, NEW rate \in Nat, NEW g \in [Times -> Nat],
         NEW level \in 0 .. Capacity, Paid(t, g, level, rate)
  PROVE  Paid(t + 1, g, Capped(level + rate), rate)
<1> USE BucketConstants, CapacityPositive
<1>1. Capped(level + rate) \in Nat /\ Capped(level + rate) <= level + rate
      /\ Capped(level + rate) <= Capacity
  BY CappedRange
<1>2. SUFFICES ASSUME NEW s \in Times
      PROVE  IF s <= t + 1
             THEN g[s] * Unit + Capped(level + rate) <= Capacity + rate * ((t + 1) - s)
             ELSE g[s] = 0
  BY DEF Paid
<1>3. s \in Nat /\ g[s] \in Nat
  BY DEF Times
<1>4. CASE s <= t
  <2>1. g[s] * Unit + level <= Capacity + rate * (t - s)
    BY <1>4 DEF Paid
  <2>2. rate * ((t + 1) - s) = rate * (t - s) + rate /\ rate * (t - s) \in Nat
    BY <1>3, <1>4, OneMoreTick
  <2>3. g[s] * Unit \in Nat
    BY <1>3
  <2>4. QED
    BY <1>1, <1>3, <1>4, <2>1, <2>2, <2>3
<1>5. CASE s = t + 1
  <2>1. g[s] = 0
    BY <1>3, <1>5 DEF Paid
  <2>2. rate * ((t + 1) - s) = 0 /\ g[s] * Unit = 0
    BY <1>5, <2>1
  <2>3. QED
    BY <1>1, <1>5, <2>2
<1>6. CASE s > t + 1
  BY <1>3, <1>6 DEF Paid
<1>7. QED
  BY <1>3, <1>4, <1>5, <1>6

(* A grant moves one token from the bucket to every window that has begun. *)
LEMMA AllowPaid ==
  ASSUME TypeOK, NEW rate \in Nat, NEW g \in [Times -> Nat],
         NEW level \in 0 .. Capacity, level >= Unit, Paid(now, g, level, rate)
  PROVE  Paid(now, CountedAt(now, g), level - Unit, rate)
<1> USE BucketConstants, CapacityPositive
<1>1. SUFFICES ASSUME NEW s \in Times
      PROVE  IF s <= now THEN CountedAt(now, g)[s] * Unit + (level - Unit) <= Capacity + rate * (now - s)
                         ELSE CountedAt(now, g)[s] = 0
  BY DEF Paid
<1>2. s \in Nat /\ g[s] \in Nat /\ now \in Nat
  BY DEF Times, TypeOK
<1>3. CASE s <= now
  <2>1. CountedAt(now, g)[s] = g[s] + 1
    BY <1>3 DEF CountedAt
  <2>2. (g[s] + 1) * Unit = g[s] * Unit + Unit /\ g[s] * Unit \in Nat
    BY <1>2
  <2>3. g[s] * Unit + level <= Capacity + rate * (now - s)
    BY <1>3 DEF Paid
  <2>4. rate * (now - s) \in Nat
    BY <1>2, <1>3, OneMoreTick
  <2>5. QED
    BY <1>3, <2>1, <2>2, <2>3, <2>4
<1>4. CASE ~ (s <= now)
  BY <1>4 DEF Paid, CountedAt
<1>5. QED
  BY <1>3, <1>4

(* A full bucket has paid for no grants at all.                            *)
LEMMA FullPaid ==
  ASSUME TypeOK, NEW rate \in Nat
  PROVE  Paid(now, NoGrants, Capacity, rate)
<1>1. SUFFICES ASSUME NEW s \in Times, s <= now
      PROVE  NoGrants[s] * Unit + Capacity <= Capacity + rate * (now - s)
  BY DEF Paid, NoGrants
<1>2. NoGrants[s] * Unit = 0 /\ rate * (now - s) \in Nat
  BY <1>1, OneMoreTick, CapacityPositive DEF NoGrants, TypeOK, Times
<1>3. QED
  BY <1>2, CapacityPositive

(* The ledger balances in every reachable state.                           *)
THEOREM LedgerBalances == Spec => []Ledger
<1> USE BucketConstants, CapacityPositive
<1>1. Init => Ledger
  <2>1. ASSUME Init PROVE TypeOK
    BY <2>1 DEF Init, TypeOK, Times, NoGrants
  <2>2. QED
    BY <2>1, FullPaid DEF Init, Ledger
<1>2. TypeOK /\ TypeOK' /\ Ledger /\ [Next]_vars => Ledger'
  <2> SUFFICES ASSUME TypeOK, TypeOK', Ledger, [Next]_vars PROVE Ledger'
    OBVIOUS
  <2>1. CASE Tick
    <3>1. now \in Nat /\ now' = now + 1
      BY <2>1 DEF Tick, TypeOK, Times
    <3>2. Paid(now', grantsSince', globalLevel', GlobalRate)
      BY <2>1, <3>1, TickPaid DEF Tick, TypeOK, Ledger
    <3>3. ASSUME NEW k \in Keys PROVE Paid(now', keyGrants'[k], toolLevel'[k], ToolRate)
      <4>1. keyGrants[k] \in [Times -> Nat] /\ toolLevel[k] \in 0 .. Capacity
            /\ Paid(now, keyGrants[k], toolLevel[k], ToolRate)
        BY DEF TypeOK, Ledger
      <4>2. Paid(now + 1, keyGrants[k], Capped(toolLevel[k] + ToolRate), ToolRate)
        BY <3>1, <4>1, TickPaid
      <4>3. QED
        BY <2>1, <4>2 DEF Tick
    <3>4. QED
      BY <3>2, <3>3 DEF Ledger, Keys
  <2>2. CASE Reset
    <3>1. \A k \in Keys : keyGrants'[k] = NoGrants /\ toolLevel'[k] = Capacity
      BY <2>2 DEF Reset
    <3>2. Paid(now, NoGrants, Capacity, GlobalRate) /\ Paid(now, NoGrants, Capacity, ToolRate)
      BY FullPaid
    <3>3. QED
      BY <2>2, <3>1, <3>2 DEF Reset, Ledger, Keys
  <2>3. ASSUME NEW k \in Keys, Allow(k) PROVE Ledger'
    <3>1. Paid(now', grantsSince', globalLevel', GlobalRate)
      BY <2>3, AllowPaid DEF Allow, TypeOK, Ledger
    <3>2. Paid(now', keyGrants'[k], toolLevel'[k], ToolRate)
      <4>1. keyGrants[k] \in [Times -> Nat] /\ toolLevel[k] \in 0 .. Capacity
            /\ Paid(now, keyGrants[k], toolLevel[k], ToolRate)
        BY DEF TypeOK, Ledger
      <4>2. Paid(now, CountedAt(now, keyGrants[k]), toolLevel[k] - Unit, ToolRate)
        BY <2>3, <4>1, AllowPaid DEF Allow
      <4>3. keyGrants'[k] = CountedAt(now, keyGrants[k]) /\ toolLevel'[k] = toolLevel[k] - Unit /\ now' = now
        BY <2>3 DEF Allow, TypeOK
      <4>4. QED
        BY <4>2, <4>3
    <3>3. ASSUME NEW j \in Keys, j # k PROVE Paid(now', keyGrants'[j], toolLevel'[j], ToolRate)
      <4>1. keyGrants'[j] = keyGrants[j] /\ toolLevel'[j] = toolLevel[j] /\ now' = now
        BY <2>3, <3>3 DEF Allow, TypeOK
      <4>2. QED
        BY <4>1 DEF Ledger
    <3>4. QED
      BY <3>1, <3>2, <3>3 DEF Ledger, Keys
  <2>4. CASE UNCHANGED vars
    BY <2>4 DEF vars, Ledger, Keys
  <2>5. QED
    BY <2>1, <2>2, <2>3, <2>4 DEF Next
<1>3. QED
  BY <1>1, <1>2, LevelsTyped, PTL DEF Spec

(* Over every window, at most a burst plus the window's refill is allowed. *)
THEOREM WindowsBounded == Spec => []WindowBound
<1>1. TypeOK /\ Ledger => WindowBound
  <2> SUFFICES ASSUME TypeOK, Ledger, NEW s \in 0 .. now
      PROVE  /\ grantsSince[s] * Unit <= Capacity + GlobalRate * (now - s)
             /\ \A k \in Keys : keyGrants[k][s] * Unit <= Capacity + ToolRate * (now - s)
    BY DEF WindowBound
  <2>1. s \in Times /\ s <= now /\ s \in Nat /\ now \in Nat
    BY BucketConstants DEF TypeOK, Times
  <2>2. GlobalRate * (now - s) \in Nat /\ ToolRate * (now - s) \in Nat
    BY <2>1, OneMoreTick, BucketConstants
  <2>3. grantsSince[s] * Unit <= Capacity + GlobalRate * (now - s)
    <3>1. grantsSince[s] * Unit + globalLevel <= Capacity + GlobalRate * (now - s)
      BY <2>1 DEF Ledger, Paid
    <3>2. grantsSince[s] * Unit \in Nat /\ globalLevel \in Nat
      BY <2>1, CapacityPositive DEF TypeOK
    <3>3. QED
      BY <2>2, <3>1, <3>2, CapacityPositive
  <2>4. ASSUME NEW k \in Keys
        PROVE  keyGrants[k][s] * Unit <= Capacity + ToolRate * (now - s)
    <3>1. keyGrants[k][s] * Unit + toolLevel[k] <= Capacity + ToolRate * (now - s)
      BY <2>1 DEF Ledger, Paid
    <3>2. keyGrants[k][s] * Unit \in Nat /\ toolLevel[k] \in Nat
      BY <2>1, CapacityPositive DEF TypeOK
    <3>3. QED
      BY <2>2, <3>1, <3>2, CapacityPositive
  <2>5. QED
    BY <2>3, <2>4
<1>2. QED
  BY <1>1, LevelsTyped, LedgerBalances, PTL
=============================================================================
