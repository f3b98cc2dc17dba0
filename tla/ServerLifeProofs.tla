-------------------------- MODULE ServerLifeProofs ---------------------------
(***************************************************************************)
(* Theorems of the server's life, for any calls, signals and queue.        *)
(***************************************************************************)
EXTENDS ServerLife, SequenceTheorems, TLAPS

LEMMA ExactlyOne ==
  ASSUME NEW n \in Nat, n # 0, n <= 1
  PROVE  n = 1
  OBVIOUS

LEMMA Singleton ==
  ASSUME NEW S, NEW x \in S
  PROVE  <<x>> \in Seq(S) /\ Len(<<x>>) = 1 /\ <<x>>[1] = x
  OBVIOUS

LEMMA ConcatSingle ==
  ASSUME NEW S, NEW s \in Seq(S), NEW t \in Seq(S), Len(t) = 1
  PROVE  /\ s \o t \in Seq(S) /\ Len(s \o t) = Len(s) + 1
         /\ \A i \in 1 .. Len(s) : (s \o t)[i] = s[i]
         /\ (s \o t)[Len(s) + 1] = t[1]
<1>1. Len(s) \in Nat
  BY LenProperties
<1>2. /\ s \o t \in Seq(S) /\ Len(s \o t) = Len(s) + Len(t)
      /\ \A i \in 1 .. Len(s) + Len(t) :
           (s \o t)[i] = IF i <= Len(s) THEN s[i] ELSE t[i - Len(s)]
  BY ConcatProperties
<1> QED
  BY <1>1, <1>2

(* The observer's steps keep what lies between emit and the service in     *)
(* order.                                                                  *)
LEMMA EmitInOrder ==
  ASSUME ObserverInv, Emit
  PROVE  ObserverInv'
<1>1. CASE ~ url \/ Len(queue) >= QueueLimit
  <2>1. queue' = queue /\ emitted' \in Nat /\ emitted' >= emitted
    BY <1>1, QueueLimitAssumption DEF Emit, Enqueued, ObserverInv, ObserverTypeOK
  <2> QED
    BY <2>1 DEF Emit, ObserverInv, ObserverTypeOK, InOrder, Increasing
<1>2. CASE url /\ Len(queue) < QueueLimit
  <2>1. queue' = Append(queue, emitted + 1) /\ emitted' = emitted + 1
        /\ holding' = holding /\ posted' = posted /\ url' = url
    BY <1>2 DEF Emit, Enqueued
  <2>2. ObserverTypeOK'
    BY <1>2, <2>1, QueueLimitAssumption DEF ObserverInv, ObserverTypeOK
  <2>3. InOrder'
    BY <2>1 DEF ObserverInv, ObserverTypeOK, InOrder, Increasing
  <2> QED
    BY <2>2, <2>3 DEF ObserverInv
<1> QED
  BY <1>1, <1>2, QueueLimitAssumption DEF ObserverInv, ObserverTypeOK

LEMMA TakeInOrder ==
  ASSUME ObserverInv, Take
  PROVE  ObserverInv'
<1>1. holding = << >> /\ holding' = <<Head(queue)>> /\ queue' = Tail(queue)
      /\ UNCHANGED <<url, emitted, posted>>
  BY DEF Take
<1>2. /\ queue \in Seq(1 .. emitted) /\ Len(queue) > 0
      /\ Len(Tail(queue)) = Len(queue) - 1
      /\ \A i \in 1 .. Len(queue) - 1 : Tail(queue)[i] = queue[i + 1]
      /\ Head(queue) = queue[1]
  BY DEF Take, ObserverInv, ObserverTypeOK
<1>3. /\ Tail(queue) \in Seq(1 .. emitted) /\ Head(queue) \in 1 .. emitted
      /\ <<Head(queue)>> \in Seq(1 .. emitted) /\ Len(<<Head(queue)>>) = 1
      /\ <<Head(queue)>>[1] = queue[1]
  <2>1. queue # << >>
    BY DEF Take
  <2>2. Tail(queue) \in Seq(1 .. emitted) /\ Head(queue) \in 1 .. emitted
    BY <1>2, <2>1, HeadTailProperties
  <2> QED
    BY <1>2, <2>2, Singleton
<1>4. ObserverTypeOK'
  BY <1>1, <1>2, <1>3, QueueLimitAssumption DEF ObserverInv, ObserverTypeOK
<1>5. InOrder'
  <2>1. Increasing(posted') /\ Increasing(queue')
    BY <1>1, <1>2 DEF ObserverInv, InOrder, Increasing
  <2>2. \A i \in 1 .. Len(posted') :
          /\ \A j \in 1 .. Len(holding') : posted'[i] < holding'[j]
          /\ \A j \in 1 .. Len(queue') : posted'[i] < queue'[j]
    BY <1>1, <1>2, <1>3 DEF ObserverInv, InOrder
  <2>3. \A i \in 1 .. Len(holding'), j \in 1 .. Len(queue') : holding'[i] < queue'[j]
    BY <1>1, <1>2, <1>3 DEF ObserverInv, InOrder, Increasing
  <2> QED
    BY <2>1, <2>2, <2>3 DEF InOrder
<1> QED
  BY <1>4, <1>5 DEF ObserverInv

LEMMA PostInOrder ==
  ASSUME ObserverInv, Post
  PROVE  ObserverInv'
<1>1. posted' = posted \o holding /\ holding' = << >> /\ holding # << >>
      /\ UNCHANGED <<url, emitted, queue>>
  BY DEF Post
<1>2. /\ posted \in Seq(1 .. emitted) /\ holding \in Seq(1 .. emitted)
      /\ Len(holding) = 1
  <2>1. posted \in Seq(1 .. emitted) /\ holding \in Seq(1 .. emitted)
    BY DEF ObserverInv, ObserverTypeOK
  <2>2. Len(holding) \in Nat /\ Len(holding) # 0
    BY <1>1, <2>1, EmptySeq
  <2>3. Len(holding) <= 1
    BY DEF ObserverInv, ObserverTypeOK
  <2>4. Len(holding) = 1
    BY <2>2, <2>3, ExactlyOne
  <2> QED
    BY <2>1, <2>4
<1>3. /\ Len(posted \o holding) = Len(posted) + 1
      /\ \A i \in 1 .. Len(posted) : (posted \o holding)[i] = posted[i]
      /\ (posted \o holding)[Len(posted) + 1] = holding[1]
  BY <1>2, ConcatSingle
<1>4. ObserverTypeOK'
  BY <1>1, <1>2, ConcatSingle DEF ObserverInv, ObserverTypeOK
<1>5. InOrder'
  BY <1>1, <1>2, <1>3 DEF ObserverInv, ObserverTypeOK, InOrder, Increasing
<1> QED
  BY <1>4, <1>5 DEF ObserverInv

LEMMA LossesInOrder ==
  ASSUME ObserverInv, PostFails \/ Abandon \/ UNCHANGED observerVars
  PROVE  ObserverInv'
<1>1. holding' \in {holding, << >>} /\ queue' \in {queue, << >>}
      /\ UNCHANGED <<url, emitted, posted>>
  BY DEF PostFails, Abandon, observerVars
<1>2. << >> \in Seq(1 .. emitted) /\ Len(<< >>) = 0
  BY EmptySeq
<1>3. ObserverTypeOK'
  <2>1. holding' \in Seq(1 .. emitted) /\ Len(holding') <= 1
    <3>1. CASE holding' = holding
      BY <3>1 DEF ObserverInv, ObserverTypeOK
    <3>2. CASE holding' = << >>
      BY <1>2, <3>2
    <3> QED
      BY <1>1, <3>1, <3>2
  <2>2. queue' \in Seq(1 .. emitted) /\ Len(queue') <= QueueLimit
    <3>1. CASE queue' = queue
      BY <3>1 DEF ObserverInv, ObserverTypeOK
    <3>2. CASE queue' = << >>
      BY <1>2, <3>2, QueueLimitAssumption
    <3> QED
      BY <1>1, <3>1, <3>2
  <2> QED
    BY <1>1, <2>1, <2>2 DEF ObserverInv, ObserverTypeOK
<1>4. /\ Len(holding') = 0 \/ holding' = holding
      /\ Len(queue') = 0 \/ queue' = queue
  BY <1>1, <1>2
<1>5. InOrder'
  BY <1>1, <1>4 DEF ObserverInv, InOrder, Increasing
<1> QED
  BY <1>3, <1>5 DEF ObserverInv

(* Each step of the process is one of these to the observer.               *)
LEMMA ObservedSteps ==
  ASSUME [Next]_vars
  PROVE  Emit \/ Take \/ Post \/ PostFails \/ Abandon \/ UNCHANGED observerVars
<1>1. CASE StartUp
  BY <1>1 DEF StartUp, Configure, Create, Install, Prepare, Advance, Serve,
              FailToStart, Ended
<1>2. CASE Signal \/ FirstSignal \/ RepeatedSignal \/ ForceExit \/ ShutDown
  BY <1>2 DEF Signal, FirstSignal, RepeatedSignal, ForceExit, ShutDown, Ended
<1>3. CASE LineRead \/ EndOfInput \/ ReadInterrupted \/ DeliverInvalid \/ LeaveReader
  BY <1>3 DEF LineRead, EndOfInput, ReadInterrupted, DeliverInvalid, LeaveReader
<1>4. CASE \E call \in Requests :
             Deliver(call) \/ Accept(call) \/ Finish(call) \/ CutShort(call)
  BY <1>4 DEF Deliver, Accept, Finish, CutShort
<1>5. CASE TransportFails \/ Return \/ Exit \/ Work(Take) \/ Work(Post) \/ Work(PostFails)
  BY <1>5 DEF TransportFails, Return, Exit, Ended, Work
<1>6. CASE UNCHANGED vars
  BY <1>6 DEF vars, observerVars
<1> QED
  BY <1>1, <1>2, <1>3, <1>4, <1>5, <1>6 DEF Next

(* For every queue size, and whatever is dropped, refused or lost with the *)
(* process: the observer receives records in the order of the calls they   *)
(* report, each at most once.                                              *)
THEOREM ObserverInOrder == Spec => []ObserverInv
<1>1. Init => ObserverInv
  BY QueueLimitAssumption
     DEF Init, ObserverInit, ObserverInv, ObserverTypeOK, InOrder, Increasing
<1>2. ObserverInv /\ [Next]_vars => ObserverInv'
  BY ObservedSteps, EmitInOrder, TakeInOrder, PostInOrder, LossesInOrder
<1> QED
  BY <1>1, <1>2, PTL DEF Spec
-----------------------------------------------------------------------------
(* The strengthening of the two properties of the process: the transport   *)
(* is there whenever a callback can run, and a stop has a cause.           *)
Reachable ==
  /\ kind \in Transport
  /\ main \in {"serving", "returned"} => target = "running"
  /\ task = "done" => told
  /\ task # "none" => requested
  /\ told => requested \/ broken
StopsHaveCauses ==
  /\ stdin = "closed" => requested
  /\ reader = "gone" => eof \/ requested \/ broken
  /\ kind = "http" => reader = "idle"
  /\ main = "returned" => Drained
  /\ exit = "graceful" => main = "returned" /\ ~ broken
LifeInv == Reachable /\ StopsHaveCauses

LEMMA LifeInvInitially == Init => LifeInv
  BY DEF Init, LifeInit, LifeInv, Reachable, StopsHaveCauses

LEMMA LifeInvKept ==
  ASSUME LifeInv, [Next]_vars
  PROVE  LifeInv'
<1> USE DEF LifeInv, Reachable, StopsHaveCauses, Drained, Alive,
            LoopIsFree, callVars, inputVars, stopVars, signalVars, mainVars
<1>1. CASE Configure \/ Create \/ Install \/ Prepare \/ Serve \/ FailToStart
  BY <1>1 DEF Configure, Create, Install, Prepare, Advance, Serve, FailToStart,
              Ended, Transport
<1>2. CASE Signal \/ FirstSignal \/ RepeatedSignal \/ ForceExit \/ ShutDown
  BY <1>2 DEF Signal, FirstSignal, RepeatedSignal, ForceExit, ShutDown, Ended
<1>3. CASE LineRead \/ EndOfInput \/ ReadInterrupted \/ DeliverInvalid \/ LeaveReader
  BY <1>3 DEF LineRead, EndOfInput, ReadInterrupted, DeliverInvalid, LeaveReader,
              NextRead, Transport
<1>4. ASSUME NEW call \in Requests, Deliver(call) \/ Accept(call)
      PROVE  LifeInv'
  <2>1. Reachable'
    BY <1>4 DEF Deliver, Accept
  <2>2. StopsHaveCauses'
    BY <1>4 DEF Deliver, Accept, NextRead, Transport
  <2> QED
    BY <2>1, <2>2
<1>5. ASSUME NEW call \in Requests, Finish(call) \/ CutShort(call)
      PROVE  LifeInv'
  BY <1>5 DEF Finish, CutShort
<1>6. CASE TransportFails \/ Return \/ Exit
  BY <1>6 DEF TransportFails, Return, Exit, Ended
<1>7. CASE Work(Take) \/ Work(Post) \/ Work(PostFails)
  BY <1>7 DEF Work
<1>8. CASE UNCHANGED vars
  BY <1>8 DEF vars
<1> QED
  BY <1>1, <1>2, <1>3, <1>4, <1>5, <1>6, <1>7, <1>8 DEF Next, StartUp

LEMMA LifeInvariant == Spec => []LifeInv
  BY LifeInvInitially, LifeInvKept, PTL DEF Spec

(* A shutdown request is never swallowed for want of a transport.          *)
THEOREM ShutdownsReachTransport == Spec => []ShutdownReachesTransport
<1>1. LifeInv => ShutdownReachesTransport
  BY DEF LifeInv, Reachable, ShutdownReachesTransport
<1> QED
  BY <1>1, LifeInvariant, PTL

(* The server ends with success only when asked to, or when its client     *)
(* left (_run_server).                                                     *)
THEOREM ServerEndsForACause == Spec => []EndsForACause
<1>1. LifeInv => EndsForACause
  BY DEF LifeInv, Reachable, StopsHaveCauses, EndsForACause, Drained, Transport
<1> QED
  BY <1>1, LifeInvariant, PTL
=============================================================================
