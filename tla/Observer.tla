------------------------------ MODULE Observer -------------------------------
(***************************************************************************)
(* The webhook emitter of utils/observer.py.  A bounded queue lies between *)
(* emit, called on the event loop, and a daemon thread that posts one      *)
(* record at a time.  Records are numbered in the order of their emission. *)
(***************************************************************************)
EXTENDS Integers, Sequences

CONSTANT QueueLimit  \* maxsize of the queue

ASSUME QueueLimitAssumption == QueueLimit \in Nat \ {0}

VARIABLES
  url,      \* MCP_AUDIT_WEBHOOK_URL is set
  emitted,  \* history: how many records were emitted
  queue,    \* _Q
  holding,  \* the record the worker posts, << >> when it waits for one
  posted    \* history: the records the observer service received

observerVars == <<url, emitted, queue, holding, posted>>

ObserverInit ==
  /\ url \in BOOLEAN
  /\ emitted = 0
  /\ queue = << >> /\ holding = << >> /\ posted = << >>

(* put_nowait: a full queue drops the new record.                          *)
Enqueued(record) ==
  IF Len(queue) < QueueLimit THEN Append(queue, record) ELSE queue

Queued(record) == \E i \in 1 .. Len(queue) : queue[i] = record

Emit ==
  /\ IF url THEN /\ emitted' = emitted + 1
                 /\ queue' = Enqueued(emitted + 1)
            ELSE UNCHANGED <<emitted, queue>>
  /\ UNCHANGED <<url, holding, posted>>

(* A seeded fault: the exception of a failed post leaves the loop: nothing *)
(* is taken after a record that was lost.                                  *)
TakeUnlessOneFailed ==
  /\ holding = << >> /\ queue # << >>
  /\ \A record \in 1 .. Head(queue) - 1 :
       \E i \in 1 .. Len(posted) : posted[i] = record
  /\ holding' = <<Head(queue)>>
  /\ queue' = Tail(queue)
  /\ UNCHANGED <<url, emitted, posted>>

Take ==
  /\ holding = << >> /\ queue # << >>
  /\ holding' = <<Head(queue)>>
  /\ queue' = Tail(queue)
  /\ UNCHANGED <<url, emitted, posted>>

Post ==
  /\ holding # << >>
  /\ posted' = posted \o holding
  /\ holding' = << >>
  /\ UNCHANGED <<url, emitted, queue>>

(* A seeded fault: a record whose post failed goes back to the queue.      *)
PostFailsRequeued ==
  /\ holding # << >>
  /\ holding' = << >>
  /\ queue' = IF Len(queue) < QueueLimit THEN queue \o holding ELSE queue
  /\ UNCHANGED <<url, emitted, posted>>

(* A refused post, or no answer in two seconds: the exception is caught    *)
(* and the record is gone.                                                 *)
PostFails ==
  /\ holding # << >>
  /\ holding' = << >>
  /\ UNCHANGED <<url, emitted, queue, posted>>

(* The process ends, and its daemon thread with it.                        *)
Abandon ==
  /\ queue' = << >> /\ holding' = << >>
  /\ UNCHANGED <<url, emitted, posted>>
-----------------------------------------------------------------------------
ObserverTypeOK ==
  /\ url \in BOOLEAN
  /\ emitted \in Nat
  /\ queue \in Seq(1 .. emitted) /\ Len(queue) <= QueueLimit
  /\ holding \in Seq(1 .. emitted) /\ Len(holding) <= 1
  /\ posted \in Seq(1 .. emitted)

Increasing(s) == \A i, j \in 1 .. Len(s) : i < j => s[i] < s[j]

(* Whatever is dropped, the observer service receives records in the order *)
(* in which the calls they report were made, and none of them twice.       *)
PostedInOrder == Increasing(posted)

(* The pipeline from emit to the service, seen as one sequence.            *)
InOrder ==
  /\ Increasing(posted) /\ Increasing(queue)
  /\ \A i \in 1 .. Len(posted) :
       /\ \A j \in 1 .. Len(holding) : posted[i] < holding[j]
       /\ \A j \in 1 .. Len(queue) : posted[i] < queue[j]
  /\ \A i \in 1 .. Len(holding), j \in 1 .. Len(queue) : holding[i] < queue[j]

ObserverInv == ObserverTypeOK /\ InOrder
=============================================================================
