----------------------------- MODULE ServerLife ------------------------------
(***************************************************************************)
(* The life of one server process: __main__.py from start to exit, the     *)
(* start and shutdown of ChassisServer and of its two transports, and the  *)
(* observer's queue, which the process takes with it when it ends.         *)
(*                                                                         *)
(* Between two awaits of the main coroutine nothing else runs on the event *)
(* loop: a signal that arrives meanwhile waits, and so does the timer.     *)
(***************************************************************************)
EXTENDS Observer, FiniteSets

CONSTANTS
  Requests,   \* the calls clients make
  MaxSignals  \* bound: SIGTERM and SIGINT sent to the process

ASSUME MaxSignalsAssumption == MaxSignals \in Nat

VARIABLES
  kind,       \* the configured transport
  main,       \* where the main coroutine is
  target,     \* what server.shutdown() can reach of the transport
  sent,       \* history: signals sent
  pending,    \* signals the loop has not handled
  requested,  \* shutdown_requested
  timer,      \* _force_exit is scheduled
  task,       \* the task that runs server.shutdown()
  stdin,      \* sys.stdin
  told,       \* the cancel scope is cancelled, or should_exit is set
  reader,     \* stdin_reader
  eof,        \* history: the client closed its end
  arrived,    \* history: calls the server has taken
  inflight,   \* calls being handled
  broken,     \* the transport raised an exception
  exit        \* how the process ended

callVars == <<arrived, inflight>>
inputVars == <<stdin, reader, eof>>
stopVars == <<requested, timer, task, told, broken>>
signalVars == <<sent, pending>>
mainVars == <<kind, main, target>>
vars == <<mainVars, signalVars, stopVars, inputVars, callVars, exit,
          observerVars>>

Stages == {"start", "configured", "created", "listening", "prepared",
           "serving", "returned"}
Ends == {"killed", "failed", "graceful", "forced"}
Transport == {"stdio", "http"}

LifeInit ==
  /\ kind \in Transport
  /\ main = "start" /\ target = "none"
  /\ sent = 0 /\ pending = 0
  /\ requested = FALSE /\ timer = FALSE /\ task = "none"
  /\ told = FALSE /\ broken = FALSE
  /\ stdin = "open" /\ reader = "idle" /\ eof = FALSE
  /\ arrived = {} /\ inflight = {}
  /\ exit = "none"

Init == LifeInit /\ ObserverInit

Alive == exit = "none"
Ended(how) == exit' = how /\ Abandon

(* A seeded fault: the main coroutine awaits before the transport runs.    *)
LoopIsFreeEarly == Alive /\ main \in {"listening", "prepared", "serving", "returned"}

(* The main coroutine awaits, so callbacks and other tasks run.            *)
LoopIsFree == Alive /\ main \in {"serving", "returned"}
-----------------------------------------------------------------------------
(* ServerConfig.load, the constructor, the handlers of the two signals, and *)
(* server.run up to the transport's start.                                 *)
Advance(from, to) ==
  /\ Alive /\ main = from /\ main' = to
  /\ UNCHANGED <<kind, signalVars, stopVars, inputVars, callVars, exit,
                 observerVars>>
Configure == Advance("start", "configured") /\ UNCHANGED target
Create == Advance("configured", "created") /\ UNCHANGED target
Install == Advance("created", "listening") /\ UNCHANGED target
Prepare == Advance("listening", "prepared") /\ target' = "made"

(* transport.start up to its first await: the cancel scope or the uvicorn  *)
(* server is there, and on stdio the reader waits for input.               *)
Serve ==
  /\ Alive /\ main = "prepared"
  /\ main' = "serving" /\ target' = "running"
  /\ reader' = IF kind = "stdio" THEN "reading" ELSE "idle"
  /\ UNCHANGED <<kind, signalVars, stopVars, stdin, eof, callVars, exit,
                 observerVars>>

(* sys.exit(1) on a configuration or a constructor that raises, and an     *)
(* exception of server.run.                                                *)
FailToStart ==
  /\ Alive /\ main \in {"start", "configured", "listening", "prepared"}
  /\ Ended("failed")
  /\ UNCHANGED <<mainVars, signalVars, stopVars, inputVars, callVars>>

(* A signal ends the process until the handlers are installed (SIGINT at   *)
(* the first await, which is before anything is served).                   *)
Signal ==
  /\ Alive /\ sent < MaxSignals
  /\ sent' = sent + 1
  /\ IF main \in {"start", "configured", "created"}
       THEN Ended("killed") /\ UNCHANGED pending
       ELSE pending' = pending + 1 /\ UNCHANGED <<exit, observerVars>>
  /\ UNCHANGED <<mainVars, stopVars, inputVars, callVars>>

(* A seeded fault: no timer behind the graceful shutdown.                  *)
FirstSignalWithoutTimer ==
  /\ LoopIsFree /\ pending > 0 /\ ~ requested
  /\ pending' = pending - 1
  /\ requested' = TRUE /\ task' = "scheduled" /\ stdin' = "closed"
  /\ UNCHANGED <<mainVars, sent, told, broken, timer, reader, eof, callVars, exit,
                 observerVars>>

(* _handle_signal, the first time and after.                               *)
FirstSignal ==
  /\ LoopIsFree /\ pending > 0 /\ ~ requested
  /\ pending' = pending - 1
  /\ requested' = TRUE /\ task' = "scheduled" /\ stdin' = "closed" /\ timer' = TRUE
  /\ UNCHANGED <<mainVars, sent, told, broken, reader, eof, callVars, exit,
                 observerVars>>
RepeatedSignal ==
  /\ LoopIsFree /\ pending > 0 /\ requested
  /\ pending' = pending - 1
  /\ Ended("forced")
  /\ UNCHANGED <<mainVars, sent, stopVars, inputVars, callVars>>

(* _force_exit: five seconds have passed, and the loop runs the timer.     *)
ForceExit ==
  /\ LoopIsFree /\ timer
  /\ Ended("forced")
  /\ UNCHANGED <<mainVars, signalVars, stopVars, inputVars, callVars>>

(* server.shutdown() and the transport's: each does nothing when what it   *)
(* would tell is not there yet.                                            *)
ShutDown ==
  /\ LoopIsFree /\ task = "scheduled"
  /\ task' = "done"
  /\ IF target = "running" THEN told' = TRUE ELSE UNCHANGED told
  /\ UNCHANGED <<mainVars, signalVars, requested, timer, broken, inputVars, callVars,
                 exit, observerVars>>
-----------------------------------------------------------------------------
(* The read in the worker thread ends with a line; with nothing more to    *)
(* come; or because stdin was closed, which some systems do not notice.    *)
LineRead ==
  /\ Alive /\ reader = "reading" /\ reader' = "delivering"
  /\ UNCHANGED <<mainVars, signalVars, stopVars, stdin, eof, callVars, exit,
                 observerVars>>
EndOfInput ==
  /\ Alive /\ reader = "reading" /\ reader' = "gone" /\ eof' = TRUE
  /\ UNCHANGED <<mainVars, signalVars, stopVars, stdin, callVars, exit,
                 observerVars>>
ReadInterrupted ==
  /\ Alive /\ reader = "reading" /\ stdin = "closed" /\ reader' = "gone"
  /\ UNCHANGED <<mainVars, signalVars, stopVars, stdin, eof, callVars, exit,
                 observerVars>>

(* The next read, of a stream that may be closed by now (ValueError).      *)
NextRead == IF stdin = "closed" THEN "gone" ELSE "reading"

Accepted(call) ==
  /\ call \notin arrived
  /\ arrived' = arrived \cup {call} /\ inflight' = inflight \cup {call}

Deliver(call) ==
  /\ LoopIsFree /\ reader = "delivering" /\ ~ told
  /\ Accepted(call)
  /\ reader' = NextRead
  /\ UNCHANGED <<mainVars, signalVars, stopVars, stdin, eof, exit, observerVars>>

(* A seeded fault: a line that is no message ends the reader.              *)
DeliverInvalidAndLeave ==
  /\ LoopIsFree /\ reader = "delivering" /\ ~ told
  /\ reader' = "gone"
  /\ UNCHANGED <<mainVars, signalVars, stopVars, stdin, eof, callVars, exit,
                 observerVars>>

(* A line that is no message goes to the session as the exception it       *)
(* raised, and reading goes on.                                            *)
DeliverInvalid ==
  /\ LoopIsFree /\ reader = "delivering" /\ ~ told
  /\ reader' = NextRead
  /\ UNCHANGED <<mainVars, signalVars, stopVars, stdin, eof, callVars, exit,
                 observerVars>>

(* The cancelled reader leaves once its thread has come back.              *)
LeaveReader ==
  /\ LoopIsFree /\ reader = "delivering" /\ told
  /\ reader' = "gone"
  /\ UNCHANGED <<mainVars, signalVars, stopVars, stdin, eof, callVars, exit,
                 observerVars>>

Accept(call) ==
  /\ LoopIsFree /\ kind = "http" /\ main = "serving" /\ ~ told
  /\ Accepted(call)
  /\ UNCHANGED <<mainVars, signalVars, stopVars, inputVars, exit, observerVars>>

(* A call is handled to its end: its audit record is emitted.              *)
Finish(call) ==
  /\ LoopIsFree /\ call \in inflight
  /\ inflight' = inflight \ {call}
  /\ Emit
  /\ UNCHANGED <<mainVars, signalVars, stopVars, inputVars, arrived, exit>>

(* A call is cancelled, without a record: with the task group of stdio, or *)
(* by the SDK once the input has ended, which depends on its version; on   *)
(* http with the session manager's task group when the lifespan ends, for  *)
(* uvicorn waits for connections and a client may have left its call.      *)
CutShort(call) ==
  /\ LoopIsFree /\ (told \/ reader = "gone")
  /\ call \in inflight
  /\ inflight' = inflight \ {call}
  /\ UNCHANGED <<mainVars, signalVars, stopVars, inputVars, arrived, exit, observerVars>>

(* stdout_writer catches ClosedResourceError only: any other exception of  *)
(* a write cancels the task group.  Or uvicorn cannot bind its port.       *)
TransportFails ==
  /\ LoopIsFree /\ main = "serving" /\ ~ broken
  /\ kind = "http" => arrived = {}
  /\ told' = TRUE /\ broken' = TRUE
  /\ UNCHANGED <<mainVars, signalVars, requested, timer, task, inputVars, callVars, exit,
                 observerVars>>

Drained == IF kind = "stdio" THEN reader = "gone" ELSE told

(* The task groups have no task left: start and server.run return, or pass *)
(* on the exception.                                                       *)
Return ==
  /\ Alive /\ main = "serving" /\ Drained /\ inflight = {}
  /\ main' = "returned"
  /\ UNCHANGED <<kind, target, signalVars, stopVars, inputVars, callVars, exit,
                 observerVars>>

(* asyncio.run has closed the loop.                                        *)
Exit ==
  /\ Alive /\ main = "returned"
  /\ Ended(IF broken THEN "failed" ELSE "graceful")
  /\ UNCHANGED <<mainVars, signalVars, stopVars, inputVars, callVars>>

Work(action) ==
  /\ Alive /\ action
  /\ UNCHANGED <<mainVars, signalVars, stopVars, inputVars, callVars, exit>>
-----------------------------------------------------------------------------
StartUp == Configure \/ Create \/ Install \/ Prepare \/ Serve \/ FailToStart

Next ==
  \/ StartUp
  \/ Signal \/ FirstSignal \/ RepeatedSignal \/ ForceExit \/ ShutDown
  \/ LineRead \/ EndOfInput \/ ReadInterrupted
  \/ \E call \in Requests : Deliver(call) \/ Accept(call)
  \/ DeliverInvalid \/ LeaveReader
  \/ \E call \in Requests : Finish(call) \/ CutShort(call)
  \/ TransportFails \/ Return \/ Exit
  \/ Work(Take) \/ Work(Post) \/ Work(PostFails)

(* The loop runs what is ready and the timer expires; the worker takes     *)
(* records and a post ends, by its answer or by its timeout.  Nothing says *)
(* that input arrives, that a call's handler ends or that a read returns.  *)
Fairness ==
  /\ WF_vars(StartUp)
  /\ WF_vars(FirstSignal) /\ WF_vars(RepeatedSignal) /\ WF_vars(ForceExit)
  /\ WF_vars(ShutDown) /\ WF_vars(Return) /\ WF_vars(Exit)
  /\ WF_vars(Work(Take)) /\ WF_vars(Work(Post \/ PostFails))

Spec == Init /\ [][Next]_vars /\ Fairness
-----------------------------------------------------------------------------
LifeTypeOK ==
  /\ kind \in Transport /\ main \in Stages
  /\ target \in {"none", "made", "running"}
  /\ sent \in 0 .. MaxSignals /\ pending \in 0 .. sent
  /\ requested \in BOOLEAN /\ timer \in BOOLEAN /\ told \in BOOLEAN
  /\ broken \in BOOLEAN
  /\ task \in {"none", "scheduled", "done"}
  /\ stdin \in {"open", "closed"}
  /\ reader \in {"idle", "reading", "delivering", "gone"}
  /\ eof \in BOOLEAN
  /\ arrived \subseteq Requests /\ inflight \subseteq Requests
  /\ exit \in Ends \cup {"none"}

(* _handle_signal schedules server.shutdown() and forgets it: were there   *)
(* no transport yet, or no cancel scope, the request would be swallowed    *)
(* without a word.  Whenever it has run, the transport has been told.      *)
ShutdownReachesTransport == task = "done" => told

(* The server ends with success only when it was asked to or when its      *)
(* client is gone: no line on stdin stops it, and whoever started it sees  *)
(* from its exit that the transport broke.                                 *)
EndsForACause == exit = "graceful" => requested \/ eof

(* A signal ends the process, even one sent before the transport runs and  *)
(* even when a call never ends or the read of stdin cannot be interrupted. *)
SignalEndsProcess == (pending > 0) ~> ~ Alive

(* The worker outlives a service that answers badly or not at all: no      *)
(* record stays in the queue.                                              *)
EventsAreTaken ==
  \A record \in 1 .. Cardinality(Requests) : Queued(record) ~> ~ Queued(record)
=============================================================================
