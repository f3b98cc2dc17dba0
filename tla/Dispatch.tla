------------------------------ MODULE Dispatch ------------------------------
(***************************************************************************)
(* The life of a request in the server: server.py _dispatch_tool,          *)
(* _dispatch_resource and _dispatch_prompt with the checks of              *)
(* middleware/pipeline.py.                                                 *)
(*                                                                         *)
(* The MCP SDK runs every message in a task of its own on one event loop.  *)
(* A task gives way only where it awaits something: while the auth         *)
(* provider fetches signing keys, and in the extension's handler.  An      *)
(* action is the code between two such points, so the checks before        *)
(* authentication are one step and those after it another.  A provider     *)
(* that has nothing to fetch does not give way: the model then has more    *)
(* interleavings than the server.                                          *)
(*                                                                         *)
(* The two pieces of state that requests share are taken at their          *)
(* promise: replay prevention as NonceRegistry (which ReplayGuard          *)
(* implements), the rate limiter as TokenBuckets (which RateLimiter        *)
(* implements).  Contents of requests are abstracted to the check they     *)
(* fail; an identity, a digest or a transaction id is named after the      *)
(* request it comes from.                                                  *)
(***************************************************************************)
EXTENDS Integers, Sequences, FiniteSets

CONSTANTS
  Requests,   \* the messages that arrive
  Envelopes,  \* what a message may carry, a subset of Envelope
  AuthModes,  \* providers to consider: "none", "token", "apikey", "oauth"
  Spellings, Window, MaxTime,                       \* as in ReplayWindow
  Sessions, Tools, Unit, Burst, GlobalRate, ToolRate  \* as in BucketParameters

VARIABLES
  authMode,       \* the configured auth provider, fixed when the server starts
  recording,      \* FSS_PROVENANCE, likewise
  envelope,       \* what each request carries
  phase,          \* where each request is
  context,        \* the context variables of each task (fss_context.py)
  answer,         \* the response to each request
  audit,          \* the records emitted to the observer for each request
  now, accepted, verdict,                           \* as in NonceRegistry
  globalLevel, toolLevel, grantsSince, keyGrants    \* as in TokenBuckets

requestVars == <<phase, context, answer, audit>>
nonceVars == <<accepted, verdict>>
limiterVars == <<globalLevel, toolLevel, grantsSince, keyGrants>>
fixedVars == <<authMode, recording, envelope>>
vars == <<fixedVars, requestVars, now, nonceVars, limiterVars>>

Replay == INSTANCE NonceRegistry
Limiter == INSTANCE TokenBuckets

None == "none"
NoStamp == [at |-> -1, spelling |-> None]

(* credential and fit: what the message presents; "local" is a good        *)
(* credential of somebody called so.  digest: whether its arguments have a *)
(* CAI, as those with a NaN have none.  fault: the check its name or its   *)
(* arguments fail.                                                         *)
Envelope ==
  [kind : {"tool", "resource", "prompt"},
   session : Sessions,
   name : Tools,
   stamp : Replay!Stamp \cup {NoStamp},
   credential : {"absent", "bad", "good", "local"},
   fit : {"absent", "bad", "good"},
   digest : BOOLEAN,
   fault : {None, "unknown", "too_large", "too_deep", "colliding", "invalid"}]

(* Any finite number of messages, and a limiter as configuration loading   *)
(* lets through.                                                           *)
ASSUME DispatchConstants ==
  /\ IsFiniteSet(Requests)
  /\ Envelopes \subseteq Envelope
  /\ Unit \in Nat \ {0} /\ Burst \in Nat \ {0}
  /\ GlobalRate \in Nat \ {0} /\ ToolRate \in Nat \ {0}
  /\ MaxTime \in Nat

Kind(r) == envelope[r].kind
Fault(r) == envelope[r].fault
Quota(r) == <<envelope[r].session, envelope[r].name>>

(* Only a tool call reads X-Request-Timestamp.                             *)
Stamped(r) == Kind(r) = "tool" /\ envelope[r].stamp # NoStamp

(* Resources have no arguments to measure or to clean, prompts none to     *)
(* validate.                                                               *)
Measured(r) == Kind(r) \in {"tool", "prompt"}
Rejectable(r) ==
  CASE Kind(r) = "tool" -> {"too_deep", "colliding", "invalid"}
    [] Kind(r) = "prompt" -> {"too_deep", "colliding"}
    [] OTHER -> {}

(* request_context: a tool call brings the bearer token the transport      *)
(* received; resources and prompts are checked with an empty one.          *)
Presented(r) == IF Kind(r) = "tool" THEN envelope[r].credential ELSE "absent"
Authentic(r) == authMode = "none" \/ Presented(r) \in {"good", "local"}

(* Whether the identity is one to record: nobody is called "local" by the  *)
(* token provider, and everybody by the one that does not authenticate.    *)
Named(r) == authMode = "token" \/ (authMode # "none" /\ Presented(r) # "local")

(* A seeded fault: one context for all tasks.                              *)
ContextShared(r) == CHOOSE q \in Requests : TRUE

(* The task of a message runs in its own copy of the context.              *)
ContextOf(r) == r
Context(r) == context[ContextOf(r)]

FreshContext ==
  [txn |-> None, status |-> None, params |-> None, result |-> None,
   identity |-> None, fit |-> None]
-----------------------------------------------------------------------------
(* How a request leaves the server.                                        *)

(* build_provenance_record, from context c: only tools have records, and   *)
(* not even they when recording is off.                                    *)
NoRecord == FreshContext
Record(r, c) == IF Kind(r) = "tool" /\ recording THEN c ELSE NoRecord
Answer(r, c, code) == [code |-> code, provenance |-> Record(r, c)]

Event(r, c, code) == [code |-> code, txn |-> r, params |-> c.params]

Finish(r, a) ==
  /\ phase' = [phase EXCEPT ![r] = "answered"]
  /\ answer' = [answer EXCEPT ![r] = a]

Leave(r, c) == context' = [context EXCEPT ![ContextOf(r)] = c]

Emit(r, event) ==
  audit' = IF Kind(r) = "tool" THEN [audit EXCEPT ![r] = Append(@, event)] ELSE audit

(* _fss_error, and its McpError counterpart: the status is set back to     *)
(* "error" before the record is assembled and the observer told.           *)
Failed(r, c) == IF Kind(r) = "tool" THEN [c EXCEPT !.status = "error"] ELSE c
Fail(r, c, code) ==
  /\ Finish(r, Answer(r, Failed(r, c), code))
  /\ Emit(r, Event(r, c, code))

(* The caller returns _fss_error as it is.                                 *)
Refuse(r, c, code) == Fail(r, c, code) /\ Leave(r, Failed(r, c))

(* An exception nobody expects leaves the dispatch: the SDK puts its text  *)
(* into an answer of its own, and the observer is told nothing.  "broken"  *)
(* is "raised" after the quota was charged.                                *)
Escape(r, outcome) ==
  /\ phase' = [phase EXCEPT ![r] = outcome]
  /\ UNCHANGED <<answer, audit>>

(* The error code of the check that failed.                                *)
PipelineCode(cause) ==
  CASE cause = "replay" -> "FSS_REPLAY_REJECTED"
    [] cause = "too_large" -> "REQUEST_TOO_LARGE"
    [] cause = "auth" -> "AUTH_ERROR"
    [] cause = "fit" -> "FSS_AUTH_DENIED"
    [] cause = "quota" -> "RATE_LIMIT_EXCEEDED"
    [] cause = "too_deep" -> "SANITIZATION_DEPTH_EXCEEDED"
    [] cause = "colliding" -> "KEY_COLLISION"
    [] cause = "invalid" -> "VALIDATION_ERROR"

(* What a tool's client is told, derived from words in the pipeline's code. *)
FssCode(r, cause) ==
  CASE cause = "auth" /\ Presented(r) = "absent" -> "FSS_AUTH_REQUIRED"
    [] cause = "auth" /\ Presented(r) # "absent" -> "FSS_AUTH_DENIED"
    [] cause = "fit" -> "FSS_AUTH_DENIED"
    [] cause = "quota" -> "FSS_RATE_LIMITED"
    [] cause = "replay" -> "FSS_REPLAY_REJECTED"
    [] OTHER -> "FSS_PARAM_INVALID"

Block(r, c, cause) ==
  Refuse(r, c, IF Kind(r) = "tool" THEN FssCode(r, cause) ELSE PipelineCode(cause))
-----------------------------------------------------------------------------
(* From the arrival of a message to the await of the auth provider.        *)

Opened(r) ==
  IF Kind(r) = "tool" THEN [Context(r) EXCEPT !.txn = r, !.status = "error"] ELSE Context(r)

(* A digest that cannot be computed is done without.                       *)
Digest(r) == IF envelope[r].digest THEN r ELSE None
Described(r) ==
  IF Kind(r) = "tool" THEN [Opened(r) EXCEPT !.params = Digest(r)] ELSE Context(r)

Arrives(r) == phase[r] = "new" /\ UNCHANGED <<fixedVars, now, limiterVars>>

RefuseUnknown(r) ==
  /\ Arrives(r)
  /\ Fault(r) = "unknown"
  /\ Refuse(r, Opened(r), IF Kind(r) = "tool" THEN "FSS_TOOL_UNAVAILABLE" ELSE "INVALID_PARAMS")
  /\ UNCHANGED nonceVars

(* _check_replay, its verdict left to the registry.                        *)
PassesReplay(r) ==
  IF Stamped(r)
  THEN /\ Replay!Judged(envelope[r].stamp) = "accepted"
       /\ Replay!Present(envelope[r].stamp)
  ELSE UNCHANGED nonceVars

BlockReplay(r) ==
  /\ Arrives(r)
  /\ Fault(r) # "unknown"
  /\ Stamped(r)
  /\ Replay!Judged(envelope[r].stamp) # "accepted"
  /\ Replay!Present(envelope[r].stamp)
  /\ Block(r, Described(r), "replay")

(* The timestamp is used up although the request goes no further.          *)
BlockTooLarge(r) ==
  /\ Arrives(r)
  /\ Measured(r) /\ Fault(r) = "too_large"
  /\ PassesReplay(r)
  /\ Block(r, Described(r), "too_large")

(* A seeded fault: the timestamp is looked up and not recorded.            *)
AwaitAuthUnrecorded(r) ==
  /\ Arrives(r)
  /\ Fault(r) # "unknown"
  /\ Measured(r) => Fault(r) # "too_large"
  /\ Stamped(r) => Replay!Judged(envelope[r].stamp) = "accepted"
  /\ UNCHANGED nonceVars
  /\ Leave(r, Described(r))
  /\ phase' = [phase EXCEPT ![r] = "authenticating"]
  /\ UNCHANGED <<answer, audit>>

(* Nothing stops the request so far.                                       *)
AwaitAuth(r) ==
  /\ Arrives(r)
  /\ Fault(r) # "unknown"
  /\ Measured(r) => Fault(r) # "too_large"
  /\ PassesReplay(r)
  /\ Leave(r, Described(r))
  /\ phase' = [phase EXCEPT ![r] = "authenticating"]
  /\ UNCHANGED <<answer, audit>>

Arrive(r) == RefuseUnknown(r) \/ BlockReplay(r) \/ BlockTooLarge(r) \/ AwaitAuth(r)
-----------------------------------------------------------------------------
(* From the provider's verdict to the await of the handler.                *)

Resumes(r) == phase[r] = "authenticating" /\ UNCHANGED <<fixedVars, now, nonceVars>>

(* _run_auth records the identity, _run_fit the claims of the token.       *)
Identified(r) ==
  IF Named(r) THEN [Context(r) EXCEPT !.identity = r] ELSE Context(r)
FitPresented(r) == IF Kind(r) = "tool" THEN envelope[r].fit ELSE "absent"
Verified(r) ==
  IF FitPresented(r) = "good" THEN [Identified(r) EXCEPT !.fit = r] ELSE Identified(r)

(* A good JWT is refused as well when the signing keys cannot be fetched.  *)
BlockAuth(r) ==
  /\ Resumes(r)
  /\ ~ Authentic(r) \/ authMode = "oauth"
  /\ Block(r, Context(r), "auth")
  /\ UNCHANGED limiterVars

(* Only an AuthError is caught.  A file of API keys that is JSON and no    *)
(* object makes every lookup of a key raise another.                       *)
AuthRaises(r) ==
  /\ Resumes(r)
  /\ authMode = "apikey" /\ Presented(r) # "absent"
  /\ Escape(r, "raised")
  /\ UNCHANGED <<context, limiterVars>>

BlockFit(r) ==
  /\ Resumes(r)
  /\ Authentic(r)
  /\ FitPresented(r) = "bad"
  /\ Block(r, Identified(r), "fit")
  /\ UNCHANGED limiterVars

(* Only a FITVerificationError is caught, and a FIT can have claims that   *)
(* make a step of its verification raise another.                          *)
FitRaises(r) ==
  /\ Resumes(r)
  /\ Authentic(r)
  /\ FitPresented(r) = "bad"
  /\ Leave(r, Identified(r))
  /\ Escape(r, "raised")
  /\ UNCHANGED limiterVars

Trusted(r) == Resumes(r) /\ Authentic(r) /\ FitPresented(r) # "bad"

(* One of the two buckets is empty.                                        *)
BlockQuota(r) ==
  /\ Trusted(r)
  /\ globalLevel < Unit \/ toolLevel[Quota(r)] < Unit
  /\ Block(r, Verified(r), "quota")
  /\ UNCHANGED limiterVars

(* A seeded fault: tokens are taken whether there are any or not.          *)
ChargeUnchecked(r) ==
  /\ globalLevel' = globalLevel - Unit
  /\ toolLevel' = [toolLevel EXCEPT ![Quota(r)] = @ - Unit]
  /\ UNCHANGED <<grantsSince, keyGrants>>

(* RateLimiter.check takes a token of each bucket, or the request is       *)
(* denied.                                                                 *)
Charge(r) == Limiter!Allow(Quota(r))

(* A seeded fault: arguments are cleaned before the quota is charged.      *)
BlockContentUncharged(r) ==
  /\ Trusted(r)
  /\ Fault(r) \in Rejectable(r)
  /\ Block(r, Verified(r), Fault(r))
  /\ UNCHANGED limiterVars

(* Sanitisation and validation come after the quota was charged.           *)
BlockContent(r) ==
  /\ Trusted(r)
  /\ Fault(r) \in Rejectable(r)
  /\ Charge(r)
  /\ Block(r, Verified(r), Fault(r))

(* A tool's schema is looked at by nobody before arguments are compared    *)
(* with it, and one that is malformed makes the comparison raise.          *)
SchemaRaises(r) ==
  /\ Trusted(r)
  /\ Kind(r) = "tool" /\ Fault(r) = "invalid"
  /\ Charge(r)
  /\ Leave(r, Verified(r))
  /\ Escape(r, "broken")

StartHandler(r) ==
  /\ Trusted(r)
  /\ Fault(r) \notin Rejectable(r)
  /\ Charge(r)
  /\ Leave(r, Verified(r))
  /\ phase' = [phase EXCEPT ![r] = "handling"]
  /\ UNCHANGED <<answer, audit>>

Resume(r) ==
  \/ BlockAuth(r) \/ AuthRaises(r) \/ BlockFit(r) \/ FitRaises(r) \/ BlockQuota(r)
  \/ BlockContent(r) \/ SchemaRaises(r) \/ StartHandler(r)
-----------------------------------------------------------------------------
(* From the handler's outcome to the answer.                               *)

Returns(r) == phase[r] = "handling" /\ UNCHANGED <<fixedVars, now, nonceVars, limiterVars>>

(* TimeoutError, FSSCoreError, any other exception.                        *)
HandlerErrors(r) ==
  IF Kind(r) = "tool"
  THEN {"FSS_EXECUTION_INTERRUPTED", "FSS_EXECUTION_FAILED", "FSS_INTERNAL_ERROR"}
  ELSE {"INTERNAL_ERROR"}

HandlerFails(r) ==
  /\ Returns(r)
  /\ \E code \in HandlerErrors(r) : Refuse(r, Context(r), code)

(* The context as step 6 leaves it for the record, and as its finally      *)
(* clause leaves the task.                                                 *)
Completed(r) == [Context(r) EXCEPT !.result = r, !.status = "success"]
Cleared(c) == [FreshContext EXCEPT !.fit = c.fit]
LeaveCleared(r) == IF Kind(r) = "tool" THEN Leave(r, Cleared(Context(r))) ELSE UNCHANGED context

(* The result cannot be serialised, or it is larger than a response may    *)
(* be: by then its digest is in the context, and in the error's record.    *)
ResultRefused(r) ==
  /\ Returns(r)
  /\ \E c \in {Context(r), Completed(r)} :
       Fail(r, c, IF Kind(r) = "tool" THEN "FSS_INTERNAL_ERROR" ELSE "INTERNAL_ERROR")
  /\ LeaveCleared(r)

(* A seeded fault: the observer is told from the context already cleared.  *)
ReplyAuditedLate(r) ==
  /\ Returns(r)
  /\ Finish(r, Answer(r, Completed(r), "ok"))
  /\ Emit(r, Event(r, Cleared(Context(r)), "ok"))
  /\ LeaveCleared(r)

(* A result nested too deep for the JSON codec raises a RecursionError,    *)
(* which step 6 does not catch; its finally clause runs all the same.      *)
ResultRaises(r) ==
  /\ Returns(r)
  /\ Escape(r, "broken")
  /\ LeaveCleared(r)

(* The result is measured, recorded, reported from the record, if there is *)
(* one, and returned.                                                      *)
Reply(r) ==
  /\ Returns(r)
  /\ Finish(r, Answer(r, Completed(r), "ok"))
  /\ Emit(r, Event(r, Record(r, Completed(r)), "ok"))
  /\ LeaveCleared(r)

HandlerEnds(r) == HandlerFails(r) \/ ResultRefused(r) \/ ResultRaises(r) \/ Reply(r)

(* The client withdraws the request, or its connection goes away: the task *)
(* is cancelled where it waits.  Nothing of what it did is undone, nothing *)
(* is emitted.                                                             *)
Cancel(r) ==
  /\ phase[r] \in {"authenticating", "handling"}
  /\ phase' = [phase EXCEPT ![r] = IF @ = "handling" THEN "aborted" ELSE "cancelled"]
  /\ UNCHANGED <<fixedVars, context, answer, audit, now, nonceVars, limiterVars>>
-----------------------------------------------------------------------------
Tick == Limiter!Tick /\ UNCHANGED <<fixedVars, requestVars, nonceVars>>

NoAnswer == [code |-> None]

Init ==
  /\ authMode \in AuthModes /\ recording \in BOOLEAN
  /\ envelope \in [Requests -> Envelopes]
  /\ phase = [r \in Requests |-> "new"]
  /\ context = [r \in Requests |-> FreshContext]
  /\ answer = [r \in Requests |-> NoAnswer]
  /\ audit = [r \in Requests |-> << >>]
  /\ Replay!Init
  /\ Limiter!Init

Next ==
  \/ Tick
  \/ \E r \in Requests : Arrive(r) \/ Resume(r) \/ HandlerEnds(r) \/ Cancel(r)

Spec == Init /\ [][Next]_vars
-----------------------------------------------------------------------------
Phases ==
  {"new", "authenticating", "handling", "answered", "raised", "broken", "cancelled", "aborted"}
Source == Requests \cup {None}
ContextRecord ==
  [txn : Source, status : {None, "error", "success"}, params : Source, result : Source,
   identity : Source, fit : Source]

TypeOK ==
  /\ authMode \in AuthModes /\ recording \in BOOLEAN
  /\ envelope \in [Requests -> Envelope]
  /\ phase \in [Requests -> Phases]
  /\ context \in [Requests -> ContextRecord]
  /\ \A r \in Requests :
       IF phase[r] = "answered" THEN answer[r].provenance \in ContextRecord
                                ELSE answer[r] = NoAnswer
  /\ Limiter!TypeOK
  /\ accepted \subseteq Replay!Stamp

Answered(r, codes) == phase[r] = "answered" /\ answer[r].code \in codes
HandlerCodes(r) == {"ok"} \cup HandlerErrors(r)
Refusals(r) == {PipelineCode(Fault(r)), FssCode(r, Fault(r))}

(* Retries race each other: of all tool calls that carry one timestamp, in *)
(* flight, answered or withdrawn, at most one gets past the replay check.  *)
(* The registry is read and written before the first await                 *)
(* (_check_replay, FSS-0003 7.3).                                          *)
PastReplay(r) ==
  /\ Stamped(r)
  /\ phase[r] # "new"
  /\ ~ Answered(r, {"FSS_TOOL_UNAVAILABLE", "FSS_REPLAY_REJECTED"})
TimestampUsedOnce ==
  \A r, q \in Requests :
    PastReplay(r) /\ PastReplay(q) /\ envelope[r].stamp = envelope[q].stamp => r = q

(* The record of an answer is about that answer's request only, whatever   *)
(* ran between its awaits: its transaction, its arguments if they have a   *)
(* digest, its result, the identity that was authenticated for it and the  *)
(* FIT that was verified for it ("without leaking between concurrent       *)
(* requests", fss_context.py); "success" is said of successes and of       *)
(* nothing else.  There is one exactly when records are kept.              *)
OwnRecord(r, p) ==
  /\ p.txn = r
  /\ p.params = IF Fault(r) = "unknown" THEN None ELSE Digest(r)
  /\ p.status = "success" <=> answer[r].code = "ok"
  /\ p.identity = None \/ (p.identity = r /\ Authentic(r) /\ Named(r))
  /\ p.fit = None \/ (p.fit = r /\ envelope[r].fit = "good")
  /\ p.result = None \/ (p.result = r /\ answer[r].code \in HandlerCodes(r))
  /\ answer[r].code \in HandlerCodes(r) =>
       /\ p.identity = IF Named(r) THEN r ELSE None
       /\ p.fit = IF envelope[r].fit = "good" THEN r ELSE None
Recorded(r) ==
  IF recording THEN OwnRecord(r, answer[r].provenance) ELSE answer[r].provenance = NoRecord
ProvenanceIsOwn ==
  \A r \in Requests : phase[r] = "answered" /\ Kind(r) = "tool" => Recorded(r)

(* Quota is spent on the requests that were admitted, once on each, and on *)
(* nothing else: a request stopped by replay, size, identity or FIT checks *)
(* ("Order: Replay, I/O limits, Auth, Rate limit, Sanitize, Validate"), or *)
(* by an exception in them, takes no token; one whose arguments are        *)
(* refused later, that is withdrawn while its handler runs or that breaks  *)
(* afterwards keeps its token spent.                                       *)
Admitted(r) ==
  \/ phase[r] \in {"handling", "aborted", "broken"}
  \/ Answered(r, HandlerCodes(r))
  \/ Fault(r) \in Rejectable(r) /\ Answered(r, Refusals(r))
QuotaSpentOnAdmission ==
  /\ grantsSince[0] = Cardinality({r \in Requests : Admitted(r)})
  /\ \A k \in Limiter!Keys :
       keyGrants[k][0] = Cardinality({r \in Requests : Admitted(r) /\ Quota(r) = k})

(* The observer hears exactly once of every tool call that the server      *)
(* itself answers, with the answer's code and transaction and with the     *)
(* arguments of its record; without records it may name the call's own     *)
(* arguments or none.  It hears nothing of a call that was withdrawn, or   *)
(* left to the SDK by an exception.                                        *)
Audited(r) ==
  IF phase[r] = "answered" /\ Kind(r) = "tool"
  THEN \E params \in {None, r} :
         /\ audit[r] = <<[code |-> answer[r].code, txn |-> r, params |-> params]>>
         /\ recording => params = answer[r].provenance.params
  ELSE audit[r] = << >>
AuditMatchesAnswer == \A r \in Requests : Audited(r)

(* What the documentation says of it.                                      *)

(* "Build request context for auth (populated by transport layer for       *)
(* HTTP)" (_dispatch_resource, _dispatch_prompt): with a configured token, *)
(* a client that presents it is not refused for want of authentication.    *)
CredentialsReachAuth ==
  authMode = "token" =>
    \A r \in Requests :
      envelope[r].credential = "good" =>
        ~ Answered(r, {"AUTH_ERROR", "FSS_AUTH_REQUIRED"})

(* "Every tool response includes a `_provenance` block" (README.md): also  *)
(* the one to a call that an exception ends, as long as records are kept.  *)
Responded(r) == phase[r] \in {"answered", "raised", "broken"}
EveryResponseHasRecord ==
  recording =>
    \A r \in Requests :
      Kind(r) = "tool" /\ Responded(r) => answer[r].code # None /\ answer[r].provenance # NoRecord
=============================================================================
