--------------------------- MODULE DispatchProofs ---------------------------
(***************************************************************************)
(* Proofs about request dispatch, for any number of concurrent requests of *)
(* any kind, any provider and any interleaving of the tasks.               *)
(*                                                                         *)
(* What a request leaves behind is its own, so the invariant has a local   *)
(* part, which a step of a request can disturb for that request only; only *)
(* the use of timestamps relates requests to each other.                   *)
(***************************************************************************)
EXTENDS Dispatch, FiniteSetTheorems, TLAPS

IsMap(f) == f = [r \in Requests |-> f[r]]
Maps == IsMap(phase) /\ IsMap(context) /\ IsMap(answer) /\ IsMap(audit)

(* The context of a task whose request is being checked, and of one whose  *)
(* request passed the checks of identity and FIT.                          *)
CheckedContext(r) ==
  IF Kind(r) = "tool"
  THEN [FreshContext EXCEPT !.txn = r, !.status = "error", !.params = Digest(r)]
  ELSE FreshContext
TrustedContext(r) ==
  [CheckedContext(r) EXCEPT !.identity = IF Named(r) THEN r ELSE None,
                            !.fit = IF FitPresented(r) = "good" THEN r ELSE None]

Local(r) ==
  /\ phase[r] = "new" => context[r] = FreshContext
  /\ phase[r] = "authenticating" => context[r] = CheckedContext(r) /\ Fault(r) # "unknown"
  /\ phase[r] = "handling" =>
       context[r] = TrustedContext(r) /\ Fault(r) # "unknown" /\ Authentic(r)
  /\ phase[r] = "answered" /\ Kind(r) = "tool" => Recorded(r)
  /\ Audited(r)

(* A timestamp that was used is registered.                                *)
Registered == \A r \in Requests : PastReplay(r) => envelope[r].stamp \in accepted

DispatchInv == Maps /\ (\A r \in Requests : Local(r)) /\ Registered /\ TimestampUsedOnce

(* The steps of one request.                                               *)
StepOf(r) == Arrive(r) \/ Resume(r) \/ HandlerEnds(r) \/ Cancel(r)
Untouched(q) ==
  /\ phase'[q] = phase[q]
  /\ context'[q] = context[q]
  /\ answer'[q] = answer[q]
  /\ audit'[q] = audit[q]
-----------------------------------------------------------------------------
(* A step of r keeps every other request as it is.                         *)
LEMMA Locality ==
  ASSUME Maps, NEW r \in Requests, StepOf(r)
  PROVE  Maps' /\ (\A q \in Requests \ {r} : Untouched(q)) /\ UNCHANGED fixedVars
<1> USE DEF Maps, IsMap, Untouched, Finish, Leave, Emit, Fail, Refuse, Block, ContextOf, Escape
<1>1. CASE RefuseUnknown(r)
  BY <1>1 DEF RefuseUnknown, Arrives
<1>2. CASE BlockReplay(r)
  BY <1>2 DEF BlockReplay, Arrives
<1>3. CASE BlockTooLarge(r)
  BY <1>3 DEF BlockTooLarge, Arrives
<1>4. CASE AwaitAuth(r)
  BY <1>4 DEF AwaitAuth, Arrives
<1>5. CASE BlockAuth(r)
  BY <1>5 DEF BlockAuth, Resumes
<1>6. CASE BlockFit(r)
  BY <1>6 DEF BlockFit, Resumes
<1>7. CASE BlockQuota(r)
  BY <1>7 DEF BlockQuota, Trusted, Resumes
<1>8. CASE BlockContent(r)
  BY <1>8 DEF BlockContent, Trusted, Resumes
<1>9. CASE StartHandler(r)
  BY <1>9 DEF StartHandler, Trusted, Resumes
<1>10. CASE HandlerFails(r)
  BY <1>10 DEF HandlerFails, Returns
<1>11. CASE ResultRefused(r)
  BY <1>11 DEF ResultRefused, Returns, LeaveCleared
<1>12. CASE Reply(r)
  BY <1>12 DEF Reply, Returns, LeaveCleared
<1>13. CASE Cancel(r)
  BY <1>13 DEF Cancel
<1>14. CASE AuthRaises(r)
  BY <1>14 DEF AuthRaises, Resumes
<1>15. CASE FitRaises(r)
  BY <1>15 DEF FitRaises, Resumes
<1>16. CASE SchemaRaises(r)
  BY <1>16 DEF SchemaRaises, Trusted, Resumes
<1>17. CASE ResultRaises(r)
  BY <1>17 DEF ResultRaises, Returns, LeaveCleared
<1> QED
  BY <1>1, <1>2, <1>3, <1>4, <1>5, <1>6, <1>7, <1>8, <1>9, <1>10, <1>11, <1>12, <1>13,
     <1>14, <1>15, <1>16, <1>17
     DEF StepOf, Arrive, Resume, HandlerEnds
-----------------------------------------------------------------------------
(* An untouched request keeps its part of the invariant.                   *)
LEMMA UntouchedLocal ==
  ASSUME NEW q \in Requests, Local(q), Untouched(q), UNCHANGED fixedVars
  PROVE  Local(q)'
<1> USE DEF Untouched, fixedVars, Kind, Fault, Digest, Presented, Named, Authentic
<1>1. CheckedContext(q)' = CheckedContext(q) /\ TrustedContext(q)' = TrustedContext(q)
  BY DEF CheckedContext, TrustedContext, FitPresented
<1>2. Recorded(q)' <=> Recorded(q)
  BY DEF Recorded, OwnRecord, HandlerCodes, HandlerErrors
<1>3. Audited(q)'
  BY DEF Local, Audited
<1> QED
  BY <1>1, <1>2, <1>3 DEF Local

(* What a record says of a request whose handler has not run.              *)
Early(r, c) ==
  /\ c.txn = r
  /\ c.params = IF Fault(r) = "unknown" THEN None ELSE Digest(r)
  /\ c.identity = None \/ (c.identity = r /\ Authentic(r) /\ Named(r))
  /\ c.fit = None \/ (c.fit = r /\ envelope[r].fit = "good")
  /\ c.result = None

(* The answer, its record and its event, from a context whose status is    *)
(* that of the answer.                                                     *)
LEMMA AnsweredLocal ==
  ASSUME NEW r \in Requests, Kind(r) = "tool", UNCHANGED fixedVars, NEW code, NEW p, NEW params,
         phase'[r] = "answered",
         answer'[r] = [code |-> code, provenance |-> IF recording THEN p ELSE NoRecord],
         audit'[r] = <<[code |-> code, txn |-> r, params |-> params]>>,
         params \in {None, r}, recording => params = p.params,
         answer'[r].code = code => OwnRecord(r, p)'
  PROVE  Local(r)'
<1>1. answer'[r].code = code /\ answer'[r].provenance = IF recording THEN p ELSE NoRecord
  OBVIOUS
<1>2. recording' = recording /\ envelope' = envelope
  BY DEF fixedVars
<1>3. Recorded(r)'
  BY <1>1, <1>2 DEF Recorded, NoRecord
<1>4. Audited(r)'
  BY <1>1, <1>2 DEF Audited, Kind
<1> QED
  BY <1>3, <1>4 DEF Local

(* A refusal before the handler has run leaves a record of the request's   *)
(* own: c is what its context held.                                        *)
LEMMA RefusalLocal ==
  ASSUME Maps, NEW r \in Requests, NEW c \in ContextRecord, NEW code,
         Refuse(r, c, code), UNCHANGED fixedVars,
         phase[r] # "answered", Audited(r), code \notin HandlerCodes(r),
         Kind(r) = "tool" => Early(r, c)
  PROVE  Local(r)'
<1>1. /\ phase'[r] = "answered"
      /\ answer'[r] = Answer(r, Failed(r, c), code)
      /\ envelope' = envelope /\ authMode' = authMode
  BY DEF Refuse, Fail, Finish, Maps, IsMap, fixedVars
<1>2. audit[r] = << >>
  BY DEF Audited
<1>3. audit'[r] = IF Kind(r) = "tool" THEN <<Event(r, c, code)>> ELSE << >>
  BY <1>2 DEF Refuse, Fail, Emit, Maps, IsMap
<1>4. CASE Kind(r) = "tool"
  <2> DEFINE p == [c EXCEPT !.status = "error"]
  <2>1. answer'[r] = [code |-> code, provenance |-> IF recording THEN p ELSE NoRecord]
    BY <1>1, <1>4 DEF Answer, Failed, Record
  <2>2. /\ p.txn = c.txn /\ p.params = c.params /\ p.identity = c.identity
        /\ p.fit = c.fit /\ p.result = c.result /\ p.status = "error"
    BY DEF ContextRecord
  <2>3. audit'[r] = <<[code |-> code, txn |-> r, params |-> c.params]>>
    BY <1>3, <1>4 DEF Event
  <2> HIDE DEF p
  <2>4. c.params \in {None, r}
    BY <1>4 DEF Early, Digest
  <2>5. code \notin HandlerCodes(r)' /\ code # "ok"
    BY <1>1 DEF HandlerCodes, HandlerErrors, Kind
  <2>6. ASSUME answer'[r].code = code PROVE OwnRecord(r, p)'
    BY <1>1, <1>4, <2>2, <2>5, <2>6
       DEF Early, OwnRecord, Kind, Fault, Digest, Authentic, Named, Presented
  <2> QED
    BY <1>1, <1>4, <2>1, <2>2, <2>3, <2>4, <2>6, AnsweredLocal
<1>5. CASE Kind(r) # "tool"
  BY <1>1, <1>3, <1>5 DEF Local, Audited, Kind
<1> QED
  BY <1>4, <1>5
-----------------------------------------------------------------------------
LEMMA ContextsAreRecords ==
  ASSUME NEW r \in Requests
  PROVE  /\ FreshContext \in ContextRecord
         /\ CheckedContext(r) \in ContextRecord
         /\ TrustedContext(r) \in ContextRecord
<1>1. FreshContext \in ContextRecord
  BY DEF FreshContext, ContextRecord, Source
<1>2. CheckedContext(r) \in ContextRecord
  BY <1>1 DEF CheckedContext, Digest, FreshContext, ContextRecord, Source
<1>3. TrustedContext(r) \in ContextRecord
  BY <1>2 DEF TrustedContext, ContextRecord, Source
<1> QED
  BY <1>1, <1>2, <1>3

(* What the context holds when a request leaves each of its phases.        *)
LEMMA ContextWhenNew ==
  ASSUME NEW r \in Requests, Local(r), phase[r] = "new"
  PROVE  /\ Described(r) = CheckedContext(r)
         /\ Opened(r) = IF Kind(r) = "tool"
                        THEN [FreshContext EXCEPT !.txn = r, !.status = "error"]
                        ELSE FreshContext
  BY DEF Local, Described, Opened, CheckedContext, Context, ContextOf, FreshContext

LEMMA ContextWhenChecked ==
  ASSUME NEW r \in Requests, Local(r), phase[r] = "authenticating"
  PROVE  /\ Context(r) = CheckedContext(r)
         /\ Identified(r) = [CheckedContext(r) EXCEPT
                               !.identity = IF Named(r) THEN r ELSE None]
         /\ Verified(r) = TrustedContext(r)
<1>1. Context(r) = CheckedContext(r)
  BY DEF Local, Context, ContextOf
<1>2. CheckedContext(r).identity = None /\ CheckedContext(r).fit = None
  BY DEF CheckedContext, FreshContext
<1>3. CheckedContext(r) \in ContextRecord
  BY ContextsAreRecords
<1>4. Identified(r) = [CheckedContext(r) EXCEPT !.identity = IF Named(r) THEN r ELSE None]
  BY <1>1, <1>2, <1>3 DEF Identified, ContextRecord
<1>5. Verified(r) = TrustedContext(r)
  BY <1>2, <1>3, <1>4 DEF Verified, TrustedContext, ContextRecord
<1> QED
  BY <1>1, <1>4, <1>5

(* A block names no handler's code.                                        *)
LEMMA BlockCodes ==
  ASSUME NEW r \in Requests, NEW cause, Kind(r) = "tool"
  PROVE  FssCode(r, cause) \notin HandlerCodes(r)
  BY DEF FssCode, HandlerCodes, HandlerErrors

LEMMA BlockLocal ==
  ASSUME Maps, NEW r \in Requests, NEW c \in ContextRecord, NEW cause,
         Block(r, c, cause), UNCHANGED fixedVars,
         phase[r] # "answered", Audited(r), Kind(r) = "tool" => Early(r, c)
  PROVE  Local(r)'
<1>1. CASE Kind(r) = "tool"
  <2>1. Refuse(r, c, FssCode(r, cause))
    BY <1>1 DEF Block
  <2> QED
    BY <1>1, <2>1, BlockCodes, RefusalLocal
<1>2. CASE Kind(r) # "tool"
  <2>1. Refuse(r, c, PipelineCode(cause))
    BY <1>2 DEF Block
  <2>2. /\ phase'[r] = "answered" /\ envelope' = envelope
        /\ audit'[r] = audit[r] /\ audit[r] = << >>
    BY <1>2, <2>1 DEF Refuse, Fail, Finish, Emit, Maps, IsMap, fixedVars, Audited
  <2> QED
    BY <1>2, <2>2 DEF Local, Audited, Kind
<1> QED
  BY <1>1, <1>2
-----------------------------------------------------------------------------
(* A step of a request keeps its own part of the invariant.                *)
LEMMA ArriveLocal ==
  ASSUME Maps, NEW r \in Requests, Local(r), Arrive(r)
  PROVE  Local(r)'
<1>1. phase[r] = "new" /\ UNCHANGED fixedVars /\ Audited(r)
  BY DEF Arrive, RefuseUnknown, BlockReplay, BlockTooLarge, AwaitAuth, Arrives, Local
<1>2. Described(r) = CheckedContext(r)
  BY <1>1, ContextWhenNew
<1>3. CheckedContext(r) \in ContextRecord
  BY ContextsAreRecords
<1>4. Kind(r) = "tool" =>
        /\ CheckedContext(r).txn = r /\ CheckedContext(r).params = Digest(r)
        /\ CheckedContext(r).identity = None /\ CheckedContext(r).fit = None
        /\ CheckedContext(r).result = None
  BY DEF CheckedContext, FreshContext
<1>5. CASE RefuseUnknown(r)
  <2>1. Opened(r) = IF Kind(r) = "tool"
                    THEN [FreshContext EXCEPT !.txn = r, !.status = "error"] ELSE FreshContext
    BY <1>1, ContextWhenNew
  <2>2. Opened(r) \in ContextRecord
    <3>1. FreshContext \in ContextRecord
      BY ContextsAreRecords
    <3>2. [FreshContext EXCEPT !.txn = r, !.status = "error"] \in ContextRecord
      BY <3>1 DEF ContextRecord, Source
    <3> QED
      BY <2>1, <3>1, <3>2
  <2>3. Kind(r) = "tool" =>
          /\ Opened(r).txn = r /\ Opened(r).params = None
          /\ Opened(r).identity = None /\ Opened(r).fit = None /\ Opened(r).result = None
    BY <2>1 DEF FreshContext
  <2> DEFINE code == IF Kind(r) = "tool" THEN "FSS_TOOL_UNAVAILABLE" ELSE "INVALID_PARAMS"
  <2>4. Refuse(r, Opened(r), code) /\ Fault(r) = "unknown"
    BY <1>5 DEF RefuseUnknown
  <2>5. code \notin HandlerCodes(r)
    BY DEF HandlerCodes, HandlerErrors
  <2> HIDE DEF code
  <2> QED
    BY <1>1, <2>2, <2>3, <2>4, <2>5, RefusalLocal DEF Early
<1>6. CASE BlockReplay(r)
  <2>1. Block(r, CheckedContext(r), "replay") /\ Fault(r) # "unknown"
    BY <1>2, <1>6 DEF BlockReplay
  <2> QED
    BY <1>1, <1>3, <1>4, <2>1, BlockLocal DEF Early
<1>7. CASE BlockTooLarge(r)
  <2>1. Block(r, CheckedContext(r), "too_large") /\ Fault(r) # "unknown"
    BY <1>2, <1>7 DEF BlockTooLarge
  <2> QED
    BY <1>1, <1>3, <1>4, <2>1, BlockLocal DEF Early
<1>8. CASE AwaitAuth(r)
  <2>1. /\ phase'[r] = "authenticating" /\ context'[r] = CheckedContext(r)
        /\ audit'[r] = audit[r] /\ Fault(r) # "unknown"
    BY <1>2, <1>8 DEF AwaitAuth, Leave, ContextOf, Maps, IsMap
  <2> QED
    BY <1>1, <2>1 DEF Local, Audited, CheckedContext, Digest, Kind, Fault, fixedVars
<1> QED
  BY <1>5, <1>6, <1>7, <1>8 DEF Arrive

LEMMA ResumeLocal ==
  ASSUME Maps, NEW r \in Requests, Local(r), Resume(r)
  PROVE  Local(r)'
<1>1. /\ phase[r] = "authenticating" /\ UNCHANGED fixedVars /\ Audited(r)
      /\ Fault(r) # "unknown"
  BY DEF Resume, BlockAuth, AuthRaises, BlockFit, FitRaises, BlockQuota, BlockContent,
         SchemaRaises, StartHandler, Trusted, Resumes, Local
<1>2. /\ Context(r) = CheckedContext(r)
      /\ Identified(r) = [CheckedContext(r) EXCEPT
                            !.identity = IF Named(r) THEN r ELSE None]
      /\ Verified(r) = TrustedContext(r)
  BY <1>1, ContextWhenChecked
<1>3. CheckedContext(r) \in ContextRecord /\ TrustedContext(r) \in ContextRecord
  BY ContextsAreRecords
<1>4. Kind(r) = "tool" =>
        /\ CheckedContext(r).txn = r /\ CheckedContext(r).params = Digest(r)
        /\ CheckedContext(r).identity = None /\ CheckedContext(r).fit = None
        /\ CheckedContext(r).result = None
  BY DEF CheckedContext, FreshContext
<1>5. Kind(r) = "tool" =>
        /\ TrustedContext(r).txn = r /\ TrustedContext(r).params = Digest(r)
        /\ TrustedContext(r).result = None
        /\ TrustedContext(r).identity = IF Named(r) THEN r ELSE None
        /\ TrustedContext(r).fit = None \/ (TrustedContext(r).fit = r /\ envelope[r].fit = "good")
  BY <1>3, <1>4 DEF TrustedContext, FitPresented, ContextRecord
<1>6. CASE BlockAuth(r)
  <2>1. Block(r, CheckedContext(r), "auth")
    BY <1>2, <1>6 DEF BlockAuth
  <2> QED
    BY <1>1, <1>3, <1>4, <2>1, BlockLocal DEF Early
<1>7. CASE BlockFit(r)
  <2>1. Block(r, Identified(r), "fit") /\ Authentic(r)
    BY <1>7 DEF BlockFit
  <2>2. Identified(r) \in ContextRecord
    BY <1>2, <1>3 DEF ContextRecord, Source
  <2>3. Kind(r) = "tool" =>
          /\ Identified(r).txn = r /\ Identified(r).params = Digest(r)
          /\ Identified(r).identity = IF Named(r) THEN r ELSE None
          /\ Identified(r).fit = None /\ Identified(r).result = None
    BY <1>2, <1>3, <1>4 DEF ContextRecord
  <2> QED
    BY <1>1, <2>1, <2>2, <2>3, BlockLocal DEF Early
<1>8. CASE BlockQuota(r)
  <2>1. Block(r, TrustedContext(r), "quota") /\ Authentic(r)
    BY <1>2, <1>8 DEF BlockQuota, Trusted
  <2> QED
    BY <1>1, <1>3, <1>5, <2>1, BlockLocal DEF Early
<1>9. CASE BlockContent(r)
  <2>1. Block(r, TrustedContext(r), Fault(r)) /\ Authentic(r)
    BY <1>2, <1>9 DEF BlockContent, Trusted
  <2> QED
    BY <1>1, <1>3, <1>5, <2>1, BlockLocal DEF Early
<1>10. CASE StartHandler(r)
  <2>1. /\ phase'[r] = "handling" /\ context'[r] = TrustedContext(r)
        /\ audit'[r] = audit[r] /\ Authentic(r)
    BY <1>2, <1>10 DEF StartHandler, Trusted, Leave, ContextOf, Maps, IsMap
  <2>2. /\ TrustedContext(r)' = TrustedContext(r)
        /\ Fault(r)' = Fault(r)
    BY <1>1 DEF TrustedContext, CheckedContext, FitPresented, Presented, Named, Digest, Kind,
                Fault, fixedVars
  <2>3. Authentic(r)'
    BY <1>1, <2>1 DEF Authentic, Presented, Kind, fixedVars
  <2> QED
    BY <1>1, <2>1, <2>2, <2>3 DEF Local, Audited
<1>11. CASE AuthRaises(r) \/ FitRaises(r) \/ SchemaRaises(r)
  <2>1. phase'[r] \in {"raised", "broken"} /\ audit' = audit
    BY <1>11 DEF AuthRaises, FitRaises, SchemaRaises, Escape, Maps, IsMap
  <2> QED
    BY <1>1, <2>1 DEF Local, Audited
<1> QED
  BY <1>6, <1>7, <1>8, <1>9, <1>10, <1>11 DEF Resume

(* How a call ends whose handler has returned or failed.                   *)
LEMMA EndLocal ==
  ASSUME Maps, NEW r \in Requests, Local(r), HandlerEnds(r)
  PROVE  Local(r)'
<1>1. /\ phase[r] = "handling" /\ UNCHANGED fixedVars /\ audit[r] = << >>
      /\ Fault(r) # "unknown" /\ Authentic(r) /\ Context(r) = TrustedContext(r)
  BY DEF HandlerEnds, HandlerFails, ResultRefused, ResultRaises, Reply, Returns, Local, Audited,
         Context, ContextOf
<1>2. TrustedContext(r) \in ContextRecord
  BY ContextsAreRecords
<1>3. Kind(r) = "tool" =>
        /\ TrustedContext(r).txn = r /\ TrustedContext(r).params = Digest(r)
        /\ TrustedContext(r).result = None
        /\ TrustedContext(r).identity = IF Named(r) THEN r ELSE None
        /\ TrustedContext(r).fit = IF envelope[r].fit = "good" THEN r ELSE None
  <2>1. CheckedContext(r) \in ContextRecord
    BY ContextsAreRecords
  <2>2. Kind(r) = "tool" =>
          /\ CheckedContext(r).txn = r /\ CheckedContext(r).params = Digest(r)
          /\ CheckedContext(r).result = None
    BY DEF CheckedContext, FreshContext
  <2> QED
    BY <2>1, <2>2 DEF TrustedContext, FitPresented, ContextRecord
<1>4. CASE ResultRaises(r)
  <2>1. phase'[r] = "broken" /\ audit' = audit
    BY <1>4 DEF ResultRaises, Escape, Maps, IsMap
  <2> QED
    BY <1>1, <2>1 DEF Local, Audited
<1>5. CASE Kind(r) # "tool" /\ ~ ResultRaises(r)
  <2>1. phase'[r] = "answered" /\ audit'[r] = audit[r]
    BY <1>5 DEF HandlerEnds, HandlerFails, ResultRefused, Reply, Refuse, Fail, Finish, Emit,
               Maps, IsMap
  <2> QED
    BY <1>1, <1>5, <2>1 DEF Local, Audited, Kind, fixedVars
<1>6. CASE Kind(r) = "tool" /\ ~ ResultRaises(r)
  <2> DEFINE Own(p, code) ==
        /\ p.txn = r /\ p.params = Digest(r)
        /\ p.status = "success" <=> code = "ok"
        /\ p.result \in {None, r} /\ code \in HandlerCodes(r)
        /\ p.identity = IF Named(r) THEN r ELSE None
        /\ p.fit = IF envelope[r].fit = "good" THEN r ELSE None
  <2>1. ASSUME NEW p, NEW code, NEW params, Own(p, code), phase'[r] = "answered",
               answer'[r] = [code |-> code, provenance |-> IF recording THEN p ELSE NoRecord],
               audit'[r] = <<[code |-> code, txn |-> r, params |-> params]>>,
               params \in {None, r}, recording => params = p.params
        PROVE  Local(r)'
    <3>1. ASSUME answer'[r].code = code PROVE OwnRecord(r, p)'
      BY <1>1, <1>6, <2>1, <3>1
         DEF OwnRecord, HandlerCodes, HandlerErrors, Kind, Fault, Digest, Authentic, Named,
             Presented, fixedVars
    <3> QED
      BY <1>1, <1>6, <2>1, <3>1, AnsweredLocal
  <2>2. CASE Reply(r)
    <3>1. Own(Completed(r), "ok") /\ Completed(r).params \in {None, r}
      BY <1>1, <1>2, <1>3, <1>6 DEF Completed, ContextRecord, HandlerCodes, Digest
    <3> DEFINE params == Record(r, Completed(r)).params
    <3>2. params \in {None, r} /\ (recording => params = Completed(r).params)
      BY <1>6, <3>1 DEF Record, NoRecord, FreshContext
    <3>3. /\ phase'[r] = "answered"
          /\ answer'[r] = [code |-> "ok",
                           provenance |-> IF recording THEN Completed(r) ELSE NoRecord]
          /\ audit'[r] = <<[code |-> "ok", txn |-> r, params |-> params]>>
      BY <1>1, <1>6, <2>2 DEF Reply, Finish, Emit, Answer, Record, Event, Maps, IsMap
    <3> HIDE DEF Own, params
    <3> QED
      BY <2>1, <3>1, <3>2, <3>3
  <2>3. ASSUME NEW c \in {Context(r), Completed(r)}, NEW code \in HandlerErrors(r),
               Fail(r, c, code)
        PROVE  Local(r)'
    <3>1. c \in ContextRecord
      BY <1>1, <1>2 DEF Completed, ContextRecord, Source
    <3>2. /\ c.txn = r /\ c.params = Digest(r) /\ c.result \in {None, r}
          /\ c.identity = TrustedContext(r).identity /\ c.fit = TrustedContext(r).fit
      <4>1. CASE c = TrustedContext(r)
        BY <1>3, <1>6, <4>1
      <4>2. CASE c = [TrustedContext(r) EXCEPT !.result = r, !.status = "success"]
        BY <1>2, <1>3, <1>6, <4>2 DEF ContextRecord
      <4> QED
        BY <1>1, <4>1, <4>2 DEF Completed
    <3>3. code # "ok" /\ code \in HandlerCodes(r)
      BY <1>6 DEF HandlerErrors, HandlerCodes
    <3>4. Failed(r, c).status = "error" /\ Own(Failed(r, c), code)
      BY <1>3, <1>6, <3>1, <3>2, <3>3 DEF Failed, ContextRecord
    <3>5. /\ phase'[r] = "answered"
          /\ answer'[r] = [code |-> code,
                           provenance |-> IF recording THEN Failed(r, c) ELSE NoRecord]
          /\ audit'[r] = <<[code |-> code, txn |-> r, params |-> c.params]>>
      BY <1>1, <1>6, <2>3 DEF Fail, Finish, Emit, Answer, Record, Event, Maps, IsMap
    <3>6. c.params \in {None, r} /\ c.params = Failed(r, c).params
      BY <1>6, <3>1, <3>2 DEF Failed, ContextRecord, Digest
    <3> HIDE DEF Own
    <3> QED
      BY <2>1, <3>4, <3>5, <3>6
  <2>4. CASE HandlerFails(r)
    BY <2>3, <2>4 DEF HandlerFails, Refuse
  <2>5. CASE ResultRefused(r)
    BY <1>6, <2>3, <2>5 DEF ResultRefused, HandlerErrors
  <2> QED
    BY <1>6, <2>2, <2>4, <2>5 DEF HandlerEnds
<1> QED
  BY <1>4, <1>5, <1>6

LEMMA CancelLocal ==
  ASSUME Maps, NEW r \in Requests, Local(r), Cancel(r)
  PROVE  Local(r)'
  BY DEF Cancel, Maps, IsMap, Local, Audited, Kind, fixedVars

(* Whoever takes a step, the local part of the invariant is kept.          *)
LEMMA LocalKept ==
  ASSUME Maps, \A q \in Requests : Local(q), NEW r \in Requests, StepOf(r)
  PROVE  Maps' /\ (\A q \in Requests : Local(q)')
<1>1. Maps' /\ (\A q \in Requests \ {r} : Untouched(q)) /\ UNCHANGED fixedVars
  BY Locality
<1>2. Local(r)'
  BY ArriveLocal, ResumeLocal, EndLocal, CancelLocal DEF StepOf
<1>3. ASSUME NEW q \in Requests \ {r} PROVE Local(q)'
  BY <1>1, UntouchedLocal
<1> QED
  BY <1>1, <1>2, <1>3
-----------------------------------------------------------------------------
(* A step uses no timestamp that was used before.                          *)
LEMMA StampsOnArrival ==
  ASSUME Maps, NEW r \in Requests, Arrive(r), Local(r), PastReplay(r)'
  PROVE  /\ envelope[r].stamp \notin accepted
         /\ envelope[r].stamp \in accepted'
<1>1. Stamped(r) /\ ~ Answered(r, {"FSS_TOOL_UNAVAILABLE", "FSS_REPLAY_REJECTED"})'
  BY DEF PastReplay, Stamped, Kind, Arrive, RefuseUnknown, BlockReplay, BlockTooLarge,
         AwaitAuth, Arrives, fixedVars
<1>2. ~ RefuseUnknown(r)
  <2>1. SUFFICES ASSUME RefuseUnknown(r) PROVE FALSE
    OBVIOUS
  <2>2. phase'[r] = "answered" /\ answer'[r].code = "FSS_TOOL_UNAVAILABLE"
    BY <1>1, <2>1 DEF RefuseUnknown, Refuse, Fail, Finish, Answer, Maps, IsMap, Stamped
  <2> QED
    BY <1>1, <2>2 DEF Answered
<1>3. ~ BlockReplay(r)
  <2>1. SUFFICES ASSUME BlockReplay(r) PROVE FALSE
    OBVIOUS
  <2>2. phase'[r] = "answered" /\ answer'[r].code = "FSS_REPLAY_REJECTED"
    BY <1>1, <2>1
       DEF BlockReplay, Block, FssCode, Refuse, Fail, Finish, Answer, Maps, IsMap, Stamped
  <2> QED
    BY <1>1, <2>2 DEF Answered
<1>4. PassesReplay(r)
  BY <1>2, <1>3 DEF Arrive, BlockTooLarge, AwaitAuth
<1>5. Replay!Judged(envelope[r].stamp) = "accepted" /\ Replay!Present(envelope[r].stamp)
  BY <1>1, <1>4 DEF PassesReplay
<1> QED
  BY <1>5 DEF Replay!Judged, Replay!Present

LEMMA StampsLater ==
  ASSUME Maps, NEW r \in Requests, Resume(r) \/ HandlerEnds(r) \/ Cancel(r), PastReplay(r)'
  PROVE  PastReplay(r) /\ accepted' = accepted
<1>1. phase[r] \in {"authenticating", "handling"} /\ accepted' = accepted /\ UNCHANGED fixedVars
  BY DEF Resume, BlockAuth, AuthRaises, BlockFit, FitRaises, BlockQuota, BlockContent,
         SchemaRaises, StartHandler, Trusted, Resumes, HandlerEnds, HandlerFails, ResultRefused,
         ResultRaises, Reply, Returns, Cancel, nonceVars
<1> QED
  BY <1>1 DEF PastReplay, Answered, Stamped, Kind, fixedVars

(* The registry forgets nothing.                                           *)
LEMMA RegistryGrows ==
  ASSUME NEW r \in Requests, StepOf(r)
  PROVE  accepted \subseteq accepted'
<1>1. CASE Arrive(r)
  BY <1>1 DEF Arrive, RefuseUnknown, BlockReplay, BlockTooLarge, AwaitAuth, PassesReplay,
              Replay!Present, nonceVars
<1>2. CASE Resume(r) \/ HandlerEnds(r) \/ Cancel(r)
  BY <1>2 DEF Resume, BlockAuth, AuthRaises, BlockFit, FitRaises, BlockQuota, BlockContent,
              SchemaRaises, StartHandler, Trusted, Resumes, HandlerEnds, HandlerFails,
              ResultRefused, ResultRaises, Reply, Returns, Cancel, nonceVars
<1> QED
  BY <1>1, <1>2 DEF StepOf

LEMMA StampsKept ==
  ASSUME DispatchInv, NEW r \in Requests, StepOf(r)
  PROVE  Registered' /\ TimestampUsedOnce'
<1>1. /\ \A q \in Requests \ {r} : Untouched(q)
      /\ UNCHANGED fixedVars
  BY Locality DEF DispatchInv
<1>2. ASSUME NEW q \in Requests \ {r}
      PROVE  PastReplay(q)' <=> PastReplay(q)
  BY <1>1 DEF Untouched, PastReplay, Answered, Stamped, Kind, fixedVars
<1>3. envelope' = envelope /\ accepted \subseteq accepted'
  BY <1>1, RegistryGrows DEF fixedVars
<1>4. PastReplay(r)' =>
        /\ envelope[r].stamp \in accepted'
        /\ PastReplay(r) \/ envelope[r].stamp \notin accepted
  BY <1>3, StampsOnArrival, StampsLater DEF DispatchInv, StepOf, Registered
<1>5. Registered'
  BY <1>2, <1>3, <1>4 DEF DispatchInv, Registered
<1>6. ASSUME NEW q \in Requests, NEW p \in Requests,
             PastReplay(q)', PastReplay(p)', envelope[q].stamp = envelope[p].stamp
      PROVE  q = p
  <2>1. CASE q # r /\ p # r
    BY <1>2, <1>6, <2>1 DEF DispatchInv, TimestampUsedOnce
  <2>2. ASSUME NEW a \in Requests \ {r}, PastReplay(a)', PastReplay(r)',
               envelope[a].stamp = envelope[r].stamp
        PROVE  FALSE
    <3>1. PastReplay(a) /\ envelope[a].stamp \in accepted
      BY <1>2, <2>2 DEF DispatchInv, Registered
    <3>2. PastReplay(r)
      BY <1>4, <2>2, <3>1
    <3> QED
      BY <2>2, <3>1, <3>2 DEF DispatchInv, TimestampUsedOnce
  <2> QED
    BY <1>6, <2>1, <2>2
<1> QED
  BY <1>3, <1>5, <1>6 DEF TimestampUsedOnce
-----------------------------------------------------------------------------
LEMMA InitDispatch == Init => DispatchInv
<1> SUFFICES ASSUME Init PROVE DispatchInv
  OBVIOUS
<1>1. Maps
  BY DEF Init, Maps, IsMap
<1>2. ASSUME NEW r \in Requests
      PROVE  Local(r) /\ ~ PastReplay(r)
  BY DEF Init, Local, Audited, PastReplay
<1> QED
  BY <1>1, <1>2 DEF DispatchInv, Registered, TimestampUsedOnce

LEMMA StepDispatch == DispatchInv /\ [Next]_vars => DispatchInv'
<1> SUFFICES ASSUME DispatchInv, [Next]_vars PROVE DispatchInv'
  OBVIOUS
<1>1. ASSUME NEW r \in Requests, StepOf(r) PROVE DispatchInv'
  BY <1>1, LocalKept, StampsKept DEF DispatchInv
<1>2. ASSUME UNCHANGED <<fixedVars, requestVars, nonceVars>> PROVE DispatchInv'
  <2>1. ASSUME NEW q \in Requests
        PROVE  Local(q)' /\ (PastReplay(q)' <=> PastReplay(q))
    BY <1>2, UntouchedLocal
       DEF DispatchInv, Untouched, requestVars, fixedVars, PastReplay, Answered, Stamped, Kind
  <2> QED
    BY <1>2, <2>1
       DEF DispatchInv, Maps, IsMap, Registered, TimestampUsedOnce, requestVars, nonceVars,
           fixedVars
<1> QED
  BY <1>1, <1>2 DEF Next, StepOf, Tick, vars
-----------------------------------------------------------------------------
(* The quota.  A step of a request either admits it and takes its tokens,  *)
(* or does neither.                                                        *)
Admits(r) == ~ Admitted(r) /\ Admitted(r)' /\ Limiter!Allow(Quota(r))
Neither(r) == (Admitted(r)' <=> Admitted(r)) /\ UNCHANGED <<now, limiterVars>>

LEMMA BlockAnswers ==
  ASSUME Maps, NEW r \in Requests, NEW c, NEW cause, Block(r, c, cause)
  PROVE  /\ phase'[r] = "answered"
         /\ answer'[r].code = IF Kind(r) = "tool" THEN FssCode(r, cause) ELSE PipelineCode(cause)
  BY DEF Block, Refuse, Fail, Finish, Answer, Maps, IsMap

(* No check before the limiter answers with a code that an admitted        *)
(* request could be answered with.                                         *)
LEMMA EarlyBlocksAdmitNobody ==
  ASSUME Maps, NEW r \in Requests, NEW c, NEW cause, Block(r, c, cause), UNCHANGED fixedVars,
         cause \in {"replay", "auth", "fit", "quota"} \/ (cause = "too_large" /\ Fault(r) = cause)
  PROVE  ~ Admitted(r)'
<1>1. UNCHANGED envelope
  BY DEF fixedVars
<1>2. /\ phase'[r] = "answered"
      /\ answer'[r].code = IF Kind(r) = "tool" THEN FssCode(r, cause) ELSE PipelineCode(cause)
  BY BlockAnswers
<1>3. answer'[r].code \notin HandlerCodes(r)
  BY <1>2 DEF FssCode, PipelineCode, HandlerCodes, HandlerErrors
<1>4. Fault(r) \in Rejectable(r) => answer'[r].code \notin Refusals(r)
  BY <1>2 DEF FssCode, PipelineCode, Refusals, Rejectable
<1> QED
  BY <1>1, <1>2, <1>3, <1>4
     DEF Admitted, Answered, HandlerCodes, HandlerErrors, Rejectable, Refusals, FssCode,
         PipelineCode, Presented, Kind, Fault

LEMMA StepSpends ==
  ASSUME Maps, NEW r \in Requests, StepOf(r)
  PROVE  Admits(r) \/ Neither(r)
<1>1. UNCHANGED fixedVars /\ UNCHANGED envelope
  BY Locality DEF fixedVars
<1>2. ASSUME Arrive(r) \/ Resume(r) PROVE ~ Admitted(r)
  BY <1>2 DEF Admitted, Answered, Arrive, RefuseUnknown, BlockReplay, BlockTooLarge, AwaitAuth,
              Arrives, Resume, BlockAuth, AuthRaises, BlockFit, FitRaises, BlockQuota,
              BlockContent, SchemaRaises, StartHandler, Trusted, Resumes
<1>3. CASE RefuseUnknown(r)
  <2>1. /\ phase'[r] = "answered" /\ Fault(r) = "unknown"
        /\ answer'[r].code \in {"FSS_TOOL_UNAVAILABLE", "INVALID_PARAMS"}
    BY <1>3 DEF RefuseUnknown, Refuse, Fail, Finish, Answer, Maps, IsMap
  <2>2. ~ Admitted(r)'
    BY <1>1, <2>1 DEF Admitted, Answered, HandlerCodes, HandlerErrors, Rejectable, Kind, Fault
  <2> QED
    BY <1>2, <1>3, <2>2 DEF Neither, Arrive, RefuseUnknown, Arrives
<1>4. CASE BlockReplay(r)
  <2>1. ~ Admitted(r)'
    BY <1>1, <1>4, EarlyBlocksAdmitNobody DEF BlockReplay
  <2> QED
    BY <1>2, <1>4, <2>1 DEF Neither, Arrive, BlockReplay, Arrives
<1>5. CASE BlockTooLarge(r)
  <2>1. ~ Admitted(r)'
    BY <1>1, <1>5, EarlyBlocksAdmitNobody DEF BlockTooLarge
  <2> QED
    BY <1>2, <1>5, <2>1 DEF Neither, Arrive, BlockTooLarge, Arrives
<1>6. CASE AwaitAuth(r)
  <2>1. phase'[r] = "authenticating"
    BY <1>6 DEF AwaitAuth, Maps, IsMap
  <2> QED
    BY <1>2, <1>6, <2>1 DEF Neither, Admitted, Answered, Arrive, AwaitAuth, Arrives
<1>7. CASE BlockAuth(r)
  <2>1. ~ Admitted(r)'
    BY <1>1, <1>7, EarlyBlocksAdmitNobody DEF BlockAuth
  <2> QED
    BY <1>2, <1>7, <2>1 DEF Neither, Resume, BlockAuth, Resumes
<1>8. CASE BlockFit(r)
  <2>1. ~ Admitted(r)'
    BY <1>1, <1>8, EarlyBlocksAdmitNobody DEF BlockFit
  <2> QED
    BY <1>2, <1>8, <2>1 DEF Neither, Resume, BlockFit, Resumes
<1>9. CASE BlockQuota(r)
  <2>1. ~ Admitted(r)'
    BY <1>1, <1>9, EarlyBlocksAdmitNobody DEF BlockQuota
  <2> QED
    BY <1>2, <1>9, <2>1 DEF Neither, Resume, BlockQuota, Trusted, Resumes
<1>10. CASE BlockContent(r)
  <2>1. /\ phase'[r] = "answered" /\ Fault(r) \in Rejectable(r)
        /\ answer'[r].code \in Refusals(r)
    BY <1>10, BlockAnswers DEF BlockContent, Refusals
  <2>2. Admitted(r)'
    BY <1>1, <2>1 DEF Admitted, Answered, Refusals, FssCode, PipelineCode, Presented, Rejectable,
                      Kind, Fault
  <2> QED
    BY <1>2, <1>10, <2>2 DEF Admits, Resume, BlockContent, Charge
<1>11. CASE StartHandler(r)
  <2>1. phase'[r] = "handling"
    BY <1>11 DEF StartHandler, Maps, IsMap
  <2> QED
    BY <1>2, <1>11, <2>1 DEF Admits, Admitted, Resume, StartHandler, Charge
<1>12. CASE HandlerEnds(r) /\ ~ ResultRaises(r)
  <2>1. phase[r] = "handling" /\ phase'[r] = "answered"
    BY <1>12 DEF HandlerEnds, HandlerFails, ResultRefused, Reply, Returns, Refuse, Fail, Finish,
                 Maps, IsMap
  <2>2. answer'[r].code \in HandlerCodes(r)
    BY <1>12 DEF HandlerEnds, HandlerFails, ResultRefused, Reply, Refuse, Fail, Finish, Answer,
                 Maps, IsMap, HandlerCodes, HandlerErrors
  <2>3. Admitted(r) /\ Admitted(r)'
    BY <1>1, <2>1, <2>2 DEF Admitted, Answered, HandlerCodes, HandlerErrors, Kind
  <2> QED
    BY <1>12, <2>3 DEF Neither, HandlerEnds, HandlerFails, ResultRefused, Reply, Returns
<1>13. CASE Cancel(r)
  <2>1. phase'[r] = IF phase[r] = "handling" THEN "aborted" ELSE "cancelled"
    BY <1>13 DEF Cancel, Maps, IsMap
  <2> QED
    BY <1>13, <2>1 DEF Neither, Admitted, Answered, Cancel
<1>14. CASE AuthRaises(r) \/ FitRaises(r)
  <2>1. phase'[r] = "raised"
    BY <1>14 DEF AuthRaises, FitRaises, Escape, Maps, IsMap
  <2> QED
    BY <1>2, <1>14, <2>1
       DEF Neither, Admitted, Answered, Resume, AuthRaises, FitRaises, Resumes
<1>15. CASE SchemaRaises(r)
  <2>1. phase'[r] = "broken"
    BY <1>15 DEF SchemaRaises, Escape, Maps, IsMap
  <2> QED
    BY <1>2, <1>15, <2>1 DEF Admits, Admitted, Resume, SchemaRaises, Charge
<1>16. CASE ResultRaises(r)
  <2>1. phase[r] = "handling" /\ phase'[r] = "broken"
    BY <1>16 DEF ResultRaises, Returns, Escape, Maps, IsMap
  <2> QED
    BY <1>16, <2>1 DEF Neither, Admitted, ResultRaises, Returns
<1> QED
  BY <1>3, <1>4, <1>5, <1>6, <1>7, <1>8, <1>9, <1>10, <1>11, <1>12, <1>13, <1>14, <1>15, <1>16
     DEF StepOf, Arrive, Resume

LEMMA OthersSpendNothing ==
  ASSUME NEW q \in Requests, Untouched(q), UNCHANGED fixedVars
  PROVE  (Admitted(q)' <=> Admitted(q)) /\ Quota(q)' = Quota(q)
  BY DEF Untouched, Admitted, Answered, HandlerCodes, HandlerErrors, Refusals, Rejectable,
         PipelineCode, FssCode, Presented, Kind, Fault, Quota, fixedVars

(* A set of requests that gains one member, or none.                       *)
LEMMA OneMore ==
  ASSUME NEW S \in SUBSET Requests, NEW r \in Requests
  PROVE  /\ Cardinality(S) \in Nat
         /\ r \notin S => Cardinality(S \cup {r}) = Cardinality(S) + 1
<1>1. IsFiniteSet(S)
  BY DispatchConstants, FS_Subset
<1> QED
  BY <1>1, FS_CardinalityType, FS_AddElement

(* The buckets stay well formed, whatever is taken and poured in.          *)
LEMMA BucketsTyped ==
  ASSUME Limiter!TypeOK,
         Limiter!Tick \/ (\E k \in Limiter!Keys : Limiter!Allow(k)) \/ UNCHANGED <<now, limiterVars>>
  PROVE  Limiter!TypeOK'
<1>1. Limiter!Capacity \in Nat /\ Unit \in Nat
  BY DispatchConstants DEF Limiter!Capacity
<1>2. ASSUME NEW n \in Nat PROVE Limiter!Capped(n) \in 0 .. Limiter!Capacity
  BY <1>1 DEF Limiter!Capped
<1>3. /\ now \in Limiter!Times /\ globalLevel \in 0 .. Limiter!Capacity
      /\ toolLevel \in [Limiter!Keys -> 0 .. Limiter!Capacity]
      /\ grantsSince \in [Limiter!Times -> Nat]
      /\ keyGrants \in [Limiter!Keys -> [Limiter!Times -> Nat]]
  BY DEF Limiter!TypeOK
<1>4. CASE Limiter!Tick
  <2>1. now' \in Limiter!Times
    BY <1>3, <1>4, DispatchConstants DEF Limiter!Tick, Limiter!Times
  <2>2. globalLevel' \in 0 .. Limiter!Capacity
    BY <1>1, <1>2, <1>3, <1>4, DispatchConstants DEF Limiter!Tick
  <2>3. ASSUME NEW k \in Limiter!Keys
        PROVE  Limiter!Capped(toolLevel[k] + ToolRate) \in 0 .. Limiter!Capacity
    BY <1>1, <1>2, <1>3, DispatchConstants
  <2>4. toolLevel' \in [Limiter!Keys -> 0 .. Limiter!Capacity]
    BY <1>4, <2>3 DEF Limiter!Tick
  <2> QED
    BY <1>3, <1>4, <2>1, <2>2, <2>4
       DEF Limiter!Tick, Limiter!TypeOK, Limiter!Capacity, Limiter!Times, Limiter!Keys
<1>5. ASSUME NEW k \in Limiter!Keys, Limiter!Allow(k) PROVE Limiter!TypeOK'
  <2>1. ASSUME NEW g \in [Limiter!Times -> Nat]
        PROVE  Limiter!CountedAt(now, g) \in [Limiter!Times -> Nat]
    BY DEF Limiter!CountedAt
  <2>2. globalLevel' \in 0 .. Limiter!Capacity
    BY <1>1, <1>3, <1>5 DEF Limiter!Allow
  <2>3. toolLevel' \in [Limiter!Keys -> 0 .. Limiter!Capacity]
    BY <1>1, <1>3, <1>5 DEF Limiter!Allow
  <2>4. /\ grantsSince' \in [Limiter!Times -> Nat]
        /\ keyGrants' \in [Limiter!Keys -> [Limiter!Times -> Nat]]
    BY <1>3, <1>5, <2>1 DEF Limiter!Allow
  <2> QED
    BY <1>3, <1>5, <2>2, <2>3, <2>4
       DEF Limiter!Allow, Limiter!TypeOK, Limiter!Capacity, Limiter!Times, Limiter!Keys
<1>6. CASE UNCHANGED <<now, limiterVars>>
  BY <1>6 DEF limiterVars, Limiter!TypeOK, Limiter!Capacity, Limiter!Times, Limiter!Keys
<1> QED
  BY <1>4, <1>5, <1>6

AdmittedFor(k) == {r \in Requests : Admitted(r) /\ Quota(r) = k}

QuotaInv ==
  /\ DispatchInv
  /\ envelope \in [Requests -> Envelope]
  /\ Limiter!TypeOK
  /\ QuotaSpentOnAdmission

LEMMA QuotasAreKeys ==
  ASSUME envelope \in [Requests -> Envelope], NEW r \in Requests
  PROVE  Quota(r) \in Limiter!Keys
  BY DEF Envelope, Quota, Limiter!Keys

(* Every grant counts for the window that began with the server.           *)
LEMMA GrantsSinceTheStart ==
  ASSUME Limiter!TypeOK, NEW g \in [Limiter!Times -> Nat]
  PROVE  Limiter!CountedAt(now, g)[0] = g[0] + 1
  BY DispatchConstants DEF Limiter!TypeOK, Limiter!CountedAt, Limiter!Times

LEMMA StepQuota ==
  ASSUME QuotaInv, NEW r \in Requests, StepOf(r)
  PROVE  QuotaSpentOnAdmission' /\ Limiter!TypeOK'
<1>1. /\ \A q \in Requests \ {r} : Untouched(q)
      /\ UNCHANGED fixedVars /\ UNCHANGED envelope
  BY Locality DEF QuotaInv, DispatchInv, fixedVars
<1>2. ASSUME NEW q \in Requests \ {r} PROVE Admitted(q)' <=> Admitted(q)
  BY <1>1, OthersSpendNothing
<1>3. \A q \in Requests : Quota(q)' = Quota(q)
  BY <1>1 DEF Quota
<1>4. Quota(r) \in Limiter!Keys
  BY QuotasAreKeys DEF QuotaInv
<1>5. CASE Admits(r)
  <2>1. {q \in Requests : Admitted(q)}' = {q \in Requests : Admitted(q)} \cup {r}
    BY <1>2, <1>5 DEF Admits
  <2>2. ASSUME NEW k
        PROVE  AdmittedFor(k)' = IF k = Quota(r) THEN AdmittedFor(k) \cup {r} ELSE AdmittedFor(k)
    BY <1>2, <1>3, <1>5 DEF Admits, AdmittedFor
  <2>3. Limiter!TypeOK'
    BY <1>4, <1>5, BucketsTyped DEF Admits, QuotaInv
  <2>4. grantsSince'[0] = grantsSince[0] + 1
    BY <1>5, GrantsSinceTheStart DEF Admits, Limiter!Allow, QuotaInv, Limiter!TypeOK
  <2>5. ASSUME NEW k \in Limiter!Keys
        PROVE  keyGrants'[k][0] = IF k = Quota(r) THEN keyGrants[k][0] + 1 ELSE keyGrants[k][0]
    BY <1>5, GrantsSinceTheStart DEF Admits, Limiter!Allow, QuotaInv, Limiter!TypeOK
  <2>6. grantsSince'[0] = Cardinality({q \in Requests : Admitted(q)})'
    <3>1. r \notin {q \in Requests : Admitted(q)}
      BY <1>5 DEF Admits
    <3>2. Cardinality({q \in Requests : Admitted(q)} \cup {r})
            = Cardinality({q \in Requests : Admitted(q)}) + 1
      BY <3>1, OneMore
    <3> QED
      BY <2>1, <2>4, <3>2 DEF QuotaInv, QuotaSpentOnAdmission
  <2>7. ASSUME NEW k \in Limiter!Keys
        PROVE  keyGrants'[k][0] = Cardinality(AdmittedFor(k))'
    <3>1. r \notin AdmittedFor(k) /\ AdmittedFor(k) \subseteq Requests
      BY <1>5 DEF Admits, AdmittedFor
    <3>2. Cardinality(AdmittedFor(k) \cup {r}) = Cardinality(AdmittedFor(k)) + 1
      BY <3>1, OneMore
    <3>3. keyGrants[k][0] = Cardinality(AdmittedFor(k))
      BY DEF QuotaInv, QuotaSpentOnAdmission, AdmittedFor
    <3> QED
      BY <2>2, <2>5, <3>2, <3>3
  <2> QED
    BY <2>3, <2>6, <2>7 DEF QuotaSpentOnAdmission, AdmittedFor, Limiter!Keys
<1>6. CASE Neither(r)
  <2>1. \A q \in Requests : Admitted(q)' <=> Admitted(q)
    BY <1>2, <1>6 DEF Neither
  <2>2. {q \in Requests : Admitted(q)}' = {q \in Requests : Admitted(q)}
    BY <2>1
  <2>3. ASSUME NEW k PROVE AdmittedFor(k)' = AdmittedFor(k)
    BY <1>3, <2>1 DEF AdmittedFor
  <2>4. Limiter!TypeOK'
    BY <1>6, BucketsTyped DEF Neither, QuotaInv
  <2>5. UNCHANGED <<grantsSince, keyGrants>>
    BY <1>6 DEF Neither, limiterVars
  <2> QED
    BY <2>2, <2>3, <2>4, <2>5 DEF QuotaInv, QuotaSpentOnAdmission, AdmittedFor, Limiter!Keys
<1> QED
  BY <1>5, <1>6, StepSpends DEF QuotaInv, DispatchInv

LEMMA InitQuota == Init => QuotaInv
<1> SUFFICES ASSUME Init PROVE QuotaInv
  OBVIOUS
<1>1. DispatchInv
  BY InitDispatch
<1>2. envelope \in [Requests -> Envelope]
  BY DispatchConstants DEF Init
<1>3. Limiter!TypeOK
  <2>1. Limiter!Capacity \in Nat
    BY DispatchConstants DEF Limiter!Capacity
  <2>2. now = 0 /\ 0 \in Limiter!Times
    BY DispatchConstants DEF Init, Limiter!Init, Limiter!Times
  <2>3. Limiter!NoGrants \in [Limiter!Times -> Nat]
    BY DEF Limiter!NoGrants
  <2> QED
    BY <2>1, <2>2, <2>3 DEF Init, Limiter!Init, Limiter!TypeOK
<1>4. QuotaSpentOnAdmission
  <2>1. \A r \in Requests : ~ Admitted(r)
    BY DEF Init, Admitted, Answered
  <2>2. Cardinality({r \in Requests : Admitted(r)}) = 0
    BY <2>1, FS_EmptySet
  <2>3. ASSUME NEW k PROVE Cardinality({r \in Requests : Admitted(r) /\ Quota(r) = k}) = 0
    BY <2>1, FS_EmptySet
  <2>4. 0 \in Limiter!Times
    BY DispatchConstants DEF Limiter!Times
  <2> QED
    BY <2>2, <2>3, <2>4 DEF Init, Limiter!Init, Limiter!NoGrants, QuotaSpentOnAdmission
<1> QED
  BY <1>1, <1>2, <1>3, <1>4 DEF QuotaInv

LEMMA StepQuotaInv == QuotaInv /\ [Next]_vars => QuotaInv'
<1> SUFFICES ASSUME QuotaInv, [Next]_vars PROVE QuotaInv'
  OBVIOUS
<1>1. DispatchInv'
  BY StepDispatch DEF QuotaInv
<1>2. ASSUME NEW r \in Requests, StepOf(r) PROVE QuotaInv'
  <2>1. envelope' = envelope
    BY <1>2, Locality DEF QuotaInv, DispatchInv, fixedVars
  <2> QED
    BY <1>1, <1>2, <2>1, StepQuota DEF QuotaInv, Envelope
<1>3. ASSUME UNCHANGED <<fixedVars, requestVars>>, UNCHANGED <<grantsSince, keyGrants>>,
             Limiter!TypeOK'
      PROVE  QuotaInv'
  <2>1. \A q \in Requests : (Admitted(q)' <=> Admitted(q)) /\ Quota(q)' = Quota(q)
    BY <1>3, OthersSpendNothing DEF Untouched, requestVars
  <2>2. {q \in Requests : Admitted(q)}' = {q \in Requests : Admitted(q)}
    BY <2>1
  <2>3. ASSUME NEW k PROVE AdmittedFor(k)' = AdmittedFor(k)
    BY <2>1 DEF AdmittedFor
  <2>4. QuotaSpentOnAdmission'
    BY <1>3, <2>2, <2>3 DEF QuotaInv, QuotaSpentOnAdmission, AdmittedFor, Limiter!Keys
  <2> QED
    BY <1>1, <1>3, <2>4 DEF QuotaInv, fixedVars, Envelope
<1>4. CASE Tick
  BY <1>3, <1>4, BucketsTyped DEF Tick, QuotaInv, Limiter!Tick
<1>5. CASE UNCHANGED vars
  BY <1>3, <1>5, BucketsTyped DEF vars, limiterVars, QuotaInv
<1> QED
  BY <1>2, <1>4, <1>5 DEF Next, StepOf
-----------------------------------------------------------------------------
(* Types.  A step of r leaves what belongs to r well formed.               *)
Typed(r) ==
  /\ phase[r] \in Phases
  /\ context[r] \in ContextRecord
  /\ IF phase[r] = "answered" THEN answer[r].provenance \in ContextRecord
                              ELSE answer[r] = NoAnswer

LEMMA FailTyped ==
  ASSUME Maps, NEW r \in Requests, NEW c \in ContextRecord, NEW code, Fail(r, c, code)
  PROVE  /\ phase'[r] = "answered"
         /\ answer'[r].provenance \in ContextRecord
<1>1. Failed(r, c) \in ContextRecord
  BY DEF Failed, ContextRecord
<1>2. FreshContext \in ContextRecord
  BY ContextsAreRecords
<1> QED
  BY <1>1, <1>2 DEF Fail, Finish, Answer, Record, NoRecord, Maps, IsMap

LEMMA RefuseTyped ==
  ASSUME Maps, NEW r \in Requests, NEW c \in ContextRecord, NEW code, Refuse(r, c, code)
  PROVE  Typed(r)'
<1>1. Failed(r, c) \in ContextRecord
  BY DEF Failed, ContextRecord
<1>2. context'[r] \in ContextRecord
  BY <1>1 DEF Refuse, Leave, ContextOf, Maps, IsMap
<1> QED
  BY <1>2, FailTyped DEF Refuse, Typed, Phases, ContextRecord, Source

LEMMA BlockTyped ==
  ASSUME Maps, NEW r \in Requests, NEW c \in ContextRecord, NEW cause, Block(r, c, cause)
  PROVE  Typed(r)'
  BY RefuseTyped DEF Block

LEMMA StepTyped ==
  ASSUME Maps, NEW r \in Requests, Typed(r), StepOf(r)
  PROVE  Typed(r)'
<1>1. Context(r) \in ContextRecord /\ FreshContext \in ContextRecord
  BY ContextsAreRecords DEF Typed, Context, ContextOf
<1>2. Opened(r) \in ContextRecord
  BY <1>1 DEF Opened, ContextRecord, Source
<1>3. Described(r) \in ContextRecord
  BY <1>1, <1>2 DEF Described, Digest, ContextRecord, Source
<1>4. Identified(r) \in ContextRecord
  BY <1>1 DEF Identified, ContextRecord, Source
<1>5. Verified(r) \in ContextRecord
  BY <1>4 DEF Verified, ContextRecord, Source
<1>6. Completed(r) \in ContextRecord
  BY <1>1 DEF Completed, ContextRecord, Source
<1>7. Cleared(Context(r)) \in ContextRecord
  BY <1>1 DEF Cleared, ContextRecord, Source
<1>8. CASE Arrive(r)
  <2>1. CASE RefuseUnknown(r)
    BY <1>2, <2>1, RefuseTyped DEF RefuseUnknown
  <2>2. CASE BlockReplay(r)
    BY <1>3, <2>2, BlockTyped DEF BlockReplay
  <2>3. CASE BlockTooLarge(r)
    BY <1>3, <2>3, BlockTyped DEF BlockTooLarge
  <2>4. CASE AwaitAuth(r)
    <3>1. /\ phase[r] = "new" /\ phase'[r] = "authenticating" /\ answer' = answer
          /\ context'[r] = Described(r)
      BY <2>4 DEF AwaitAuth, Arrives, Leave, ContextOf, Maps, IsMap
    <3> QED
      BY <1>3, <3>1 DEF Typed, Phases, ContextRecord, Source, NoAnswer
  <2> QED
    BY <1>8, <2>1, <2>2, <2>3, <2>4 DEF Arrive
<1>9. CASE Resume(r)
  <2>1. CASE BlockAuth(r)
    BY <1>1, <2>1, BlockTyped DEF BlockAuth
  <2>2. CASE BlockFit(r)
    BY <1>4, <2>2, BlockTyped DEF BlockFit
  <2>3. CASE BlockQuota(r)
    BY <1>5, <2>3, BlockTyped DEF BlockQuota
  <2>4. CASE BlockContent(r)
    BY <1>5, <2>4, BlockTyped DEF BlockContent
  <2>5. CASE StartHandler(r)
    <3>1. /\ phase[r] = "authenticating" /\ phase'[r] = "handling" /\ answer' = answer
          /\ context'[r] = Verified(r)
      BY <2>5 DEF StartHandler, Trusted, Resumes, Leave, ContextOf, Maps, IsMap
    <3> QED
      BY <1>5, <3>1 DEF Typed, Phases, ContextRecord, Source, NoAnswer
  <2>6. ASSUME Escape(r, "raised") \/ Escape(r, "broken"), context'[r] \in ContextRecord,
               phase[r] # "answered"
        PROVE  Typed(r)'
    BY <2>6 DEF Escape, Typed, Phases, ContextRecord, Source, NoAnswer, Maps, IsMap
  <2>7. CASE AuthRaises(r)
    BY <1>1, <2>6, <2>7 DEF AuthRaises, Resumes, Typed
  <2>8. CASE FitRaises(r)
    BY <1>4, <2>6, <2>8 DEF FitRaises, Resumes, Leave, ContextOf, Maps, IsMap
  <2>9. CASE SchemaRaises(r)
    BY <1>5, <2>6, <2>9 DEF SchemaRaises, Trusted, Resumes, Leave, ContextOf, Maps, IsMap
  <2> QED
    BY <1>9, <2>1, <2>2, <2>3, <2>4, <2>5, <2>7, <2>8, <2>9 DEF Resume
<1>10. CASE HandlerEnds(r)
  <2>1. CASE HandlerFails(r)
    BY <1>1, <2>1, RefuseTyped DEF HandlerFails
  <2>2. ASSUME LeaveCleared(r) PROVE context'[r] \in ContextRecord
    BY <1>1, <1>7, <2>2 DEF LeaveCleared, Leave, ContextOf, Context, Maps, IsMap
  <2>3. CASE ResultRefused(r)
    <3>1. phase'[r] = "answered" /\ answer'[r].provenance \in ContextRecord
      BY <1>1, <1>6, <2>3, FailTyped DEF ResultRefused
    <3> QED
      BY <2>2, <2>3, <3>1 DEF ResultRefused, Typed, Phases, ContextRecord, Source
  <2>4. CASE Reply(r)
    <3>1. phase'[r] = "answered" /\ answer'[r].provenance \in ContextRecord
      BY <1>1, <1>6, <2>4 DEF Reply, Finish, Answer, Record, NoRecord, Maps, IsMap
    <3> QED
      BY <2>2, <2>4, <3>1 DEF Reply, Typed, Phases, ContextRecord, Source
  <2>5. CASE ResultRaises(r)
    <3>1. phase[r] # "answered" /\ phase'[r] = "broken" /\ answer' = answer
      BY <2>5 DEF ResultRaises, Returns, Escape, Maps, IsMap
    <3> QED
      BY <2>2, <2>5, <3>1 DEF ResultRaises, Typed, Phases, ContextRecord, Source, NoAnswer
  <2> QED
    BY <1>10, <2>1, <2>3, <2>4, <2>5 DEF HandlerEnds
<1>11. CASE Cancel(r)
  <2>1. /\ phase[r] # "answered" /\ phase'[r] \in Phases \ {"answered"}
        /\ answer' = answer /\ context' = context
    BY <1>11 DEF Cancel, Maps, IsMap, Phases
  <2> QED
    BY <2>1 DEF Typed, Phases, ContextRecord, Source, NoAnswer
<1> QED
  BY <1>8, <1>9, <1>10, <1>11 DEF StepOf

(* What replay prevention records is a timestamp.                          *)
LEMMA AcceptedTyped ==
  ASSUME envelope \in [Requests -> Envelope], NEW r \in Requests, StepOf(r),
         accepted \subseteq Replay!Stamp
  PROVE  accepted' \subseteq Replay!Stamp
<1>1. Stamped(r) => envelope[r].stamp \in Replay!Stamp
  BY DEF Stamped, Envelope
<1>2. CASE Arrive(r)
  <2>1. accepted' = accepted \/ (Stamped(r) /\ Replay!Present(envelope[r].stamp))
    BY <1>2 DEF Arrive, RefuseUnknown, BlockReplay, BlockTooLarge, AwaitAuth, PassesReplay,
                nonceVars
  <2> QED
    BY <1>1, <2>1 DEF Replay!Present
<1>3. CASE Resume(r) \/ HandlerEnds(r) \/ Cancel(r)
  BY <1>3 DEF Resume, BlockAuth, AuthRaises, BlockFit, FitRaises, BlockQuota, BlockContent,
              SchemaRaises, StartHandler, Trusted, Resumes, HandlerEnds, HandlerFails,
              ResultRefused, ResultRaises, Reply, Returns, Cancel, nonceVars
<1> QED
  BY <1>2, <1>3 DEF StepOf

TypeInv ==
  /\ QuotaInv
  /\ authMode \in AuthModes /\ recording \in BOOLEAN
  /\ \A r \in Requests : Typed(r)
  /\ accepted \subseteq Replay!Stamp

LEMMA TypesFollow == TypeInv => TypeOK
<1> SUFFICES ASSUME TypeInv PROVE TypeOK
  OBVIOUS
<1>1. phase \in [Requests -> Phases] /\ context \in [Requests -> ContextRecord]
  BY DEF TypeInv, Typed, QuotaInv, DispatchInv, Maps, IsMap
<1> QED
  BY <1>1 DEF TypeInv, Typed, QuotaInv, TypeOK

LEMMA InitTyped == Init => TypeInv
<1> SUFFICES ASSUME Init PROVE TypeInv
  OBVIOUS
<1>1. \A r \in Requests : Typed(r)
  BY ContextsAreRecords DEF Init, Typed, Phases
<1> QED
  BY <1>1, InitQuota DEF Init, Replay!Init, TypeInv

LEMMA StepTypeInv == TypeInv /\ [Next]_vars => TypeInv'
<1> SUFFICES ASSUME TypeInv, [Next]_vars PROVE TypeInv'
  OBVIOUS
<1>1. QuotaInv'
  BY StepQuotaInv DEF TypeInv
<1>2. ASSUME NEW q \in Requests, Untouched(q) PROVE Typed(q)'
  BY <1>2 DEF TypeInv, Typed, Untouched, ContextRecord, Source, NoAnswer
<1>3. ASSUME NEW r \in Requests, StepOf(r) PROVE TypeInv'
  <2>1. (\A q \in Requests \ {r} : Untouched(q)) /\ UNCHANGED fixedVars
    BY <1>3, Locality DEF TypeInv, QuotaInv, DispatchInv
  <2>2. Typed(r)'
    BY <1>3, StepTyped DEF TypeInv, QuotaInv, DispatchInv
  <2>3. accepted' \subseteq Replay!Stamp
    BY <1>3, AcceptedTyped DEF TypeInv, QuotaInv
  <2> QED
    BY <1>1, <1>2, <2>1, <2>2, <2>3 DEF TypeInv, fixedVars, Replay!Stamp
<1>4. ASSUME UNCHANGED <<fixedVars, requestVars, nonceVars>> PROVE TypeInv'
  <2>1. \A q \in Requests : Untouched(q)
    BY <1>4 DEF Untouched, requestVars
  <2> QED
    BY <1>1, <1>2, <1>4, <2>1 DEF TypeInv, fixedVars, nonceVars, Replay!Stamp
<1> QED
  BY <1>3, <1>4 DEF Next, StepOf, Tick, vars
-----------------------------------------------------------------------------
THEOREM DispatchInvariant == Spec => []DispatchInv
  BY InitDispatch, StepDispatch, PTL DEF Spec

(* Of the tool calls that carry one timestamp at most one gets past the    *)
(* replay check, however many there are and however they interleave.       *)
THEOREM TimestampsUsedOnce == Spec => []TimestampUsedOnce
<1>1. DispatchInv => TimestampUsedOnce
  BY DEF DispatchInv
<1> QED
  BY <1>1, DispatchInvariant, PTL

(* A record never speaks of another request's transaction, arguments,      *)
(* result, identity or FIT: what it has of them, arguments without a       *)
(* digest and callers named "local" leaving a gap, is its own request's.   *)
(* And there is one exactly when records are kept.                         *)
THEOREM ProvenanceIsTheRequests == Spec => []ProvenanceIsOwn
<1>1. DispatchInv => ProvenanceIsOwn
  BY DEF DispatchInv, Local, ProvenanceIsOwn
<1> QED
  BY <1>1, DispatchInvariant, PTL

(* The observer hears once of each tool call the server itself answers, in *)
(* the words of its record, and never of one that was withdrawn or that an *)
(* exception left to the SDK.                                              *)
THEOREM AuditsMatchAnswers == Spec => []AuditMatchesAnswer
<1>1. DispatchInv => AuditMatchesAnswer
  BY DEF DispatchInv, Local, AuditMatchesAnswer
<1> QED
  BY <1>1, DispatchInvariant, PTL

(* The limiter has granted exactly one token of each bucket to every       *)
(* request it admitted, and to no other, for any number of requests.       *)
THEOREM QuotasAreSpentOnAdmission == Spec => []QuotaSpentOnAdmission
<1>1. QuotaInv => QuotaSpentOnAdmission
  BY DEF QuotaInv
<1> QED
  BY <1>1, InitQuota, StepQuotaInv, PTL DEF Spec

(* Every variable keeps its type, for any number of requests and any       *)
(* provider, window and rates.                                             *)
THEOREM DispatchTyped == Spec => []TypeOK
  BY InitTyped, StepTypeInv, TypesFollow, PTL DEF Spec
-----------------------------------------------------------------------------
(* The shared state seen by itself.  Whatever tasks do between their       *)
(* awaits, the registry of timestamps makes only its own steps.            *)
LEMMA RegistryStep ==
  ASSUME envelope \in [Requests -> Envelope], [Next]_vars
  PROVE  [Replay!Next]_Replay!vars
<1>1. CASE Tick
  BY <1>1 DEF Tick, Limiter!Tick, Replay!Next, Replay!Tick, nonceVars
<1>2. ASSUME NEW r \in Requests, Arrive(r)
      PROVE  [Replay!Next]_Replay!vars
  <2>1. Stamped(r) => envelope[r].stamp \in Replay!Stamp
    BY DEF Stamped, Envelope
  <2>2. \/ UNCHANGED <<now, nonceVars>>
        \/ Stamped(r) /\ Replay!Present(envelope[r].stamp)
    BY <1>2 DEF Arrive, RefuseUnknown, BlockReplay, BlockTooLarge, AwaitAuth, Arrives, PassesReplay
  <2> QED
    BY <2>1, <2>2 DEF Replay!Next, Replay!vars, nonceVars
<1>3. ASSUME NEW r \in Requests, Resume(r) \/ HandlerEnds(r) \/ Cancel(r)
      PROVE  UNCHANGED Replay!vars
  BY <1>3 DEF Resume, BlockAuth, AuthRaises, BlockFit, FitRaises, BlockQuota, BlockContent,
     SchemaRaises, StartHandler, Trusted, Resumes, HandlerEnds, HandlerFails, ResultRefused,
     ResultRaises, Reply, Returns, Cancel, nonceVars, Replay!vars
<1>4. CASE UNCHANGED vars
  BY <1>4 DEF vars, nonceVars, Replay!vars
<1> QED
  BY <1>1, <1>2, <1>3, <1>4 DEF Next

(* Nor does the limiter make any but its own.                              *)
LEMMA LimiterStep ==
  ASSUME envelope \in [Requests -> Envelope], [Next]_vars
  PROVE  [Limiter!Next]_Limiter!vars
<1>1. CASE Tick
  BY <1>1 DEF Tick, Limiter!Next
<1>2. ASSUME NEW r \in Requests, Resume(r)
      PROVE  [Limiter!Next]_Limiter!vars
  <2>1. Quota(r) \in Limiter!Keys
    BY QuotasAreKeys
  <2>2. UNCHANGED <<now, limiterVars>> \/ Limiter!Allow(Quota(r))
    BY <1>2 DEF Resume, BlockAuth, AuthRaises, BlockFit, FitRaises, BlockQuota, BlockContent,
       SchemaRaises, StartHandler, Trusted, Resumes, Charge
  <2> QED
    BY <2>1, <2>2 DEF Limiter!Next, Limiter!vars, limiterVars
<1>3. ASSUME NEW r \in Requests, Arrive(r) \/ HandlerEnds(r) \/ Cancel(r)
      PROVE  UNCHANGED Limiter!vars
  BY <1>3 DEF Arrive, RefuseUnknown, BlockReplay, BlockTooLarge, AwaitAuth, Arrives,
     HandlerEnds, HandlerFails, ResultRefused, ResultRaises, Reply, Returns, Cancel, limiterVars,
     Limiter!vars
<1>4. CASE UNCHANGED vars
  BY <1>4 DEF vars, limiterVars, Limiter!vars
<1> QED
  BY <1>1, <1>2, <1>3, <1>4 DEF Next

(* Behind any number of interleaved requests the registry is the one that  *)
(* ReplayGuard implements: what holds of it alone holds of it here.        *)
THEOREM RegistryIsUsedAsPromised == Spec => Replay!Spec
<1>1. Init => Replay!Init
  BY DEF Init
<1>2. QuotaInv /\ [Next]_vars => [Replay!Next]_Replay!vars
  BY RegistryStep DEF QuotaInv
<1> QED
  BY <1>1, <1>2, InitQuota, StepQuotaInv, PTL DEF Spec, Replay!Spec

(* And the limiter is the one that RateLimiter implements: no task charges *)
(* a quota in any other way than by a granted check of both buckets.       *)
THEOREM LimiterIsUsedAsPromised == Spec => Limiter!Spec
<1>1. Init => Limiter!Init
  BY DEF Init
<1>2. QuotaInv /\ [Next]_vars => [Limiter!Next]_Limiter!vars
  BY LimiterStep DEF QuotaInv
<1> QED
  BY <1>1, <1>2, InitQuota, StepQuotaInv, PTL DEF Spec, Limiter!Spec

(* The bound on every window of time carries over from the buckets to the  *)
(* server.                                                                 *)
BucketProofs == INSTANCE TokenBucketsProofs

THEOREM AdmissionWindowsBounded == Spec => []Limiter!WindowBound
<1>1. BucketProofs!Spec => []BucketProofs!WindowBound
  BY BucketProofs!WindowsBounded, DispatchConstants DEF BucketProofs!BucketConstants
<1>2. Limiter!Init <=> BucketProofs!Init
  BY DEF Limiter!Init, BucketProofs!Init, Limiter!NoGrants, BucketProofs!NoGrants, Limiter!Times,
     BucketProofs!Times, Limiter!Capacity, BucketProofs!Capacity, Limiter!Keys, BucketProofs!Keys
<1>3. [Limiter!Next]_Limiter!vars <=> [BucketProofs!Next]_BucketProofs!vars
  BY DEF Limiter!Next, BucketProofs!Next, Limiter!vars, BucketProofs!vars, Limiter!Tick,
     BucketProofs!Tick, Limiter!Reset, BucketProofs!Reset, Limiter!Allow, BucketProofs!Allow,
     Limiter!Capped, BucketProofs!Capped, Limiter!CountedAt, BucketProofs!CountedAt,
     Limiter!NoGrants, BucketProofs!NoGrants, Limiter!Times, BucketProofs!Times,
     Limiter!Capacity, BucketProofs!Capacity, Limiter!Keys, BucketProofs!Keys
<1>4. Limiter!WindowBound <=> BucketProofs!WindowBound
  BY DEF Limiter!WindowBound, BucketProofs!WindowBound, Limiter!Capacity, BucketProofs!Capacity,
     Limiter!Keys, BucketProofs!Keys
<1> QED
  BY <1>1, <1>2, <1>3, <1>4, LimiterIsUsedAsPromised, PTL DEF Limiter!Spec, BucketProofs!Spec

(* However many requests there are, and however they wait, fail, are       *)
(* withdrawn or race: at any moment those admitted so far, in all and of   *)
(* one session to one tool, were paid for by one burst and by the refill   *)
(* since the start.                                                        *)
AdmissionBound ==
  /\ Cardinality({r \in Requests : Admitted(r)}) * Unit <= Limiter!Capacity + GlobalRate * now
  /\ \A k \in Limiter!Keys :
       Cardinality({r \in Requests : Admitted(r) /\ Quota(r) = k}) * Unit
         <= Limiter!Capacity + ToolRate * now

THEOREM AdmissionsBounded == Spec => []AdmissionBound
<1>1. QuotaInv /\ Limiter!WindowBound => AdmissionBound
  <2> SUFFICES ASSUME QuotaInv, Limiter!WindowBound PROVE AdmissionBound
    OBVIOUS
  <2>1. now \in Nat /\ 0 \in 0 .. now /\ now - 0 = now
    BY DispatchConstants DEF QuotaInv, Limiter!TypeOK, Limiter!Times
  <2>2. /\ grantsSince[0] * Unit <= Limiter!Capacity + GlobalRate * now
        /\ \A k \in Limiter!Keys : keyGrants[k][0] * Unit <= Limiter!Capacity + ToolRate * now
    BY <2>1 DEF Limiter!WindowBound
  <2> QED
    BY <2>2 DEF AdmissionBound, QuotaInv, QuotaSpentOnAdmission
<1> QED
  BY <1>1, InitQuota, StepQuotaInv, AdmissionWindowsBounded, PTL DEF Spec
=============================================================================
