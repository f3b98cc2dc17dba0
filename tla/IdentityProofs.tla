--------------------------- MODULE IdentityProofs ---------------------------
(***************************************************************************)
(* Proofs about authentication, for any number of requests, any keys and   *)
(* any FITs.  What is in the store was listed since the process started;   *)
(* what is on its way to a waiting request was made after it began, and is *)
(* dated before.                                                           *)
(***************************************************************************)
EXTENDS Identity, TLAPS

Maps ==
  /\ phase = [r \in Requests |-> phase[r]]
  /\ began = [r \in Requests |-> began[r]]
  /\ reply = [r \in Requests |-> reply[r]]
  /\ identity = [r \in Requests |-> identity[r]]
  /\ offered = [r \in Requests |-> offered[r]]

(* The API keys the provider may consult have been in the file.            *)
StoreListed == Entries(file) \subseteq listed /\ Entries(store) \subseteq listed

(* A waiting request and the key set on its way to it.                     *)
Pending(r) ==
  /\ Waiting(r) => mode = "oauth" /\ began[r] \in 0 .. now /\ served \subseteq offered[r]
  /\ phase[r] = "replied" => reply[r].at \in began[r] .. now

(* What the FIT of request r, now the client's with identity id, says.     *)
Permitted(r, id) ==
  /\ envelope[r].fit # None => envelope[r].fit.analyst \in {None, id} \/ id \in Anonymous
  /\ envelope[r].enforce /\ envelope[r].investigation # None =>
       /\ envelope[r].fit # None
       /\ envelope[r].fit.investigation \in {None, envelope[r].investigation}
       /\ envelope[r].fit.aud = envelope[r].server
       /\ envelope[r].fit.tools # << >> => AnyMatches(envelope[r].fit.tools, envelope[r].tool)

(* What an accepted request has proved.                                    *)
Proved(r) ==
  phase[r] = "accepted" =>
    /\ mode = "oauth" => envelope[r].credential.key \in offered[r]
    /\ Permitted(r, identity[r])

IdentityInv ==
  /\ Maps /\ StoreListed /\ Subjects
  /\ now \in Nat
  /\ CacheHonest
  /\ \A r \in Requests : Pending(r) /\ Proved(r)
-----------------------------------------------------------------------------
(* The verdict is "verified" if no step fails, and a step's name if one    *)
(* does; no step has one of these names.                                   *)
LEMMA StepNames ==
  ASSUME NEW fit, NEW call, NEW resolved
  PROVE  /\ DOMAIN Steps(fit, call, resolved) = 1 .. 16
         /\ \A i \in 1 .. 16 :
              Steps(fit, call, resolved)[i].name \notin {"verified", "absent"}
<1> DEFINE steps == Steps(fit, call, resolved)
<1>1. ASSUME NEW i \in 1 .. 16 PROVE steps[i].name \notin {"verified", "absent"}
  <2>1. \/ i = 1 \/ i = 2 \/ i = 3 \/ i = 4 \/ i = 5 \/ i = 6 \/ i = 7 \/ i = 8 \/ i = 9
        \/ i = 10 \/ i = 11 \/ i = 12 \/ i = 13 \/ i = 14 \/ i = 15 \/ i = 16
    OBVIOUS
  <2> QED BY <2>1 DEF Steps
<1>2. DOMAIN steps = 1 .. 16 BY DEF Steps
<1> QED BY <1>1, <1>2

LEMMA VerdictMeaning ==
  ASSUME NEW fit, NEW call, NEW resolved
  PROVE  /\ Verdict(fit, call, resolved) # "absent"
         /\ Verdict(fit, call, resolved) = "verified" =>
              \A i \in 1 .. 16 : Steps(fit, call, resolved)[i].holds
<1> DEFINE steps == Steps(fit, call, resolved)
           failing == {i \in DOMAIN steps : ~ steps[i].holds}
           first == CHOOSE i \in failing : \A j \in failing : i <= j
<1>1. failing \in SUBSET (1 .. 16) BY StepNames
<1>2. CASE failing = {}
  <2>1. \A i \in 1 .. 16 : steps[i].holds BY <1>2, StepNames
  <2>2. Verdict(fit, call, resolved) = "verified" BY <1>2 DEF Verdict
  <2> QED BY <2>1, <2>2
<1>3. CASE failing # {}
  <2>1. \E i \in failing : \A j \in failing : i <= j
    <3>1. \E n \in 1 .. 16 : n \in failing /\ \A j \in 1 .. 16 : j < n => j \notin failing
      BY <1>1, <1>3
    <3> QED BY <3>1, <1>1
  <2>2. first \in failing BY <2>1
  <2>3. Verdict(fit, call, resolved) = steps[first].name BY <1>3 DEF Verdict
  <2> HIDE DEF first, failing, steps
  <2>4. first \in 1 .. 16 BY <1>1, <2>2
  <2> QED BY <2>3, <2>4, StepNames DEF steps
<1> QED BY <1>2, <1>3

LEMMA VerifiedPermits ==
  ASSUME NEW fit, NEW call, NEW resolved, Verdict(fit, call, resolved) = "verified"
  PROVE  /\ fit.analyst \in {None, call.client} \/ call.client = None
         /\ fit.investigation \in {None, call.investigation} \/ call.investigation = None
         /\ fit.aud = call.server
         /\ fit.tools # << >> => AnyMatches(fit.tools, call.tool)
<1> DEFINE steps == Steps(fit, call, resolved)
<1>1. steps[8].holds /\ steps[10].holds /\ steps[12].holds /\ steps[13].holds
  BY VerdictMeaning
<1> QED BY <1>1 DEF Steps

(* A request that ends otherwise than accepted owes nothing.               *)
LEMMA EndIsLocal ==
  ASSUME Maps, NEW r \in Requests, NEW outcome \in {"refused", "raised"}, End(r, outcome)
  PROVE  /\ phase' = [phase EXCEPT ![r] = outcome] /\ phase'[r] = outcome
         /\ identity' = identity
         /\ \A q \in Requests \ {r} : phase'[q] = phase[q]
BY DEF Maps, End

(* A request is accepted only with a FIT that permits it.                  *)
LEMMA AcceptPermits ==
  ASSUME Maps, NEW r \in Requests, NEW id, Accept(r, id), id # None
  PROVE  /\ phase' = [phase EXCEPT ![r] = phase'[r]]
         /\ identity' = [identity EXCEPT ![r] = id]
         /\ identity'[r] = id
         /\ \A q \in Requests \ {r} : phase'[q] = phase[q] /\ identity'[q] = identity[q]
         /\ phase'[r] \in {"accepted", "raised", "refused"}
         /\ phase'[r] = "accepted" => Permitted(r, id)
<1>1. PICK v \in FitVerdicts(r, id) : phase' = [phase EXCEPT ![r] = Outcome(v)]
  BY DEF Accept
<1>2. phase'[r] = Outcome(v) BY <1>1 DEF Maps
<1>3. Outcome(v) \in {"accepted", "raised", "refused"} BY DEF Outcome
<1>4. ASSUME Outcome(v) = "accepted" PROVE Permitted(r, id)
  <2>1. v \in {"verified", "absent"} BY <1>4 DEF Outcome
  <2>2. CASE envelope[r].fit = None
    <3>1. ~ (envelope[r].enforce /\ envelope[r].investigation # None)
      BY <2>1, <2>2 DEF FitVerdicts
    <3> QED BY <2>2, <3>1 DEF Permitted
  <2>3. CASE envelope[r].fit # None
    <3> DEFINE call == Call(r, id)
    <3>1. PICK resolved \in BOOLEAN : v = Verdict(envelope[r].fit, call, resolved)
      BY <2>3 DEF FitVerdicts
    <3>2. v = "verified" BY <2>1, <3>1, VerdictMeaning
    <3>3. /\ id \notin Anonymous => call.client = id
          /\ call.investigation = envelope[r].investigation
          /\ call.server = envelope[r].server /\ call.tool = envelope[r].tool
      BY DEF Call, Client
    <3>4. PICK fit : fit = envelope[r].fit OBVIOUS
    <3> HIDE DEF call
    <3>5. /\ fit.analyst \in {None, call.client} \/ call.client = None
          /\ fit.investigation \in {None, call.investigation} \/ call.investigation = None
          /\ fit.aud = call.server
          /\ fit.tools # << >> => AnyMatches(fit.tools, call.tool)
      BY <3>1, <3>2, <3>4, VerifiedPermits
    <3> QED BY <2>3, <3>3, <3>4, <3>5 DEF Permitted
  <2> QED BY <2>2, <2>3
<1> QED BY <1>1, <1>2, <1>3, <1>4 DEF Maps, Accept
-----------------------------------------------------------------------------
(* A request a step does not concern keeps what it has, while the keys     *)
(* handed out and the time stay.                                           *)
Untouched(q) ==
  /\ phase'[q] = phase[q] /\ began'[q] = began[q] /\ reply'[q] = reply[q]
  /\ identity'[q] = identity[q] /\ offered'[q] = offered[q]

LEMMA OthersKeep ==
  ASSUME IdentityInv, NEW q \in Requests, Untouched(q), UNCHANGED <<mode, envelope, now, served>>
  PROVE  Pending(q)' /\ Proved(q)'
<1>1. Pending(q) /\ Proved(q) BY DEF IdentityInv
<1>2. Pending(q)' BY <1>1 DEF Untouched, Pending, Waiting
<1>3. Proved(q)' BY <1>1 DEF Untouched, Proved, Permitted
<1> QED BY <1>2, <1>3

LEMMA InitInv == Init => IdentityInv
<1> SUFFICES ASSUME Init PROVE IdentityInv
  OBVIOUS
<1>1. Maps BY DEF Init, Start, Maps
<1>2. StoreListed
  <2>1. Entries(EmptyStore) = {} BY DEF Entries, EmptyStore, NoKeys
  <2> QED BY <2>1 DEF Init, Start, StoreListed, Loaded
<1>3. CacheHonest BY DEF Init, Start, CacheHonest
<1>4. \A r \in Requests : Pending(r) /\ Proved(r)
  BY DEF Init, Start, Pending, Proved, Waiting
<1> QED BY <1>1, <1>2, <1>3, <1>4 DEF Init, Start, IdentityInv

(* The steps of the world.                                                 *)
LEMMA WorldKeepsInv ==
  ASSUME IdentityInv,
         \/ Tick \/ Restart
         \/ \E content \in Contents : EditKeys(content)
         \/ \E keys \in SUBSET Keys : Rotate(keys)
  PROVE  IdentityInv'
<1>1. CASE Tick
  <2>1. Maps' /\ StoreListed' /\ Subjects' /\ now' \in Nat /\ CacheHonest'
    BY <1>1 DEF IdentityInv, Tick, Maps, StoreListed, Subjects, CacheHonest, Entries,
                providerVars, requestVars
  <2>2. ASSUME NEW r \in Requests PROVE Pending(r)' /\ Proved(r)'
    <3>1. Pending(r) /\ Proved(r) /\ now \in Nat BY DEF IdentityInv
    <3>2. Pending(r)'
      BY <1>1, <3>1 DEF Tick, Pending, Waiting, requestVars
    <3>3. Proved(r)'
      BY <1>1, <3>1 DEF Tick, Proved, Permitted, requestVars
    <3> QED BY <3>2, <3>3
  <2> QED BY <2>1, <2>2 DEF IdentityInv
<1>2. CASE Restart
  <2>1. Maps' /\ Subjects' /\ now' \in Nat /\ CacheHonest'
    BY <1>2 DEF IdentityInv, Restart, Maps, Subjects, CacheHonest, worldVars
  <2>2. StoreListed'
    <3>1. Entries(EmptyStore) = {} BY DEF Entries, EmptyStore, NoKeys
    <3> QED BY <1>2, <3>1 DEF Restart, StoreListed, Loaded, Entries, worldVars
  <2>3. ASSUME NEW r \in Requests PROVE Pending(r)' /\ Proved(r)'
    <3>1. Proved(r) BY DEF IdentityInv
    <3>2. phase'[r] = IF Waiting(r) THEN "lost" ELSE phase[r] BY <1>2 DEF Restart
    <3>3. Pending(r)' BY <3>2 DEF Pending, Waiting
    <3>4. Proved(r)' BY <1>2, <3>1, <3>2 DEF Restart, Proved, Permitted
    <3> QED BY <3>3, <3>4
  <2> QED BY <2>1, <2>2, <2>3 DEF IdentityInv
<1>3. ASSUME NEW content \in Contents, EditKeys(content) PROVE IdentityInv'
  <2>1. Maps' /\ Subjects' /\ now' \in Nat /\ CacheHonest'
    BY <1>3 DEF IdentityInv, EditKeys, Maps, Subjects, CacheHonest, providerVars, requestVars
  <2>2. StoreListed'
    BY <1>3 DEF IdentityInv, EditKeys, StoreListed, Entries, providerVars
  <2>3. ASSUME NEW r \in Requests PROVE Pending(r)' /\ Proved(r)'
    <3>1. Untouched(r) /\ UNCHANGED <<mode, envelope, now, served>>
      BY <1>3 DEF EditKeys, Untouched, requestVars
    <3> QED BY <3>1, OthersKeep
  <2> QED BY <2>1, <2>2, <2>3 DEF IdentityInv
<1>4. ASSUME NEW keys \in SUBSET Keys, Rotate(keys) PROVE IdentityInv'
  <2>1. Maps' /\ StoreListed' /\ Subjects' /\ now' \in Nat /\ CacheHonest'
    BY <1>4 DEF IdentityInv, Rotate, Maps, StoreListed, Subjects, CacheHonest, Entries,
                providerVars, requestVars
  <2>2. ASSUME NEW r \in Requests PROVE Pending(r)' /\ Proved(r)'
    <3>1. Pending(r) /\ Proved(r) BY DEF IdentityInv
    <3>2. offered'[r] = IF Waiting(r) THEN offered[r] \cup keys ELSE offered[r]
      BY <1>4 DEF Rotate
    <3>3. Pending(r)'
      BY <1>4, <3>1, <3>2 DEF Rotate, Pending, Waiting, requestVars
    <3>4. Proved(r)'
      BY <1>4, <3>1, <3>2 DEF Rotate, Proved, Permitted, requestVars
    <3> QED BY <3>3, <3>4
  <2> QED BY <2>1, <2>2 DEF IdentityInv
<1> QED BY <1>1, <1>2, <1>3, <1>4
-----------------------------------------------------------------------------
(* The steps of a request.  Unconcerned(r) is what each leaves alone.      *)
Unconcerned(r) ==
  /\ UNCHANGED <<mode, envelope, now, file, served, listed>>
  /\ \A q \in Requests \ {r} : Untouched(q)

LEMMA DecisionKeepsInv ==
  ASSUME IdentityInv, NEW r \in Requests, Unconcerned(r), Maps', StoreListed', CacheHonest',
         phase'[r] \in {"accepted", "raised", "refused"},
         phase'[r] = "accepted" =>
           /\ mode = "oauth" => envelope[r].credential.key \in offered'[r]
           /\ Permitted(r, identity'[r])
  PROVE  IdentityInv'
<1>1. Subjects' /\ now' \in Nat BY DEF IdentityInv, Unconcerned, Subjects
<1>2. ASSUME NEW q \in Requests PROVE Pending(q)' /\ Proved(q)'
  <2>1. CASE q = r BY <2>1 DEF Pending, Waiting, Proved, Permitted, Unconcerned
  <2>2. CASE q # r BY <2>2, OthersKeep DEF Unconcerned
  <2> QED BY <2>1, <2>2
<1> QED BY <1>1, <1>2 DEF IdentityInv

LEMMA AtOnceKeepsInv ==
  ASSUME IdentityInv, NEW r \in Requests,
         CheckNone(r) \/ CheckToken(r) \/ RefuseApiKey(r) \/ RefuseWithoutJwt(r)
  PROVE  IdentityInv'
<1>1. UNCHANGED <<mode, envelope, now, file, served, listed, reply, began, offered, store, cache>>
  BY DEF CheckNone, CheckToken, RefuseApiKey, RefuseWithoutJwt, Arrives, AtOnce, worldVars,
         providerVars
<1>2. Maps BY DEF IdentityInv
<1>3. \/ End(r, "refused")
      \/ \E id : Accept(r, id) /\ id # None /\ mode # "oauth"
  BY IdentityAssumption DEF CheckNone, CheckToken, RefuseApiKey, RefuseWithoutJwt, Arrives
<1>4. StoreListed' /\ CacheHonest' BY <1>1 DEF IdentityInv, StoreListed, CacheHonest, Entries
<1>5. CASE End(r, "refused")
  <2>1. Unconcerned(r) /\ Maps' /\ phase'[r] = "refused"
    BY <1>1, <1>2, <1>5, EndIsLocal DEF Unconcerned, Untouched, Maps
  <2> QED BY <1>4, <2>1, DecisionKeepsInv
<1>6. ASSUME NEW id, Accept(r, id), id # None, mode # "oauth" PROVE IdentityInv'
  <2>1. /\ Unconcerned(r) /\ Maps' /\ phase'[r] \in {"accepted", "raised", "refused"}
        /\ phase'[r] = "accepted" => Permitted(r, identity'[r])
    BY <1>1, <1>2, <1>6, AcceptPermits DEF Unconcerned, Untouched, Maps
  <2> QED BY <1>4, <1>6, <2>1, DecisionKeepsInv
<1> QED BY <1>3, <1>5, <1>6

(* What is consulted has been listed, read just now or before.             *)
LEMMA ConsultedListed ==
  ASSUME StoreListed
  PROVE  Entries(Consulted) \subseteq listed
BY DEF StoreListed, Consulted, Loaded

LEMMA ApiKeyKeepsInv ==
  ASSUME IdentityInv, NEW r \in Requests, CheckApiKey(r)
  PROVE  IdentityInv'
<1> DEFINE label == LabelOf(envelope[r].credential.key, Consulted.keys)
<1>1. /\ UNCHANGED <<mode, envelope, now, file, served, listed, reply, began, offered, cache>>
      /\ store' = Consulted /\ mode = "apikey"
  BY DEF CheckApiKey, Arrives, AtOnce, worldVars
<1>2. Maps BY DEF IdentityInv
<1>3. \/ End(r, "refused") \/ End(r, "raised")
      \/ Accept(r, label) /\ label # None
  BY DEF CheckApiKey
<1>4. StoreListed'
  BY <1>1, ConsultedListed DEF IdentityInv, StoreListed, Entries
<1>5. CacheHonest' BY <1>1 DEF IdentityInv, CacheHonest
<1> HIDE DEF label
<1>6. CASE End(r, "refused") \/ End(r, "raised")
  <2>1. Unconcerned(r) /\ Maps' /\ phase'[r] \in {"raised", "refused"}
    BY <1>1, <1>2, <1>6, EndIsLocal DEF Unconcerned, Untouched, Maps
  <2> QED BY <1>4, <1>5, <2>1, DecisionKeepsInv
<1>7. CASE Accept(r, label) /\ label # None
  <2>1. /\ Unconcerned(r) /\ Maps' /\ phase'[r] \in {"accepted", "raised", "refused"}
        /\ phase'[r] = "accepted" => Permitted(r, identity'[r])
    BY <1>1, <1>2, <1>7, AcceptPermits DEF Unconcerned, Untouched, Maps
  <2> QED BY <1>1, <1>4, <1>5, <2>1, DecisionKeepsInv
<1> QED BY <1>3, <1>6, <1>7

(* A JWT is decoded with the keys handed out at that moment.               *)
LEMMA DecodeKeepsInv ==
  ASSUME IdentityInv, NEW r \in Requests, Decode(r), mode = "oauth",
         UNCHANGED <<mode, envelope, now, file, served, listed, store>>,
         Maps', CacheHonest', served \subseteq offered'[r],
         \A q \in Requests \ {r} :
           began'[q] = began[q] /\ reply'[q] = reply[q] /\ offered'[q] = offered[q]
  PROVE  IdentityInv'
<1>1. Maps /\ Subjects BY DEF IdentityInv
<1>2. StoreListed' BY DEF IdentityInv, StoreListed, Entries
<1>3. CASE End(r, "refused")
  <2>1. Unconcerned(r) /\ phase'[r] = "refused"
    BY <1>1, <1>3, EndIsLocal DEF Unconcerned, Untouched
  <2> QED BY <1>2, <2>1, DecisionKeepsInv
<1>4. CASE Genuine(r) /\ Accept(r, envelope[r].credential.subject)
  <2>1. envelope[r].credential.key \in offered'[r] BY <1>4 DEF Genuine, SigningKeys
  <2>2. /\ Unconcerned(r) /\ phase'[r] \in {"accepted", "raised", "refused"}
        /\ phase'[r] = "accepted" => Permitted(r, identity'[r])
    <3>1. envelope[r].credential.subject # None BY <1>1 DEF Subjects
    <3> QED BY <1>1, <1>4, <3>1, AcceptPermits DEF Unconcerned, Untouched
  <2> QED BY <1>2, <2>1, <2>2, DecisionKeepsInv
<1> QED BY <1>3, <1>4 DEF Decode

LEMMA CheckJwtKeepsInv ==
  ASSUME IdentityInv, NEW r \in Requests, CheckJwt(r)
  PROVE  IdentityInv'
<1>1. /\ UNCHANGED <<mode, envelope, now, file, served, listed, reply, began, store, cache>>
      /\ mode = "oauth" /\ Decode(r) /\ offered' = [offered EXCEPT ![r] = served]
  BY DEF CheckJwt, Arrives, worldVars, providerVars
<1>2. Maps BY DEF IdentityInv
<1>3. phase' = [phase EXCEPT ![r] = phase'[r]] /\ identity' = [identity EXCEPT ![r] = identity'[r]]
  <2>1. CASE End(r, "refused") BY <2>1, <1>2, EndIsLocal DEF Maps
  <2>2. CASE Genuine(r) /\ Accept(r, envelope[r].credential.subject)
    <3>1. envelope[r].credential.subject # None BY DEF IdentityInv, Subjects
    <3> QED BY <2>2, <3>1, <1>2, AcceptPermits
  <2> QED BY <1>1, <2>1, <2>2 DEF Decode
<1>4. Maps' BY <1>1, <1>2, <1>3 DEF Maps
<1>5. CacheHonest' BY <1>1 DEF IdentityInv, CacheHonest
<1>6. /\ served \subseteq offered'[r]
      /\ \A q \in Requests \ {r} : offered'[q] = offered[q]
  BY <1>1, <1>2 DEF Maps
<1> QED BY <1>1, <1>4, <1>5, <1>6, DecodeKeepsInv

(* What Resume puts in the cache was on its way to the request.            *)
LEMMA ResumeKeepsInv ==
  ASSUME IdentityInv, NEW r \in Requests, Resume(r)
  PROVE  IdentityInv'
<1>1. /\ UNCHANGED <<mode, envelope, now, file, served, listed, store, offered>>
      /\ phase[r] = "replied" /\ Decode(r) /\ Forget(r)
      /\ cache' = [keys |-> reply[r].keys, at |-> began[r], made |-> reply[r].at]
  BY DEF Resume, worldVars, Stamp
<1>2. Maps /\ Pending(r) /\ now \in Nat BY DEF IdentityInv
<1>3. /\ mode = "oauth" /\ served \subseteq offered[r]
      /\ began[r] \in 0 .. now /\ reply[r].at \in began[r] .. now
  BY <1>1, <1>2 DEF Pending, Waiting
<1>4. CacheHonest' BY <1>1, <1>2, <1>3 DEF CacheHonest
<1>5. phase' = [phase EXCEPT ![r] = phase'[r]] /\ identity' = [identity EXCEPT ![r] = identity'[r]]
  <2>1. CASE End(r, "refused") BY <2>1, <1>2, EndIsLocal DEF Maps
  <2>2. CASE Genuine(r) /\ Accept(r, envelope[r].credential.subject)
    <3>1. envelope[r].credential.subject # None BY DEF IdentityInv, Subjects
    <3> QED BY <2>2, <3>1, <1>2, AcceptPermits
  <2> QED BY <1>1, <2>1, <2>2 DEF Decode
<1>6. Maps' BY <1>1, <1>2, <1>5 DEF Maps, Forget
<1>7. \A q \in Requests \ {r} :
        began'[q] = began[q] /\ reply'[q] = reply[q] /\ offered'[q] = offered[q]
  BY <1>1, <1>2 DEF Maps, Forget
<1> QED BY <1>1, <1>3, <1>4, <1>6, <1>7, DecodeKeepsInv

LEMMA FetchKeepsInv ==
  ASSUME IdentityInv, NEW r \in Requests, FetchJwks(r) \/ Serve(r)
  PROVE  IdentityInv'
<1>1. Maps /\ Subjects /\ now \in Nat /\ Pending(r) /\ Proved(r) BY DEF IdentityInv
<1>2. UNCHANGED <<mode, envelope, now, file, served, listed, store, cache, identity>>
  BY DEF FetchJwks, Serve, Arrives, worldVars, providerVars
<1>3. StoreListed' /\ Subjects' /\ CacheHonest' /\ now' \in Nat
  BY <1>1, <1>2 DEF IdentityInv, StoreListed, Subjects, CacheHonest, Entries
<1>4. CASE FetchJwks(r)
  <2>1. /\ mode = "oauth"
        /\ phase' = [phase EXCEPT ![r] = "fetching"]
        /\ began' = [began EXCEPT ![r] = now]
        /\ offered' = [offered EXCEPT ![r] = served]
        /\ reply' = reply
    BY <1>4 DEF FetchJwks, Arrives
  <2>2. Maps' BY <1>1, <1>2, <2>1 DEF Maps
  <2>3. ASSUME NEW q \in Requests PROVE Pending(q)' /\ Proved(q)'
    <3>1. CASE q = r
      BY <1>1, <1>2, <2>1, <3>1 DEF Maps, Pending, Waiting, Proved
    <3>2. CASE q # r
      <4>1. Untouched(q) BY <1>1, <1>2, <2>1, <3>2 DEF Maps, Untouched
      <4> QED BY <1>2, <4>1, OthersKeep
    <3> QED BY <3>1, <3>2
  <2> QED BY <1>3, <2>2, <2>3 DEF IdentityInv
<1>5. CASE Serve(r)
  <2>1. /\ phase[r] = "fetching"
        /\ phase' = [phase EXCEPT ![r] = "replied"]
        /\ reply' = [reply EXCEPT ![r] = [keys |-> served, at |-> now]]
        /\ began' = began /\ offered' = offered
    BY <1>5 DEF Serve
  <2>2. Maps' BY <1>1, <1>2, <2>1 DEF Maps
  <2>3. ASSUME NEW q \in Requests PROVE Pending(q)' /\ Proved(q)'
    <3>1. CASE q = r
      BY <1>1, <1>2, <2>1, <3>1 DEF Maps, Pending, Waiting, Proved
    <3>2. CASE q # r
      <4>1. Untouched(q) BY <1>1, <1>2, <2>1, <3>2 DEF Maps, Untouched
      <4> QED BY <1>2, <4>1, OthersKeep
    <3> QED BY <3>1, <3>2
  <2> QED BY <1>3, <2>2, <2>3 DEF IdentityInv
<1> QED BY <1>4, <1>5

LEMMA FetchFailsKeepsInv ==
  ASSUME IdentityInv, NEW r \in Requests, FetchFails(r)
  PROVE  IdentityInv'
<1>1. /\ UNCHANGED <<mode, envelope, now, file, served, listed, store, cache, offered>>
      /\ End(r, "refused") /\ Forget(r)
  BY DEF FetchFails, worldVars, providerVars
<1>2. Maps BY DEF IdentityInv
<1>3. StoreListed' /\ CacheHonest' BY <1>1 DEF IdentityInv, StoreListed, CacheHonest, Entries
<1>4. Unconcerned(r) /\ Maps' /\ phase'[r] = "refused"
  BY <1>1, <1>2, EndIsLocal DEF Unconcerned, Untouched, Maps, Forget
<1> QED BY <1>3, <1>4, DecisionKeepsInv

LEMMA NextInv == IdentityInv /\ [Next]_vars => IdentityInv'
<1> SUFFICES ASSUME IdentityInv, [Next]_vars PROVE IdentityInv'
  OBVIOUS
<1>1. CASE UNCHANGED vars
  <2>1. \A r \in Requests : Untouched(r)
    BY <1>1 DEF vars, requestVars, Untouched
  <2>2. UNCHANGED <<mode, envelope, now, served>> BY <1>1 DEF vars, worldVars
  <2>3. \A r \in Requests : Pending(r)' /\ Proved(r)' BY <2>1, <2>2, OthersKeep
  <2>4. Maps' /\ StoreListed' /\ Subjects' /\ now' \in Nat /\ CacheHonest'
    BY <1>1 DEF IdentityInv, vars, worldVars, providerVars, requestVars, Maps, StoreListed,
                Subjects, CacheHonest, Entries
  <2> QED BY <2>3, <2>4 DEF IdentityInv
<1>2. CASE Next
  <2>1. ASSUME NEW r \in Requests, Check(r) \/ Serve(r) \/ FetchFails(r) PROVE IdentityInv'
    BY <2>1, AtOnceKeepsInv, ApiKeyKeepsInv, CheckJwtKeepsInv, ResumeKeepsInv, FetchKeepsInv,
       FetchFailsKeepsInv DEF Check
  <2> QED BY <1>2, <2>1, WorldKeepsInv DEF Next
<1> QED BY <1>1, <1>2

THEOREM IdentityInvariant == Spec => []IdentityInv
BY InitInv, NextInv, PTL DEF Spec
-----------------------------------------------------------------------------
(* A JWT is accepted only if its key was handed out since the request came *)
(* in, whatever the cache holds (OAuthJWTProvider).                        *)
THEOREM WithdrawnKeysAreRefused == Spec => []WithdrawnKeysRefused
<1>1. IdentityInv => WithdrawnKeysRefused BY DEF IdentityInv, Proved, WithdrawnKeysRefused
<1> QED BY <1>1, IdentityInvariant, PTL

(* The key set _get_jwks caches is dated no later than the moment it was   *)
(* handed out, in any interleaving of fetches.                             *)
THEOREM CacheStaysHonest == Spec => []CacheHonest
<1>1. IdentityInv => CacheHonest BY DEF IdentityInv
<1> QED BY <1>1, IdentityInvariant, PTL

(* A FIT issued to an analyst serves no other client who has an identity   *)
(* of his own, that is any but "local" and the empty one (_run_auth before *)
(* _run_fit).                                                              *)
THEOREM FitsBindAnalysts == Spec => []FitIsTheAnalysts
<1>1. IdentityInv => FitIsTheAnalysts
  BY DEF IdentityInv, Proved, Permitted, FitIsTheAnalysts
<1> QED BY <1>1, IdentityInvariant, PTL

(* Under FSS_FIT_ENFORCE a call in an investigation is accepted only with  *)
(* a FIT that covers it (_run_fit, verify_fit).                            *)
THEOREM FitsCoverCalls == Spec => []FitCoversCall
<1>1. IdentityInv => FitCoversCall
  BY DEF IdentityInv, Proved, Permitted, FitCoversCall
<1> QED BY <1>1, IdentityInvariant, PTL

(* An API key is accepted only under a label it had in the file since the  *)
(* process started (ApiKeyProvider).                                       *)
THEOREM AcceptedKeysWereListed == Spec => KeysWereListed
<1> DEFINE Step == \A r \in Requests : Accepts(r) /\ mode = "apikey" =>
                     <<envelope[r].credential.key, identity'[r]>> \in listed
<1>1. ASSUME IdentityInv, Next, NEW r \in Requests, Accepts(r), mode = "apikey"
      PROVE  <<envelope[r].credential.key, identity'[r]>> \in listed
  <2>1. Maps /\ StoreListed BY <1>1 DEF IdentityInv
  <2>2. ASSUME NEW q \in Requests, Check(q) \/ Serve(q) \/ FetchFails(q)
        PROVE  CheckApiKey(q)
    <3>1. mode = "oauth" \/ ~ (Serve(q) \/ FetchFails(q) \/ Resume(q))
      BY <1>1 DEF IdentityInv, Pending, Waiting, Serve, FetchFails, Resume
    <3>2. CASE RefuseApiKey(q)
      <4>1. phase'[r] = "refused" \/ phase'[r] = phase[r]
        BY <2>1, <3>2, EndIsLocal DEF RefuseApiKey
      <4> QED BY <1>1, <4>1 DEF Accepts
    <3> QED
      BY <1>1, <2>2, <3>1, <3>2 DEF Check, CheckNone, CheckToken, RefuseWithoutJwt, CheckJwt,
                                    FetchJwks, Arrives
  <2>3. PICK q \in Requests : CheckApiKey(q)
    <3>1. \/ \E q \in Requests : Check(q) \/ Serve(q) \/ FetchFails(q)
          \/ Tick \/ Restart
          \/ \E content \in Contents : EditKeys(content)
          \/ \E keys \in SUBSET Keys : Rotate(keys)
      BY <1>1 DEF Next
    <3>2. ~ Tick /\ ~ Restart BY <1>1 DEF Accepts, Tick, Restart, requestVars
    <3>3. /\ \A content \in Contents : ~ EditKeys(content)
          /\ \A keys \in SUBSET Keys : ~ Rotate(keys)
      BY <1>1 DEF Accepts, EditKeys, Rotate, requestVars
    <3> QED BY <2>2, <3>1, <3>2, <3>3
  <2> DEFINE key == envelope[q].credential.key
             label == LabelOf(key, Consulted.keys)
  <2>4. \/ End(q, "refused") \/ End(q, "raised")
        \/ Accept(q, label) /\ label # None
    BY <2>3 DEF CheckApiKey
  <2>5. ~ End(q, "refused") /\ ~ End(q, "raised")
    BY <1>1, <2>1, EndIsLocal DEF Accepts
  <2>6. r = q /\ identity'[r] = label
    BY <1>1, <2>1, <2>4, <2>5, AcceptPermits DEF Accepts
  <2>7. key \in DOMAIN Consulted.keys /\ label = Consulted.keys[key]
    BY <2>4, <2>5 DEF LabelOf
  <2>8. <<key, label>> \in Entries(Consulted) BY <2>7 DEF Entries
  <2> QED BY <2>1, <2>6, <2>8, ConsultedListed
<1>2. IdentityInv /\ [Next]_vars => [Step]_vars BY <1>1
<1>3. Spec => [][Step]_vars BY <1>2, IdentityInvariant, PTL DEF Spec
<1> QED BY <1>3 DEF KeysWereListed

-----------------------------------------------------------------------------
(* Whatever the operator writes, the file is one of those described.       *)
FileSound == file \in Contents

LEMMA FileStaysSound == Spec => []FileSound
<1>1. Init => FileSound BY DEF Init, FileSound
<1>2. FileSound /\ [Next]_vars => FileSound'
  BY DEF FileSound, Next, vars, worldVars, Tick, Restart, EditKeys, Rotate, Serve, FetchFails, Check,
         CheckNone, CheckToken, RefuseApiKey, CheckApiKey, RefuseWithoutJwt, CheckJwt, FetchJwks,
         Resume, Arrives
<1> QED BY <1>1, <1>2, PTL DEF Spec

(* A server that started without API keys lets the owner of a key in as    *)
(* soon as the file lists it (ApiKeyProvider.authenticate loads again).    *)
THEOREM EmptyStoresHeal == Spec => EmptyStoreHeals
<1> DEFINE Step == \A r \in Requests : Waits(r) /\ phase'[r] # "new" => phase'[r] = "accepted"
<1>1. ASSUME IdentityInv, FileSound, Next, NEW r \in Requests, Waits(r), phase'[r] # "new"
      PROVE  phase'[r] = "accepted"
  <2> DEFINE key == envelope[r].credential.key
  <2>1. Maps BY <1>1 DEF IdentityInv
  <2>2. /\ mode = "apikey" /\ phase[r] = "new" /\ envelope[r].fit = None /\ ~ envelope[r].enforce
        /\ key \in DOMAIN file.keys /\ file.state = "object" /\ NoStore(store)
        /\ key \notin ShortKeys
    BY <1>1 DEF Waits
  <2>3. key \in Keys /\ file.keys[key] \in Labels
    <3>1. file.keys \in UNION {[K -> Labels] : K \in SUBSET Keys}
      BY <1>1, <2>2 DEF FileSound, Contents
    <3>2. PICK K \in SUBSET Keys : file.keys \in [K -> Labels] BY <3>1
    <3> QED BY <2>2, <3>2
  <2>4. ASSUME NEW q \in Requests, Check(q) \/ Serve(q) \/ FetchFails(q)
        PROVE  (RefuseApiKey(q) \/ CheckApiKey(q)) /\ q = r
    <3>1. ~ (Serve(q) \/ FetchFails(q) \/ Resume(q))
      BY <1>1, <2>2 DEF IdentityInv, Pending, Waiting, Serve, FetchFails, Resume
    <3>2. RefuseApiKey(q) \/ CheckApiKey(q)
      BY <2>2, <2>4, <3>1 DEF Check, CheckNone, CheckToken, RefuseWithoutJwt, CheckJwt, FetchJwks,
                              Arrives
    <3>3. phase' = [phase EXCEPT ![q] = phase'[q]]
      <4>1. End(q, "refused") \/ End(q, "raised") \/ \E id : Accept(q, id) /\ id # None
        BY <3>2 DEF RefuseApiKey, CheckApiKey
      <4> QED BY <2>1, <4>1, EndIsLocal, AcceptPermits DEF Maps
    <3> QED BY <1>1, <2>1, <2>2, <3>2, <3>3 DEF Maps
  <2>5. RefuseApiKey(r) \/ CheckApiKey(r)
    <3>1. ~ Tick BY <1>1, <2>2 DEF Tick, requestVars
    <3>2. ~ Restart BY <1>1, <2>2 DEF Restart, Waiting
    <3>3. /\ \A content \in Contents : ~ EditKeys(content)
          /\ \A keys \in SUBSET Keys : ~ Rotate(keys)
      BY <1>1, <2>2 DEF EditKeys, Rotate, requestVars
    <3> QED BY <1>1, <2>4, <3>1, <3>2, <3>3 DEF Next
  <2>6. ~ RefuseApiKey(r) BY <2>2, <2>3, IdentityAssumption DEF RefuseApiKey
  <2>7. Consulted = file BY <2>2 DEF Consulted, Loaded
  <2>8. LabelOf(key, Consulted.keys) # None
    BY <2>2, <2>3, <2>7, IdentityAssumption DEF LabelOf
  <2>9. Accept(r, LabelOf(key, Consulted.keys))
    BY <2>2, <2>5, <2>6, <2>7, <2>8 DEF CheckApiKey
  <2>10. \A id : FitVerdicts(r, id) = {"absent"} BY <2>2 DEF FitVerdicts
  <2> QED BY <2>1, <2>9, <2>10 DEF Accept, Outcome, Maps
<1>2. IdentityInv /\ FileSound /\ [Next]_vars => [Step]_vars BY <1>1
<1>3. Spec => [][Step]_vars BY <1>2, IdentityInvariant, FileStaysSound, PTL DEF Spec
<1> QED BY <1>3 DEF EmptyStoreHeals
=============================================================================
