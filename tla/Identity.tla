------------------------------ MODULE Identity ------------------------------
(***************************************************************************)
(* auth.py with _run_auth and _run_fit of the pipeline: who a request is   *)
(* from and what its FIT permits, while keys are added and withdrawn, the  *)
(* key server answers late or not at all and the process restarts.  Only   *)
(* the fetch of _get_jwks is awaited; everything else of a request's check *)
(* runs in one piece, the synchronous fetches of PyJWKClient included.     *)
(***************************************************************************)
EXTENDS Fit

CONSTANTS
  Requests, Keys,
  ShortKeys,  \* the keys of less than 32 characters
  Token,      \* the configured token, None if there is none
  TTL,        \* _jwks_ttl
  Labels,     \* the names API keys are given
  MaxTime     \* bound: the last moment of the clock

ASSUME IdentityAssumption ==
  /\ TTL \in Nat /\ MaxTime \in Nat /\ ShortKeys \subseteq Keys
  /\ None \notin Keys \cup Labels \cup {"token-user", "local", ""}

VARIABLES
  now,
  mode,      \* the effective mode of authentication: it does not change
  envelope,  \* what each request presents: it does not change
  file,      \* the file of API keys: its state, and its keys with their labels
  store,     \* what the provider made of it
  served,    \* the keys the key server hands out
  cache,     \* the key set _get_jwks holds, with its time stamp
  phase,
  began,     \* when a request read the clock
  reply,     \* the key set on its way to a request
  identity,  \* the client identity a request was given
  verdict,   \* the verdict on its FIT
  listed,    \* history: label by key, as listed since the process started
  offered    \* history: the keys handed out since a request began

worldVars == <<now, file, served>>
providerVars == <<store, cache>>
requestVars == <<phase, began, reply, identity, verdict>>
vars == <<mode, envelope, worldVars, providerVars, requestVars, listed, offered>>

NoKeys == << >>

(* The file is no JSON, an object that lists keys, or another value, which *)
(* may be one that is false ([], null, 0).                                 *)
Contents ==
  [state : {"unreadable", "falsy", "other"}, keys : {NoKeys}]
  \cup [state : {"object"}, keys : UNION {[K -> Labels] : K \in SUBSET Keys}]
Entries(f) == {<<k, f.keys[k]>> : k \in DOMAIN f.keys}

(* _load_keys: a file that cannot be read leaves the store as it was; JSON *)
(* that is no object is stored all the same.                               *)
Loaded(old) == IF file.state = "unreadable" THEN old ELSE file
EmptyStore == [state |-> "object", keys |-> NoKeys]
NoStore(s) == s.state = "falsy" \/ s = EmptyStore

Modes == {"none", "token", "apikey", "oauth"}
Start ==
  /\ now = 0
  /\ store = Loaded(EmptyStore) /\ cache = None
  /\ phase = [r \in Requests |-> "new"]
  /\ began = [r \in Requests |-> 0]
  /\ reply = [r \in Requests |-> None]
  /\ identity = [r \in Requests |-> None]
  /\ verdict = [r \in Requests |-> "absent"]
  /\ listed = Entries(file)
  /\ offered = [r \in Requests |-> {}]

(* A JWT without a subject has "unknown" for one.                          *)
Subjects == \A r \in Requests : envelope[r].credential.subject # None
Init ==
  /\ mode \in Modes /\ Subjects
  /\ file \in Contents /\ served \in SUBSET Keys
  /\ Start
-----------------------------------------------------------------------------
(* The world: time, the operator's edits, the key server.                  *)

Tick ==
  /\ now < MaxTime
  /\ now' = now + 1
  /\ UNCHANGED <<mode, envelope, file, served, providerVars, requestVars, listed, offered>>

(* The file matters to one provider, the key server to another.            *)
EditKeys(content) ==
  /\ mode = "apikey"
  /\ file' = content
  /\ listed' = listed \cup Entries(content)
  /\ UNCHANGED <<mode, envelope, now, served, providerVars, requestVars, offered>>

Waiting(r) == phase[r] \in {"fetching", "replied"}
Rotate(keys) ==
  /\ mode = "oauth"
  /\ served' = keys
  /\ offered' = [r \in Requests |-> IF Waiting(r) THEN offered[r] \cup keys ELSE offered[r]]
  /\ UNCHANGED <<mode, envelope, now, file, providerVars, requestVars, listed>>

(* The process ends, with the requests it was checking, and starts anew.   *)
Restart ==
  /\ store' = Loaded(EmptyStore)
  /\ cache' = None
  /\ phase' = [r \in Requests |-> IF Waiting(r) THEN "lost" ELSE phase[r]]
  /\ began' = [r \in Requests |-> 0]
  /\ reply' = [r \in Requests |-> None]
  /\ listed' = Entries(file)
  /\ UNCHANGED <<mode, envelope, worldVars, identity, verdict, offered>>
-----------------------------------------------------------------------------
(* From an identity to the verdict on the FIT.                             *)

(* A seeded fault: the FIT is looked at before the identity is recorded.   *)
ClientTooEarly(r, id) == None

(* fss_client_identity, as _run_auth leaves it and verify_fit reads it: it *)
(* is not set to "local", the identity NoAuthProvider gives but a key's    *)
(* label or a JWT's subject may be too, and "" counts as none.             *)
Anonymous == {"local", ""}
Client(r, id) == IF id \in Anonymous THEN None ELSE id

Call(r, id) ==
  [tool |-> envelope[r].tool, investigation |-> envelope[r].investigation,
   client |-> Client(r, id), kind |-> "agent_supervised",
   server |-> envelope[r].server, trusted |-> envelope[r].trusted, now |-> now]

(* A seeded fault: whoever brings no FIT is asked for none.                *)
FitVerdictsOptional(r, id) ==
  IF envelope[r].fit = None THEN {"absent"}
  ELSE {Verdict(envelope[r].fit, Call(r, id), resolved) : resolved \in BOOLEAN}

(* _run_fit, for each outcome of the fetch of the issuer's key.            *)
FitVerdicts(r, id) ==
  IF envelope[r].fit # None
  THEN {Verdict(envelope[r].fit, Call(r, id), resolved) : resolved \in BOOLEAN}
  ELSE IF envelope[r].enforce /\ envelope[r].investigation # None
  THEN {"required"} ELSE {"absent"}

Outcome(v) ==
  CASE v \in {"verified", "absent"} -> "accepted" [] v = "raised" -> "raised"
    [] OTHER -> "refused"

(* Every provider grants every scope, so authorize grants what is asked.   *)
Accept(r, id) ==
  /\ identity' = [identity EXCEPT ![r] = id]
  /\ \E v \in FitVerdicts(r, id) :
       /\ verdict' = [verdict EXCEPT ![r] = v]
       /\ phase' = [phase EXCEPT ![r] = Outcome(v)]

End(r, outcome) ==
  /\ phase' = [phase EXCEPT ![r] = outcome]
  /\ UNCHANGED <<identity, verdict>>

Arrives(r, m) ==
  /\ phase[r] = "new" /\ mode = m
  /\ UNCHANGED <<mode, envelope, worldVars, reply, listed>>
AtOnce == UNCHANGED <<began, offered>>

CheckNone(r) ==
  /\ Arrives(r, "none") /\ AtOnce
  /\ Accept(r, "local")
  /\ UNCHANGED providerVars

(* Without a configured token nobody is let in.                            *)
CheckToken(r) ==
  /\ Arrives(r, "token") /\ AtOnce
  /\ IF Token # None /\ envelope[r].credential.key = Token
       THEN Accept(r, "token-user") ELSE End(r, "refused")
  /\ UNCHANGED providerVars

(* A seeded fault: the file is read at the start of the process only.      *)
ConsultedOnce == store

(* The store is read again as long as it is false: empty, or no object.    *)
Consulted == IF NoStore(store) THEN Loaded(store) ELSE store

(* A seeded fault: a key that is not found is given a label all the same.  *)
LabelOfDefault(key, keys) == IF key \in DOMAIN keys THEN keys[key] ELSE "unknown"

LabelOf(key, keys) == IF key \in DOMAIN keys THEN keys[key] ELSE None

RefuseApiKey(r) ==
  /\ Arrives(r, "apikey") /\ AtOnce
  /\ envelope[r].credential.key \in ShortKeys \cup {None}
  /\ End(r, "refused")
  /\ UNCHANGED providerVars

(* Looking a key up in a store that is still no object raises.             *)
CheckApiKey(r) ==
  /\ Arrives(r, "apikey") /\ AtOnce
  /\ envelope[r].credential.key \notin ShortKeys \cup {None}
  /\ store' = Consulted
  /\ UNCHANGED cache
  /\ LET label == LabelOf(envelope[r].credential.key, Consulted.keys)
     IN  CASE Consulted.state # "object" -> End(r, "raised")
           [] Consulted.state = "object" /\ label = None -> End(r, "refused")
           [] OTHER -> Accept(r, label)
-----------------------------------------------------------------------------
(* OAuthJWTProvider.                                                       *)

(* A seeded fault: signing keys are taken from the cache.                  *)
SigningKeysCached == IF cache' = None THEN {} ELSE cache'.keys

(* PyJWKClient is made for each request and fetches the keys itself.       *)
SigningKeys == served

(* pyjwt.decode; the second fetch can fail as the first can.               *)
Genuine(r) ==
  /\ envelope[r].credential.key \in SigningKeys
  /\ envelope[r].credential.until > now
Decode(r) ==
  \/ Genuine(r) /\ Accept(r, envelope[r].credential.subject)
  \/ End(r, "refused")

Fresh == cache # None /\ now - cache.at < TTL

RefuseWithoutJwt(r) ==
  /\ Arrives(r, "oauth") /\ AtOnce
  /\ envelope[r].credential.key = None
  /\ End(r, "refused")
  /\ UNCHANGED providerVars

CheckJwt(r) ==
  /\ Arrives(r, "oauth")
  /\ envelope[r].credential.key # None
  /\ Fresh
  /\ offered' = [offered EXCEPT ![r] = served]
  /\ UNCHANGED <<began, providerVars>>
  /\ Decode(r)

FetchJwks(r) ==
  /\ Arrives(r, "oauth")
  /\ envelope[r].credential.key # None
  /\ ~ Fresh
  /\ phase' = [phase EXCEPT ![r] = "fetching"]
  /\ began' = [began EXCEPT ![r] = now]
  /\ offered' = [offered EXCEPT ![r] = served]
  /\ UNCHANGED <<identity, verdict, providerVars>>

(* The key server answers with the keys of the moment.                     *)
Serve(r) ==
  /\ phase[r] = "fetching"
  /\ phase' = [phase EXCEPT ![r] = "replied"]
  /\ reply' = [reply EXCEPT ![r] = [keys |-> served, at |-> now]]
  /\ UNCHANGED <<mode, envelope, worldVars, providerVars, began, identity, verdict, listed, offered>>

(* The local variables of a call that ended.                               *)
Forget(r) ==
  /\ began' = [began EXCEPT ![r] = 0]
  /\ reply' = [reply EXCEPT ![r] = None]

(* The request fails, or one operation of it takes more than ten seconds.  *)
(* The limit is not one on the whole request: a key server that sends its  *)
(* answer byte by byte keeps it waiting.                                   *)
FetchFails(r) ==
  /\ phase[r] = "fetching"
  /\ End(r, "refused") /\ Forget(r)
  /\ UNCHANGED <<mode, envelope, worldVars, providerVars, listed, offered>>

(* A seeded fault: the key set is dated when it arrives.                   *)
StampLate(r) == now

(* The clock was read before the request for the keys was made.            *)
Stamp(r) == began[r]

(* The key set of whoever comes last is kept; it is only a condition.      *)
Resume(r) ==
  /\ phase[r] = "replied"
  /\ cache' = [keys |-> reply[r].keys, at |-> Stamp(r), made |-> reply[r].at]
  /\ Decode(r) /\ Forget(r)
  /\ UNCHANGED <<mode, envelope, worldVars, store, listed, offered>>

Check(r) ==
  \/ CheckNone(r) \/ CheckToken(r) \/ RefuseApiKey(r) \/ CheckApiKey(r)
  \/ RefuseWithoutJwt(r) \/ CheckJwt(r) \/ FetchJwks(r)
  \/ Resume(r)

Next ==
  \/ Tick \/ Restart
  \/ \E content \in Contents : EditKeys(content)
  \/ \E keys \in SUBSET Keys : Rotate(keys)
  \/ \E r \in Requests : Check(r) \/ Serve(r) \/ FetchFails(r)

Spec == Init /\ [][Next]_vars
-----------------------------------------------------------------------------
Accepts(r) == phase[r] # "accepted" /\ phase'[r] = "accepted"

(* An API key is accepted only under a label it had in the file since the  *)
(* process started: a key withdrawn before that is refused.                *)
KeysWereListed ==
  [][\A r \in Requests : Accepts(r) /\ mode = "apikey" =>
       <<envelope[r].credential.key, identity'[r]>> \in listed]_vars

(* A server that found no keys when it started lets the owner of a key in  *)
(* as soon as the file lists it, without a restart.                        *)
Waits(r) ==
  mode = "apikey" /\ phase[r] = "new" /\ NoStore(store) /\ envelope[r].fit = None
  /\ ~ envelope[r].enforce /\ envelope[r].credential.key \notin ShortKeys
  /\ file.state = "object" /\ envelope[r].credential.key \in DOMAIN file.keys
EmptyStoreHeals ==
  [][\A r \in Requests : Waits(r) /\ phase'[r] # "new" => phase'[r] = "accepted"]_vars

(* A JWT is accepted only if its key was handed out since the request came *)
(* in: the cache keeps no withdrawn key alive.                             *)
WithdrawnKeysRefused ==
  \A r \in Requests : phase[r] = "accepted" /\ mode = "oauth" =>
    envelope[r].credential.key \in offered[r]

(* The key set in the cache is dated no later than the moment it was       *)
(* handed out, however late it came and whoever overwrote it: a set that   *)
(* saves a request its fetch was handed out less than TTL ago.             *)
CacheHonest == cache # None => cache.at <= cache.made

(* A FIT issued to an analyst is of use to nobody else who has an identity *)
(* of his own.  "local" is none: under it, and under an empty one, the FIT *)
(* of any analyst is accepted.                                             *)
FitIsTheAnalysts ==
  \A r \in Requests :
    phase[r] = "accepted" /\ envelope[r].fit # None =>
      envelope[r].fit.analyst \in {None, identity[r]} \/ identity[r] \in Anonymous

(* Where FITs are enforced, a call in an investigation is accepted only    *)
(* with one that is not for another investigation, tool or server.         *)
FitCoversCall ==
  \A r \in Requests :
    phase[r] = "accepted" /\ envelope[r].enforce /\ envelope[r].investigation # None =>
      /\ envelope[r].fit # None
      /\ envelope[r].fit.investigation \in {None, envelope[r].investigation}
      /\ envelope[r].fit.aud = envelope[r].server
      /\ envelope[r].fit.tools # << >> => AnyMatches(envelope[r].fit.tools, envelope[r].tool)

(* "Raises FITVerificationError on any step failure" (verify_fit).         *)
EveryFailureIsAStep == \A r \in Requests : verdict[r] # "raised"
=============================================================================
