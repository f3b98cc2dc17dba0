# A verification of fss-chassis

fss-chassis is a server for the Model Context Protocol (MCP). Extensions register tools,
resources and prompts; the chassis puts a chain of checks in front of them (replay, size,
identity, investigation token, rate limit, sanitisation, validation) and attaches to every
tool answer a provenance record that says who asked what, and what came out of it.

This directory holds TLA+ models of the parts whose correctness depends on order,
interleaving, time or crashes, the TLC runs that check them on small instances, and proofs,
checked by TLAPS, for every value of the constants. Every definition is translated from the
Python source; `PROJECT.json` names the lines each one stands for.

## The system

Two packages, `fss-core` (identities, tokens, digests, signatures, provenance, context
variables) and `fss-mcp` (server, middleware, transports). One process, one asyncio event
loop; a few threads that only do blocking input and output.

| Component | State | Operations | Hard because of |
|---|---|---|---|
| Dispatch (`server.py`, `middleware/pipeline.py`, `fss_context.py`) | context variables of each task; the registries of tools, resources, prompts | tool call, resource read, prompt request | requests interleave at awaits; cancellation; a dozen ways out |
| Rate limiter (`security/rate_limiter.py`) | a global bucket, a bucket per (session, tool) | check, evict, reset | time, lazy refill, eviction |
| Replay prevention (`pipeline.py`, module level) | cache of timestamps and the time each was accepted | check, evict | time on both sides of a window, retries, restarts |
| Signing key (`fss_core/integrity.py`) | two files | load or generate | crashes between two writes, an operator's hand |
| stdio transport (`transport/stdio.py`) | line buffer, skipping flag | read, yield, shut down | chunks cut lines anywhere |
| HTTP transport (`transport/http.py`) | SDK sessions, uvicorn server | endpoint, JWKS, deployment record | headers to context variables |
| Process life (`__main__.py`) | shutdown flag, timer | signals, start, stop | signals at any moment |
| Auth providers (`fss_core/auth.py`) | JWKS cache, API key store | authenticate, authorise | the await and the failures of a fetch, what is cached for how long |
| FIT verification (`fss_core/fit.py`) | none | eleven steps | order of the steps |
| Validation, sanitisation, size limits (`security/`) | none | pure functions | recursion, limits |
| Configuration (`config.py`, `security/profiles.py`) | none after start | profile, file, environment | precedence |
| Extensions (`extensions/`) | the registries, before the first request | discover, register | failure half way |
| Observer (`utils/observer.py`) | queue of 2000, worker thread | emit, post | a full queue, a failing post |
| Metrics, telemetry, logging, health | counters | record | |

How they interact. A transport reads a message and puts what it found beside it (session,
bearer token, timestamp) into context variables. The SDK starts a task for each message with
a copy of that context. Dispatch writes the rest of the context variables, the middleware
reads and writes some of them (identity, claims of the token), `provenance.py` assembles a
record from them, `integrity.py` signs it, the observer is told. The rate limiter and the
timestamp cache are the two pieces of state all requests share. Nothing is locked: the code
relies on a task giving way at an await and nowhere else.

What makes each component correct, in short: a record speaks of its own request only; a tool call
the server answers is reported once and in the same words; quota is charged to those who are
admitted; a timestamp works once; the limiter's laziness and eviction cannot be observed; a key that
has signed is not lost to a new one; the line reader neither loses nor splits a line that fits; a
signal ends the process at whatever moment it comes, and success is reported for a cause only; audit
records arrive in order; a key that was withdrawn is refused, and a FIT serves only its analyst and
its call; a setting has the value of the first source that states it; an extension that fails costs
the others nothing; cleaning loses no argument, and a handler gets what its schema allows. The
hazards list of `PROJECT.json` has each danger at its line, also those no property covers.

## The modules

| Module | Stands for | Kind |
|---|---|---|
| `BucketParameters` | configuration and arithmetic of buckets | constants |
| `TokenBuckets` | what a rate limiter promises | abstract specification |
| `RateLimiter` | `security/rate_limiter.py` | implements `TokenBuckets` |
| `ReplayWindow` | timestamps and their window | constants |
| `NonceRegistry` | what replay prevention promises | abstract specification |
| `ReplayGuard` | `_check_replay` and its cache | implements `NonceRegistry` |
| `Dispatch` | `server.py` with `pipeline.py` | composes `NonceRegistry` and `TokenBuckets` |
| `Identity` | `fss_core/auth.py`, `_run_auth`, `_run_fit` | uses `Fit` |
| `Fit` | `fss_core/fit.py` | pure functions |
| `Arguments` | steps 4 and 5 of `pipeline.py` | uses `Sanitization` and `Validation` |
| `Sanitization` | `security/sanitization.py`, a text and a node | pure functions |
| `Validation` | `security/validation.py`, a node | pure functions |
| `JsonTree` | JSON values, and the order of a recursion | constants |
| `SigningKey` | `ensure_signing_key_pair` | on its own |
| `LineParameters` | bytes, lines, limits | constants |
| `LineReader` | a reader of whole lines | abstract specification |
| `StdioReader` | `_read_lines_bounded` | implements `LineReader` |
| `ServerLife` | `__main__.py`, start and shutdown of server and transports | contains `Observer` |
| `Observer` | `utils/observer.py` | queue and worker |
| `Startup` | constructor of `ChassisServer`, `extensions/` | uses `Configuration` |
| `Configuration` | `config.py`, `security/profiles.py` | pure functions |
| `MCRateLimiter`, `MCReplayGuard`, `MCDispatch`, `MCIdentity`, `MCServerLife` | a small instance of the module of that name | for TLC |
| `MCInput` | small instances of `StdioReader` and `Arguments` | for TLC |
| `MCStartup` | small instances of `Startup` and `SigningKey` | for TLC |
| `...Proofs` | theorems | for TLAPS |

Definitions introduced by the words "A seeded fault" are not part of a specification. Each is
a plausible mistake in the definition that follows it; put in that definition's place it makes
a property of the run fail, which shows that the property can tell the difference.

### Rate limiter

One action per outcome of `check` (`DenyGlobal`, `DenyTool`, `Allow`), the clock and `Reset`.
`check` does not await, so it is one step. A bucket is stored as the code stores it, its level
at the last refill and the time of that; `Level` is what a refill would make of it now. Levels
are integers: a token is `Unit` units, rates are units per tick, and with a tick of a second
and `Unit` 60 the rates are requests per minute. The code's floats are not modelled, nor is a
disabled limiter, which has no state. `WithBucket` is the creation of a missing bucket and the
eviction that comes with it. The abstract `TokenBuckets` keeps a bucket for every pair for
ever and refills it at every tick; the refinement mapping computes the levels it would have,
a full one for a pair that has no bucket. `grantsSince` and `keyGrants` are histories, written
and never read by the actions: for every time, how many requests were allowed since.

### Replay prevention

`ReplayGuard` has the outcomes of `_check_replay` as actions, the cache with its eviction, and
`Restart`, which empties the cache and, with it, what is promised. A timestamp is an instant
and a spelling, because the cache compares strings. `NonceRegistry` remembers everything. That
two windows of memory are enough is `ForgottenIsExpired`. The clock is assumed not to step
back while the process lives.

### Dispatch

A request goes through `new`, `authenticating`, `handling` and ends `answered`; `cancelled` or
`aborted` when it was withdrawn; `raised` or `broken` when an exception nobody expects left the
dispatch, before or after the quota was charged. An action is the code between two awaits: `Arrive`
covers the opening of the transaction, the replay and the size check; `Resume` identity, FIT, quota,
sanitisation and validation; `HandlerEnds` what comes after the handler. Each way out is an action
of its own. Only an `AuthError`, a `FITVerificationError` and the errors of cleaning, validation and
results are caught: the lookup of a key in a file that is no object (`AuthRaises`), a claim of an
unexpected type (`FitRaises`), a malformed schema (`SchemaRaises`) and a result nested too deep for
the JSON codec (`ResultRaises`) go through all of it to the SDK, which makes an answer of the
exception's text (`Escape`). The context stays as it is at that point, but for a result's, which a
`finally` clause clears, and nothing is emitted. A provider without anything to fetch does not give
way between the first two; there the model has more interleavings than the server, which can only
make a safety property harder to keep.

Context variables are a record per task. An identity, a digest or a transaction id is named after
the request it belongs to, so a record of one request that holds something of another can be seen.
What the checks look at is abstracted to which of them fails (`fault`, `credential`, `fit`) and to
whether the arguments have a digest at all, as those with a NaN have none (`digest`; the failure is
swallowed). The credential `local` is a good one of a client called so, whose identity `_run_auth`
does not record (`Named`). `recording` is `FSS_PROVENANCE`: without it no answer carries a record,
and the event of a success, which is made from the record, no digest of the arguments, while that of
an error is made from the context and does. That the transport brings the session and the token of
the same message is assumed, as in the stateless mode that is its default. The limiter and the cache
are taken at their promise, `TokenBuckets` and `NonceRegistry`: `RateLimiter` and `ReplayGuard` are
shown to keep it. What identity and FIT checks answer, and why, is `Identity`'s matter; what
sanitisation and validation answer, `Arguments`'. Listing, the descriptive metadata of a record and
the metrics are left out. Registration is in `Startup`.

`Cancel` is the SDK's: it withdraws a task that waits, and nothing of what the task did is
undone.

### Identity and FIT

`Identity` is `Dispatch`'s third step seen from the inside: the four providers of `auth.py`, then
`_run_fit`. Only the fetch in `_get_jwks` is awaited, so only a JWT has phases, `fetching` (until
the key server answers, or the request to it fails: the ten seconds of the HTTP client are a limit
on each of its operations, not on the whole, so nothing says that this ends) and `replied` (until
the event loop gives the request its turn); every other check is one step from `new` to `accepted`,
`refused` or `raised`. `began` is the local `now` of `_get_jwks`: the clock is read before the await
and the reply is cached under that time, by whoever comes last. `cache.made` and `offered` are
histories: when the cached set was handed out, and what the key server handed out while a request
was under way. The decision itself uses `served`, because the code makes a `PyJWKClient` for each
request, which fetches the keys again; the cached set is only a condition. The API key store is the
file as it was when last read: at the start, and again as long as the store is empty. `Contents` has
the four things a file can be: JSON that is an object, JSON that is false in Python's eyes (`[]`,
`null`), other JSON, or nothing readable. A store that is empty or false is read again at the next
key (`NoStore`); one that is something else is kept, and every lookup raises.

An identity is recorded unless it is `local`, which is what `NoAuthProvider` calls everybody. But a
key's label or a JWT's subject may be `local` too, or empty, and then `verify_fit` compares no
analyst: `Client` is the identity it reads, `Anonymous` are the two that read as none.
`FitIsTheAnalysts` exempts them, and the run has a client called `local`.

The world acts too: the operator edits the file, the key server rotates its keys, the process
restarts and takes waiting requests with it.

`Fit` lists the steps of `verify_fit` in order; the verdict is the name of the first that fails.
A pattern is a tool's name, the one that matches all, or no regular expression at all; `any()`
stops at the first match, so such a pattern can stand behind a good one unnoticed (`Raises`). A
claim in `malformed` has a value of a type or size the code does not expect: an issuer that is no
string, where the address of its keys is made of it (`FSS_FIT_ISSUER_JWKS_URL` replaces that address
and is taken as not set), tools or kinds that are no list, an expiry too large for a date. The steps
called `raised` are those where another exception than a `FITVerificationError` leaves the function.
Signatures and the arithmetic of JWTs are PyJWT's: genuine or not.

### Arguments

`Arguments` is what happens to one call between the quota and the handler. `sanitize_input` and
`_validate_value` call themselves for each value in a value; here each such call is a step
(`SanitizeValue`, `ValidateValue`), and `todo` holds the paths of the values that the callers under
way have yet to come to. A step takes the first of them (`First`), which is the order of the
recursion, and puts the values directly below in its place. That order decides which exception ends
the cleaning: `KeyTaken` is what the caller looks at before it goes into a value, the depth what the
callee looks at. For validation the order does not matter, the errors being a set with their paths.

A value is a function from paths to nodes (`JsonTree`), and so is a schema, from the steps that lead
to a part of it (`SchemaAt`). `Sanitization` and `Validation` hold what is done to one text and one
node, as functions. The characters are a constant, `Character`; those the code puts into a text have
to be among them, and each class the regular expressions tell apart has a representative, named by a
string. Composition to NFC is one pair of letter and mark. `Substituted` is `re.sub`: from left to
right, without overlaps. `IsTree` is what `json.loads` makes of a message, in particular that the
keys of an object differ.

The properties do not walk: they speak of all paths of a tree at once. `NothingIsLost` says that a
call is refused exactly when keys would collide or it nests too deep, and otherwise keeps every
value at its place. `CleanedTextStaysClean` says, of each text and key, that the characters a level
removes do not come back: percent-decoding happens before shell characters are stripped. Of
traversal sequences it says so on moderate only, where the passes over `../` come last, and of a
text no longer than the passes can shorten (`3 * MaxTraversalPasses + 2`, with the code's ten 32).
On strict shell characters are removed after the passes, and it is not so:
`StrictTextHasNoTraversal` is what the code's comments say, and its run finds `.;.` become `..`.
`EveryFaultIsReported` compares the errors with the places at which the arguments do not conform.
Limits and types are looked at only where the schema speaks: an additional property is not descended
into, in the code as in the model. An `enum` lists scalars: equality of whole values is Python's,
and is spelled out for those only.

### Signing key

`ensure_signing_key_pair` step by step, each file being truncated when opened and filled
afterwards. `Interrupt` can come between any two steps: a failing write and the death of the
process leave the same files behind. The operator can lose the public file or remove both, as
the log tells him to; removing both gives up what was signed. A new key never equals an old
one. One server process per key directory is assumed. Its definitions are called `KeyInit`,
`KeyNext` and so on, so that a module can speak of it and of another component.

### stdio reader

An action is one read or one turn of the loop over a chunk; a turn can yield a line, and the
generator waits there. `line` is a history of the current line in full. The abstract
`LineReader` takes a segment or a newline at a time and decides at the end of a line whether
to deliver it. Reading is chunked in every possible way. The limit of one chunk, 8192 bytes in
the code, is the constant `ChunkSize`.

### Server life and observer

`ServerLife` runs from `main` to the exit code. The main coroutine goes through stages without
giving way until the transport waits (`Serve`), so a signal handled by the loop finds a transport
that can be told, and `LoopIsFree` guards every callback. Before the handlers are installed a
signal kills the process. The first one closes stdin, schedules `server.shutdown()` and the timer
of five seconds; a second one ends the process at once. Telling the transport is `told`: the
cancel scope on stdio, `should_exit` on HTTP. On stdio the worker thread that reads is outside of
the loop: it can hang in a read that nothing interrupts (`ReadInterrupted` is possible, never
promised), and the transport does not return before it is back. The calls under way are cancelled
with the task group of stdio, or with the session manager's when the lifespan of the HTTP application
ends: uvicorn waits for connections, and a client may have left its call (`CutShort`). At the end of
stdin some versions of the SDK let them end and some cancel them; both are possible. So a graceful end
says nothing of calls: `Return` is the end of the last task, however it came about.

`TransportFails` is the exception nobody catches: of a write, for `stdout_writer` expects a closed
stream and nothing else, or of uvicorn, when its port is taken. It cancels what runs, and the process
fails after the same join.

`Observer` is `emit` and the daemon thread. `emit` numbers records; a full queue drops the new one,
a failed post loses one, the end of the process loses the rest, graceful or not.

uvicorn's own handling of signals is not modelled, and a handler is assumed to give way to the
loop at its awaits; one that blocks the loop blocks the timer as well.

### Startup and configuration

A `world` is what the server finds: environment, `.env` file, the configuration file at each of
four places, the init hook, the directories and packages with their extension files
(`WorldsAssumption` says what any world looks like, and nothing of how many there are). Fields that
the code treats alike stand for each other (`rate` for the three rates, `size` for the limits on
sizes). `Configuration` has the functions in the order of the code, with their quirks: an empty
variable overrides nothing but keeps the `.env` file out, a flag that is neither true nor false is
off, and the profile is chosen before its defaults are filled in. `Over` is the merging of two
dictionaries, `@@` in TLC's own words, which the prover has no definition of.

`Startup` walks through the lists the code walks through, one element a step, where another
model might have folded over them: a line of the `.env` file (`ReadLine`), a registration of an
extension (`Register`, `RegisterFails`), a file of a directory (`ScanFile`), a directory
(`EnterDirectory`). That is how the code goes, and a step for each element is also what makes the
properties provable: an invariant says how far the walk has come. The exception of a
refused registration leaves `register()` half way; what was registered stays. `tried` keeps the
places, directory and file, that discovery reached, and is a history. The registries of tools,
resources and prompts are treated alike, so one stands for all. The health check is put over
whatever the init hook registered under its name.

## The runs

| Run | Shows | Bounds |
|---|---|---|
| `rate_limiter` | `Inv`, `WindowBound`, `RetryAfterExact`, `ImplementsTokenBuckets`, `DenialIsFree`, `QuotaIsolation` | two sessions, a tool, 3 units to a token, burst 2, rates 4 and 2, five ticks |
| `replay_guard` | `Inv`, `ImplementsNonceRegistry`, `CacheBounded` | window 1, seven instants, a spelling |
| `dispatch` | `TypeOK`, `TimestampUsedOnce`, `ProvenanceIsOwn`, `QuotaSpentOnAdmission`, `AuditMatchesAnswer` | three requests, eight messages, no authentication, API keys and OAuth, records on and off |
| `identity` | `WithdrawnKeysRefused`, `CacheHonest`, `KeysWereListed`, `EmptyStoreHeals`, `FitIsTheAnalysts`, `FitCoversCall` | two requests, two keys, two labels of which one is `local`, four instants, TTL 2, leeway 1 |
| `input` | `Inv` and `ImplementsLineReader` of the reader; `NothingIsLost`, `CleanedTextStaysClean`, `EveryFaultIsReported` | two bytes and a newline, limit 2, chunks up to 3, input up to 7; depth limits 3 and 2, lengths 2, two passes |
| `server_life` | `ObserverInv`, `ShutdownReachesTransport`, `EndsForACause`, `SignalEndsProcess`, `EventsAreTaken` | three calls, two signals, a queue of two |
| `startup` | `Inv` and `FilesUntouched` of the signing key; `SourcesInOrder`, `LimiterCanRefill`, `RegistrationsKept`, `HealthOutlastsHook`, `EveryExtensionIsTried` | four keys: a provisioned one and three generations; two variables and a field set at a time; two extensions, up to two packages |
| `dispatch_credentials` | `CredentialsReachAuth` is violated | as `dispatch`, token authentication |
| `dispatch_records` | `EveryResponseHasRecord` is violated | as `dispatch`, API keys |
| `identity_fit` | `EveryFailureIsAStep` is violated | as `identity` |
| `startup_packages` | `MissingPackageSkipsOnlyItself` is violated | as `startup` |
| `input_traversal` | `StrictTextHasNoTraversal` is violated | as `input` |

`input` and `startup` each look at two components that share no variable, one beside a single state
of the other: their `MCSpec` says which moves.

Why the bounds are enough to make the interesting cases happen.

- *rate_limiter.* The rates do not divide a token, so levels fall between tokens and
  `retry_after` rounds; a tool's bucket is stale after four ticks, so it is evicted and created
  again within the five; the global rate is above and the pair's below one token a tick, so
  either bucket can be the one that denies.
- *replay_guard.* Six seconds are six windows, three times what eviction takes, and a timestamp
  accepted ahead of the clock comes back when its entry may be gone.
- *dispatch.* One message is always the stamped call and another may be its retry, or a retry that
  is too large; the third interleaves with both. The quota is a burst of one, so the second
  admitted request of a session finds it spent. Requests are interchangeable, so one assignment for
  every pair of messages is checked.
- *identity.* Two fetches overlap and overwrite each other's key set; within four instants a
  cached set of TTL 2 expires and is fetched again, and the JWT's own expiry falls between two
  instants of its fetch. The FITs are a good one and every one that differs from it in one claim,
  under each setting of server identity, trusted issuers and enforcement.
- *input*, of arguments. Texts are all sequences of three of 13 fragments, so that every two rules
  meet (an encoded separator between dots, a mark after a letter, a control inside), and all of up
  to six dots and separators, which two passes need. Trees go one below the depth limits; one name
  is cleaned to another. All meet 36 schemas, with sanitisation on and off.
- *input*, of bytes. The limit is below the chunk size, so a chunk can hold an oversized line, its end
  and the next line; seven bytes hold an oversized line spread over three chunks.
- *server_life.* Three calls fill the queue of two with the worker idle; two signals are the
  request and its repetition.
- *startup.* Two variables and a field of the file show precedence between any two settings, and a
  profile with a setting of its own; directories have every ordered pair of six kinds of
  extension, before none or two packages that are there, missing or raise. Of the key, every initial
  content of the directory is considered.

Deadlock is checked in `rate_limiter` and `replay_guard`. The others may stop: `dispatch` and
`identity` when every request has ended and the clock is at its bound, `server_life` when the
process has ended, `startup` when the server is ready or has failed, `input` at the end of the input
or when a call is decided.

The bounds are `MaxTime` (the clock stops; no timestamp is later), `MaxBytes` (the input is no
longer), `MaxSignals` (no more are sent), `QueueLimit` (2000 in the code), `MaxSanitizeDepth`,
`MaxTraversalPasses` and the three limits of validation (constants of the code or its
configuration), and the finite sets of requests, keys and bytes. No property depends on
reaching them, except that `CleanedTextStaysClean` relates a text's length to the passes.

### Fairness

`server_life` is the only specification with fairness: weak fairness of the steps of the main
coroutine, of callbacks that are ready (the signals, the scheduled shutdown, the timer), of the
transport's return when it is drained and no task is left, and of the observer's worker, whose post
has a timeout of two seconds. Nothing says that input arrives, that a call's handler ends or that a
read of stdin returns: `SignalEndsProcess` rests on the timer alone. The timer rests on a loop that
is free: a handler that blocks it, or a synchronous fetch of keys, is not in the model.

`dispatch` and `identity` claim no progress. That every request is answered would rest on the
assumptions that a handler returns, around which there is no timeout, and that a fetch ends, whose
timeout starts anew with every byte. The code has neither, so nothing is claimed.

### What the violated runs show

- `dispatch_credentials`: resources and prompts are authenticated with an empty request context,
  although a comment says the transport populates it: with a token provider they are never served.
- `identity_fit`: a FIT whose list of tools holds something that is no regular expression, as a bare
  `*`, raises `re.error` (`fit.py:158`), which is no `FITVerificationError` and passes the handler
  in `_run_fit`: the call ends without code, record or audit event. The text of `verify_fit` says
  that any failing step raises `FITVerificationError`.
- `dispatch_records`: an exception that is no `AuthError`, here of a lookup in an API key file that
  is no object, leaves `_run_auth` and everything above it. The client gets an answer of the SDK's
  making, without a code, a record or an audit event; the README says that every tool response
  includes a record. `ProvenanceIsOwn` and `AuditMatchesAnswer` speak of the answers the server
  makes itself.
- `input_traversal`: on strict, shell characters are removed after traversal sequences, so `.;./x`
  becomes `../x`. The text of `_strip_path_traversal` promises a string without any.
- `startup_packages`: `find_spec` raises for a dotted package whose parent is not there
  (`extensions/__init__.py:99`); the server takes that for the absence of extensions and scans no
  further package. The message and its test promise that the entry is skipped.

### Other differences between words and code

Noted in passing and not run, since no state machine is needed to see them:

- a request over the size limit is counted under `validation`: the branch for `io_limit` looks
  for words its error code does not have (`server.py:765`);
- a tool call that ends in an early error leaves its context variables set, though a comment
  relies on a `finally` clause (`server.py:553`, `614`); the SDK's task per message keeps them from
  any other request, which is `ProvenanceIsOwn`;
- a key pair is loaded when its public file exists, valid or not (`integrity.py:187`);
- automatic generation of a key in evidentiary mode is documented as refused and only warned
  about (`integrity.py:199`, `240`);
- the record of a success is built without the `fss_binding_version` that the record of an error
  has (`server.py:824`);
- the maximum age of an API key is stored and not looked at (`auth.py:208`), and a file of keys that
  is JSON, neither an object nor false, makes every lookup raise until the process restarts, also
  when the file has been repaired;
- a client whose key's label or JWT's subject is `local` or empty has no identity for the record
  (`local`) and none for the FIT (`fit.py:169`): the FIT of any analyst serves it;
- with `FSS_PROVENANCE=false` the audit event of a success names no arguments, and that of an error
  does;
- the JWKS cache never saves the second, synchronous fetch (`auth.py:317`); `_fetch_jwks` of
  `fit.py` is called by nothing, and nothing is ever added to `_REVOKED_JTIS`;
- a FIT with an `aud` is refused where `FSS_SERVER_IDENTITY` is not set;
- closing stdin does not interrupt a read that is under way on Linux, so an idle stdio server ends
  by the timer, whatever `__main__.py:161` says of it; and a graceful end abandons queued audit
  records.

## The proofs

For every value of the constants that satisfies the assumptions named in the modules
(`BucketConstants`, `ReplayConstants`, `DispatchConstants`, `IdentityAssumption`,
`LeewayAssumption`, `FileStates`, `WorldsAssumption`, `LineConstants`, `QueueLimitAssumption`,
`MaxSignalsAssumption`, `CallsAssumption`, `CharacterAssumption`, `SanitizeAssumption`,
`LimitsAssumption`):

- `RateLimiterProofs`: `LimiterTyped` (`Inv`), `LimiterImplements`, `DenialsAreFree`,
  `QuotasIsolated`, `WindowsBounded`, `RetryAfterIsExact`. The refinement needs that no bucket is
  dated in the future (`RefillsPast`): only then is a refill in two parts the same as one, and the
  level of a stale bucket the capacity, which is what makes its eviction invisible. For
  `retry_after`, `RetryInv` keeps what the denied bucket lacked; by the lemma `RoundedUp` the
  missing part has flowed back from the announced tick on and not before.
- `TokenBucketsProofs`: `WindowsBounded` from a ledger. For every time s, what was granted
  since s plus what the bucket holds is at most the capacity plus the refill since s; the ledger
  is inductive, the bound is what remains when the bucket is not negative. The bound is
  carried over to the limiter by the refinement.
- `ReplayGuardProofs`: `GuardInvariant`, `GuardImplements`, `CacheStaysSmall`. The invariant
  says of every entry that it was acceptable when made, hence that its instant is at most a
  window after its acceptance, and of every forgotten timestamp that it is past.
- `DispatchProofs`: `TimestampsUsedOnce`, `ProvenanceIsTheRequests`, `AuditsMatchAnswers`,
  `QuotasAreSpentOnAdmission`, `DispatchTyped`, for any number of requests. The invariant has a
  part per request, which says exactly what the context of a task holds in each phase
  (`CheckedContext`, `TrustedContext`). `Locality` shows that a step of a request leaves the others
  alone, so only its own part has to be proved again. Timestamps do relate requests; there the
  invariant says that what was used is registered. The quota relates them too: the number of
  admitted requests of a session and tool is the number of grants since the start (`QuotaInv`): a
  step adds one request to the set and one to the count, or nothing to either.
  Dispatch stands on the promises of its two parts, and keeps to them: `RegistryIsUsedAsPromised`
  and `LimiterIsUsedAsPromised` show that every behaviour of the whole, seen through the registry's
  or the limiter's variables, is one of theirs. So what is proved of the parts holds in the whole
  (`AdmissionWindowsBounded`, from `TokenBucketsProofs`), and a bound on the quota turns into one on
  requests: `AdmissionsBounded`, the number of admitted requests of a session and tool is at most the
  burst and what the rate gave since the start, whatever the clients do.
- `IdentityProofs`: `WithdrawnKeysAreRefused`, `CacheStaysHonest`, `FitsBindAnalysts`,
  `FitsCoverCalls`, `AcceptedKeysWereListed`, `EmptyStoresHeal`. The invariant says what is under
  way: a waiting request began before now, the reply to it was made after it began, and what the
  store holds was listed since the process started. An accepted request keeps what it proved
  (`Proved`). The FIT's part rests on a lemma about the list of steps: a verdict of `verified` means
  that every step holds.
- `ServerLifeProofs`: `ObserverInOrder`, for any size of the queue; `ShutdownsReachTransport`,
  `ServerEndsForACause` from `LifeInv`, whose parts say that a callback runs only when there is a
  transport to tell (`Reachable`), and that a transport is told, and the reader gone, for a cause
  (`StopsHaveCauses`).
- `StartupProofs`, for any number of worlds, directories, files and registrations of an extension:
  `LimitersRefill`, `SourcesAreInOrder`, `HookNeverAnswersForHealth`, `ExtensionsAreTried`,
  `RegistrationsStay`. The invariant follows the start: while lines are read, the environment holds
  the first line of each variable already passed and of no other (`EnvironInv`); from `Load` on the
  configuration is what the sources say (`ConfigInv`); what was entered and scanned is exactly what
  lies before the place discovery has reached, and what has been tried is what lies before it and
  could be imported (`ScanInv`). None of the properties is inductive without them: that a file was
  tried when the server is ready follows only from where discovery stood on the way.
- `StartupProofs` also has the signing key's, `KeyInvariant` and `KeysUntouched`, the other thing a
  server does before it serves. `Progress` ties the contents of both files to how far the
  generation has come; without it an interrupted generation could not be told from a pair of
  somebody else's.
- `InputProofs` has two parts that share no variable. Of the line reader: `ReaderBounded`,
  `ReaderImplements`. `BufferBounded` relates the buffer and the flag to the line in full; with it the
  decision at the newline is the reference's.
- `InputProofs`, of the arguments of calls: `WalksKeepTheirPlace`, `NothingIsEverLost`,
  `CleanedTextIsClean`, `FaultsAreReported`, for any calls, trees, schemas, characters and limits.
  None of the three properties is inductive: they speak of the end of a walk. The invariant says
  where the walk stands (`CallInv`). For the cleaning (`WalkInv`): what lies at or below a path of
  `todo` is as it came, and everything else is cleaned and was found acceptable, that is not too
  deep and with a key no earlier one is cleaned to; no path of `todo` lies below another, so nothing
  is cleaned twice. That the caller compares keys of an object that is cleaned, while its values are
  not, makes `KeyTaken` a condition on the original (`AtPath`). For the validation (`ValidInv`):
  `todo` holds places the schema speaks of, and a fault is reported, lies below a reported one or is
  still to come. `StepReaches` says what a step of either walk does to that frontier: the validator
  may leave values out, and then the schema does not speak of them or the value they are in is at
  fault itself (`DescendsMean`). `FaultsMean` says that the code finds an error in a node exactly
  when the node does not conform, `TypeMeans` that the two tests of a boolean come to the same as
  JSON's types.
- The texts need an argument of their own, over sequences of any length, because `re.sub` is a
  recursion. `SubstitutedTyped` says that the result of a substitution comes from a set of
  characters if what is put at each place does, also when that set is smaller than the text's own
  (`WithoutRemoves`); `StripShortens` that a pass which finds something to strip takes three
  characters at least or leaves one at most; and `PassesStrip` that a text shorter than all passes
  can take has nothing left to strip. These are inductions over data. The library's induction
  theorems cannot be used, but `Induction` and `Recursion` follow from the least element of a set of
  numbers (`Least`): they speak of sets and functions where the library speaks of any property and
  any definition, and that is enough here.

Only model-checked: the liveness properties `SignalEndsProcess` and `EventsAreTaken`, which are out
of the prover's reach. Every safety invariant and action property of the passing runs is stated by a
theorem.

## Not modelled, and why

- HTTP routing and sessions are Starlette's and the SDK's; of the HTTP transport the models have its
  start, its shutdown and what a message brings with it.
- Canonical JSON, digests and signatures are functions about which enumerating states says nothing.
- Metrics, telemetry, logs and health reports are written and not read.
- The size limits of `io_limits.py` compare one number with another; the verdict is an outcome of
  `Dispatch`.
- Two processes that share a key directory, and a wall clock that steps back, are excluded by
  assumption; the hazards list names both.
- A fetch that is synchronous blocks the event loop for as long as it lasts. The models take a step
  without an await for instantaneous and say nothing of it.
- Additional properties are not descended into by the validator, and arrays and objects in an `enum`
  are compared by Python's equality, which is spelled out for scalars only.

## Plan

Done: rate limiter, replay prevention, dispatch, signing key, stdio reader, server life with the
observer, startup with configuration, identity with FIT, arguments; and the proofs of every safety
invariant, action property and refinement the runs check.

Left to model, in order of what could go wrong: two processes and one key directory; keys given by
`FSS_SIGNING_KEY_PATH` and `FSS_SIGNING_KEY_B64`; what a listing shows against what can be called.
