# Verification of nats-iam-broker

nats-iam-broker answers the auth callouts of NATS servers: a client presents the
ID token of an OIDC provider, the broker verifies it, looks up which role binding
of its configuration the claims fit, and returns a NATS user JWT signed with the
key of the bound account. Its configuration is reloaded while it runs.

This directory holds TLA+ models of the broker, the TLC configurations that check
them, and theorems about them that TLAPS checks. Paths below are relative to the
root of the repository; `broker/` stands for `internal/broker/`.

1. [Inventory](#1-inventory)
2. [The modules](#2-the-modules)
3. [What is checked](#3-what-is-checked)
4. [What is proved](#4-what-is-proved)
5. [Where code and documentation disagree](#5-where-code-and-documentation-disagree)
6. [What is not modelled](#6-what-is-not-modelled)
7. [Plan](#7-plan)

To check: `tlc -workers 2 -config AuthCallout_answers.cfg MCAuthCallout.tla`, and
likewise for the other runs of section 3; `tlapm ConfigWatcherProofs.tla`.

## 1. Inventory

| Component | Source | State | Operations |
|---|---|---|---|
| Server lifecycle | `broker/server.go` | the NATS connection, the live state holder, health flags | `StartWithContext`: load, discover IdPs, connect, register the service, start the watcher, wait, drain |
| Auth callout service | `broker/auth_service.go`, `broker/auth_callback.go` | service key pairs, fixed at startup; a subscription; metrics | `Handle`, the callback of `newAuthCallbackWithWatcher`, `ValidateAndSign`, `Respond`, `publishAuditEvent` |
| Hot reload | `broker/config_watcher.go` | `atomic.Pointer` to the `LiveState` (manager, configuration, verifiers); fsnotify queue; debounce timer; `stopCh` | `Start`, `watchLoop`, `reload`, `Stop`, `GetState` |
| Token verification | `broker/idp_jwt_verifier.go`, `broker/idp_jwt_claim.go` | a verifier for each IdP, with the library's cached keys | `NewIdpVerifiers`, `runVerification`, `verifyJWT`, `validateAgainstSpec`, `Userinfo` |
| Lifetime of a JWT | `calculateExpiration` in `broker/server.go` | none | one pure function over six optional bounds |
| Role bindings | `broker/config_rbac.go` | `exprCache`, shared by all requests of a manager | `lookupUserAccount`, `evaluateMatchCriterion`, `collateRoles` |
| Claims mapping | `broker/idp_jwt_claim.go` | none | `fromMap`, `toMap`, custom mapping |
| Configuration loading | `broker/config.go` | merged YAML | `NewConfigManager`, `deepMerge`, `GetConfig` (renders templates), `validate` |
| Health | `internal/metrics/health.go` | flags, set by connection handlers and at startup | `SetNATSConn`, readiness, liveness |
| Metrics | `internal/metrics/metrics.go` | counters, one gauge, histograms | `Inc`, `Dec`, `Observe` |
| Options, version, tracing, logging, command line | `internal/…`, `cmd/…` | none of consequence | parsing and output |

**How they interact.** Three kinds of goroutine meet. The subscription of the
NATS micro service runs `Handle` for one request after the other. The watch loop
runs `reload` and stores a new `LiveState`. `StartWithContext` waits for its
context and then drains. The handler loads the `LiveState` once, at the start of
the callback, and keeps that pointer; the service keys it uses are those of the
start. Everything it publishes, audit events and answers, goes through the
buffer of a single NATS connection. The handler calls out to the IdPs twice (to
fetch keys, and for userinfo), each time with a deadline.

**What is hard.**

- A reload reads the files one by one while they are edited, debounces events
  with a timer that races the queue, and may fail half-way through discovery.
- The state is swapped between any two steps of a request.
- Four checks of time read the clock each for itself, with network calls between.
- The single pass over the bindings keeps a best match, a fallback and, for
  provisional winners, already collated roles; it shares compiled expressions
  across requests.
- An audit event and two counters are written before the step that may fail.
- A panic or a stop loses the queue, the request in hand, and what is buffered.
- The connection drops and returns at any step of the start, and tells the health
  flags later, on a goroutine of its own; the kubelet acts on those flags.
- Claims are kept twice, as fields and as a map, and are mapped two or three times.
- Files of different shapes are merged, and accounts may be declared many times.

**What makes each part correct.**

- *Hot reload:* only validated configurations with all required verifiers are
  published, they never go back in time, at rest the live one is the one on disk,
  and an edit goes live in the end.
- *Role bindings:* the binding granted is the one the strategy documents, the
  grant is the sum of its roles, and each refusal has its reason.
- *Lifetime:* a JWT lives no longer than the ID token, the IdP's and NATS's
  maximum allow, and the role binding is what counts within those.
- *Server lifecycle and health:* the broker serves sound configurations only, its
  flags say what the connection is, and the system heals.
- *Claims mapping:* bindings and templates see every claim under its documented
  name with the value received last, and the struct agrees with the map.
- *Configuration loading:* every setting has the value the documentation of the
  merge gives it, and a declared account wins over one from the key directory.
- *Auth callout:* a request is settled once, by one configuration that was in
  force while it was pending; a granted JWT has been audited; sealed requests get
  sealed answers; the metrics add up; and no request is left hanging.

Everything in this code that a test hardly reaches is listed under "hazards" in
`PROJECT.json`, at its line, with the properties that watch it.

## 2. The modules

| Module | Models | Proofs | Checked through |
|---|---|---|---|
| `LiveConfig` | what hot reload promises | | |
| `ConfigWatcher` | `broker/config_watcher.go` | `ConfigWatcherProofs` | `MCConfigWatcher` |
| `RoleBinding` | `broker/config_rbac.go` | `RoleBindingProofs` | `MCRoleBinding` |
| `TokenExpiry` | the time checks and `calculateExpiration` | `TokenExpiryProofs` | `MCTokenExpiry` |
| `CalloutPromise` | what the auth callout promises | | |
| `AuthCallout` | `broker/auth_service.go`, `broker/auth_callback.go` | `AuthCalloutProofs` | `MCAuthCallout` |
| `Configuration` | `broker/config.go`, `discoverAccounts` | `ConfigurationProofs` | `MCConfigWatcher` |
| `WatchedConfiguration` | `ConfigWatcher` reading what `Configuration` merges | `WatchedConfigurationProofs` | `MCConfigWatcher` |
| `DocumentTrees` | `deepMerge` again, as the recursion over maps of maps it is | | `MCConfigWatcher` |
| `ServerLifecycle` | `broker/server.go`, `metrics/health.go`, composed with `ConfigWatcher` | `ServerLifecycleProofs` | `MCServerLifecycle` |
| `ClaimsMapping` | `broker/idp_jwt_claim.go` and its callers | `ClaimsMappingProofs` | `MCClaimsMapping` |

`ConfigWatcher` implements `LiveConfig` and `AuthCallout` implements
`CalloutPromise`; in both modules the property is called `KeepsPromise`.
`ServerLifecycle` contains the watcher (`Watcher == INSTANCE ConfigWatcher`) and
inherits its promise across restarts. `WatchedConfiguration` gives the versions
that the watcher reads their contents. The other models are tied together by what
they hand each other: what validation insists on and what the bindings see is
`ClaimsMapping`. `AuthCallout!Reload` is
`ConfigWatcher!SwapState` as a handler sees it. The map `binding` of a
configuration in `AuthCallout` is the outcome of `RoleBinding`, and the actions of
`TokenExpiry` are the checks inside `RunVerification`, `BuildUserClaims` and
`ValidateAndSign`.

The definitions headed "Fault:" are plausible bugs, each standing before the
definition it is a variant of. They take no part in a specification. Putting one
in the place of its original makes TLC refute the property `PROJECT.json` names
with it, which shows that the property does say something of the code.

### ConfigWatcher

| TLA+ | Go |
|---|---|
| `disk`, `idpUp` | the files and IdPs outside |
| `queue`, `Emit` | `watcher.Events`, and its limit |
| `loop = "select"`, `TakeEvent`, `TimerFires`, `ExitLoop` | the cases of the `select` in `watchLoop` |
| `timer` | `debounceTimer` and `debounceCh` |
| `ReadFile`, `Validate`, `DiscoverIdp`, `SwapState` | the phases of `reload` |
| `live` | `cw.state` |
| `IsRelevantEvent` | `isRelevantEvent` |

A file's content is the number of times it was changed; which contents parse,
merge and validate is the constant `Valid`, and which single files cannot be
read is `Broken`. The history variable `unheard` records why the latest change
of a file did not reach the watcher (not yet watching, an event of another name
or kind, an overflow of the kernel's queue), until a reload reads the file
anyway. So `FreshWhenQuiet` excepts just the changes nobody told the watcher of,
each for a stated reason, and `RotationGoesLive` takes one exception away.

The events of a change are those of one `write` or `create`: an editor that
truncates first is two changes. Every IdP may come and go at any step.

### Configuration and WatchedConfiguration

`Configuration` has no state: it is the merge, the verdict of decoding and
validation, `discoverAccounts` and `lookupAccountInfo` as operators. A document is a
function from paths (sequences of keys) to nodes: scalars, lists and maps. The
loops over files and over key files are recursive functions. An account is its name and
the seed of its key until it is decoded (`UserAccountInfo`): `UnmarshalText` warns of a
seed that does not parse, and the account is there with a nil key pair (`NilKey`).
Only a key file that cannot be read (`Unreadable`) fails a configuration. Beside the merge
stands what the documentation says of it: `Documented` tells the value of a setting
from the files that count for it (`Counting`), without merging anything.

`DeepMerge` merges path by path: a path of the base is kept (`Kept`) unless the
overlay has something other than a map above it. The Go function goes down the
maps instead. `DocumentTrees` has that recursion, word for word, over documents
as `yaml.Unmarshal` makes them, and `TreesMergeAlike` says that the two agree. The
recursion stays in a module of its own because its `RECURSIVE` operators put a
module out of the prover's reach.

`WatchedConfiguration` extends `ConfigWatcher`: each version of a file is a
document, the last file is the key directory, which `GetConfig` reads last and
nobody watches. `ContentsAssumption` says that documents are well formed (a node
lies below maps only), that a directory has each name once, and that validation
accepts nothing that does not load (`Valid` is within `ValidContents`).

### ServerLifecycle

| TLA+ | Go and outside |
|---|---|
| `phase` | how far `StartWithContext` is; `down` when no process runs |
| `LoadConfig`, `Connect` | `NewConfigManager`/`GetConfig`, `nats.Connect` |
| `StoreConn`, `SampleConn`, `FlagConn` | the three steps of `SetNATSConn` |
| `SetUpIdp`, `BuildLiveState` | `NewIdpVerifiers`, `SetIDPVerifiersReady`, the first `LiveState` |
| `StartWatcher`, `Register`, `Announce` | `watcher.Start`, `micro.AddService`, `SetServiceRegistered` |
| `LeaveWait`, `StopWatcher`, `Drain`, `Return` | `<-ctx.Done()` and the deferred calls, last first |
| `Exit` | every early return, and the end of the process |
| `conn`, `callbacks`, `RunCallback` | the connection, and the handlers it runs on one goroutine, later |
| `natsUp`, `Disconnect`, `Reconnect`, `GiveUp` | the servers, and what the library makes of them |
| `health`, `IsAlive`, `IsReady` | `HealthChecker` |
| `Cancel`, `LivenessKill`, `ForceKill`, `Mishap` | a signal, the probes of the kubelet, a signal that is not caught or the end of the grace period, all else |

A step of the system is one of the server, the connection, the kubelet or the
watcher, whose goroutine goes on during the shutdown until `Stop` reaches it.
`Mishap` ends a process at any step. Only an interrupt cancels the context
(`internal/utils.go:12`); a SIGTERM ends the process where it stands, which is
`ForceKill` right after `Cancel`. Metrics are taken to be enabled. The start
reads the files in one step: the reads that interleave with edits are those of a
reload. `told` is history: a callback has run since `SetNATSConn`, so that the
flag no longer stems from a sample.

### ClaimsMapping

One request, from the ID token to the context of the bindings. `struct` and
`custom` are the two halves of `IdpJwtClaims`. `toMap` writes both into one map,
`fromMap` reads them back and applies the mapping to what is no standard claim;
`verifyJWT`, `verifyAndEnrich` and `handleAuthRequest` each do it. `CustomFrom` has
one member for each result that the random order of a Go map can have. A null for
a claim kept as `interface{}` makes `fromMap` panic (`SetPanics`). Of a value only
its presence, its being null or zero, and where it comes from are kept.

### RoleBinding

One step for each binding and each criterion of `lookupUserAccount`: `i`, `j`,
`matches`, `best` and `fallback` are its locals. The library for expressions is
external: `ExprCompiles` and `ExprHolds` say for which claims an expression
passes the type check and for which its program is true. What matters is that
`compiled` outlives the request. A call of `lookupUserAccount` begins with any
claims whenever the one before is over, so a behaviour is a series of requests.
(The callback is run by one goroutine, so lookups do not overlap.)

`IsChosen` says which binding ought to win, without a loop: by comparing it with
every other. `collateRoles` is the loop over the roles, as a recursive function;
`Promised` is their sum, without one.

### TokenExpiry

One ID token, from its presentation to a signed JWT. `Tick` may come between any
two of the checks, and each check reads `now` for itself. `boundedAt` and
`builtAt` record when the IdP's bounds were checked and when the expiry was
calculated; they correspond to no variable of the code. `ValidateAndSign` reads no
clock: to the JWT library an expiry that has passed is no blocking issue, so the
broker signs what has run out in the meantime, and `LivesLongEnough` says how much
life a JWT is built with. `calculateExpiration` is
composed of the steps its comments number. The defaults of the configuration
make the NATS bounds, the maximal lifetime and the clock skew positive; any
other duration may be missing, which is 0.

`Enrich` replaces the expiry by any member of `Rewrites` where userinfo or a
custom mapping is configured to write it, including 0, which is what `fromMap`
makes of a value that is no number. Most properties are about configurations
that do not (`Untouched`); that the documentation promises more is one of the
findings.

### AuthCallout

| TLA+ | Go |
|---|---|
| `queue` | the subscription's pending messages; its head is in `Handle` |
| `phase`, `snap`, `attempt`, `jwt`, `kind` | how far the handler is, and its locals |
| `keys` | the options the service was created with |
| `live` | `watcher.GetState()` |
| `outbox`, `Flush` | the write buffer of the connection |
| `stream`, `reply` | what arrives outside |
| `count` | the Prometheus counters and the in-flight gauge |
| `Handle` | decoding, up to the callback; a rejected request is answered at once |
| `EnterCallback` | `GetState`, `extractJWT`, the gauge |
| `RunVerification` | a round of the loop over verifiers; `VerifyRound` is also where keys cannot be fetched |
| `Enrich` | userinfo, client information |
| `BuildUserClaims` | `buildUserClaims` and its errors |
| `PublishAuditEvent`, `PublishAuditEventPanics` | `publishAuditEvent` |
| `RecordResult` | the counters at the end of the callback, the deferred `Dec` |
| `ValidateAndSign`, `Respond` | the functions of that name |
| `Stop`, `Start`, `Die` | the context cancelled, the platform's restart, the end of the process |

The handler's locals are reset when a request is done, since they do not outlive
the call. `seen`, `served`, `unaudited`, `restarts` and `exit` are history. A
configuration is what the handler reads of a `LiveState`. Requests and
configurations are names; `About` and `Content` say what is in them. A key pair has one of
four kinds because the code treats them differently at different places: an
account may be missing from the list, its seed may fail to parse (a warning, and
a nil key pair), parse as the seed of something else, or be good.

A crash or stop loses what was not flushed. A server does not repeat a request
(a client that tries again makes a new one), so a request that is lost stays
lost.

## 3. What is checked

| Run | Module, config | Properties |
|---|---|---|
| `watcher_safety` | `MCConfigWatcher`, `ConfigWatcher_safety.cfg` | `TypeOK`, `FreshWhenQuiet`, `LiveIsSound`, `MergesAsDocumented`, `TreesMergeAlike`, `DeclaredAccountsWin`, `KeepsPromise`, `EditsGoLive` |
| `watcher_rotation` | `MCConfigWatcher`, `ConfigWatcher_rotation.cfg` | `RotationGoesLive` is violated |
| `binding_lookup` | `MCRoleBinding`, `RoleBinding_lookup.cfg` | `TypeOK`, `ChosenIsBest`, `GrantIsCollated`, `DeniedWhenNoneFits`, `RoleErrorsExplained` |
| `binding_history` | `MCRoleBinding`, `RoleBinding_history.cfg` | `HistoryFree` is violated |
| `expiry_minting` | `MCTokenExpiry`, `TokenExpiry_minting.cfg` | `TypeOK`, `WithinGrant`, `IdpMaxHolds`, `BindingOverrides`, `LivesLongEnough` |
| `expiry_ceiling` | `MCTokenExpiry`, `TokenExpiry_ceiling.cfg` | `NeverOutlivesIdpToken` is violated |
| `callout_answers` | `MCAuthCallout`, `AuthCallout_answers.cfg` | `TypeOK`, `BooksBalance`, `AuditFirst`, `SealedStaysSealed`, `KeepsPromise`, `EverySettled` |
| `callout_panic` | `MCAuthCallout`, `AuthCallout_panic.cfg` | `NeverPanics` is violated |
| `lifecycle_heals` | `MCServerLifecycle`, `ServerLifecycle_heals.cfg` | `TypeOK`, `FlagSettles`, `ServesSound`, `KeepsPromise`, `Heals` |
| `lifecycle_ready` | `MCServerLifecycle`, `ServerLifecycle_ready.cfg` | `ReadyAsDocumented` is violated |
| `claims_context` | `MCClaimsMapping`, `ClaimsMapping_context.cfg` | `TypeOK`, `ContextAsDocumented`, `StructAgrees`, `StandardClaimsStand`, `RequiredClaimsLast` |
| `claims_userinfo` | `MCClaimsMapping`, `ClaimsMapping_userinfo.cfg` | `UserInfoIsMerged` is violated |

**What the passing runs show, and why the bounds are enough.**

- `watcher_safety`: a base file and an overlay that are watched and a key
  directory that is not, two versions beyond the first, a queue of two events, two
  IdPs of which one is required. Two edits of a file suffice for an edit during a
  reload that reads it, and one more while the next is due; two files for a reload
  that mixes old and new contents, a mix that may be invalid (the last base no
  longer has what the first overlay does not have yet); a queue of two fills up
  and overflows. Accounts are declared in both files and in the directory, where
  one key is missing, one cannot be read for a while, and one cannot be parsed, as
  can one declared account's; one overlay turns the directory off with an empty name. Every merge is tried over six
  further documents that put a scalar, a list or a map where the files have
  something else, by paths and by the recursion of the code. Every published configuration is sound and newer than the one
  before, at rest the live one is on disk, and what was heard of goes live.
- `binding_lookup`: every list of up to three bindings out of fifteen, under both
  strategies, every sequence of requests. Three bindings are a winner, one it
  displaces and one that ties with it. The pool mixes expressions, permissions
  and claims of each type, single and double criteria, catch-alls, role lists
  that overwrite each other's limits, and a role that is not declared.
- `expiry_minting`: every combination of set and unset durations, shorter and
  longer than the time that may pass between two steps, with ID tokens without
  times, issued in the future, too long-lived, and expiring at each step, before the
  signature among them.
- `callout_answers`: any two of four requests, of different kinds, three
  configurations that differ in everything a reload changes, any number of
  reloads at any step, one restart, and any number of panics. Two requests are
  enough for one to be handled while another waits, and for metrics, gauge and
  outbox to see a second request over the remains of the first.
- `lifecycle_heals`: one file with an unreadable second content, two IdPs of which
  one is required, two callbacks waiting (a drop and a return, both untold), one
  end from outside at any step besides any number of kills by the kubelet.
- `claims_context`: every subset of two standard claims and two others in the ID
  token and in userinfo, null or empty where that matters, under every mapping of
  the others: none, flat, onto standard claims, chained, circular, colliding. A
  third standard claim is the client's own, which may say something or nothing.
  Validation insists on nothing, a standard claim, the client's, or a mapped one.
  Two names are the least for a chain and for a collision.

`CHECK_DEADLOCK` is off in `TokenExpiry`, where the clock stops at `MaxTime`, and
in `ClaimsMapping`: one request ends. The other systems always have something to
do.

**Bounds.** `MaxVersion` ends the edits of a file, `MaxTime` the clock,
`MaxAsked` the requests, `MaxRestarts` the deliberate stops, and `MaxMishaps` the ends
of a process from outside. They are guards of the environment's actions only;
`MaxQueue` is the kernel's limit, small, and `MaxCallbacks` makes the connection
keep its state until a callback has run.

**Fairness.** In `ConfigWatcher` the watch loop is a goroutine, so it takes what
there is to take (weak fairness of `TakeEvent`, `TimerFires`, `ExitLoop` and of the
steps of a reload, whose network calls have a timeout of 30 s). A timer that is
armed cannot be starved by events: Go's `select` picks at random among ready
cases, and edits are finite here. In `AuthCallout` the handler goes on (every
call it waits in has a deadline), the connection flushes (it reconnects for ever)
and the platform restarts what has ended; a request lost with the process counts
as settled, so `EverySettled` says that none hangs in a broker that runs. In
`ServerLifecycle` the main goroutine goes on (`Startup`, `Shutdown`: its network calls
have deadlines), the library reconnects (`MaxReconnects(-1)`) and runs its
callbacks, the kubelet starts the container again, kills it when its liveness
probe fails, and does not wait beyond the grace period. `Heals` needs no fairness
of the drain or of the watch loop.

Fairness is required of no edit, reload, IdP, request, outage, mishap or stop.

## 4. What is proved

TLAPS proves the following for all values of the constants; the only assumptions
are the named `ASSUME`s of the modules, which state the types of the constants
and which every run evaluates.

| Module | Theorem | Property |
|---|---|---|
| `ConfigWatcherProofs` | `TypeCorrect`, `LiveAlwaysSound`, `FreshAtRest`, `Refinement` | `TypeOK`, `LiveIsSound`, `FreshWhenQuiet`, `KeepsPromise` |
| `RoleBindingProofs` | `TypeCorrect`, `BestIsChosen`, `GrantAlwaysCollated`, `DenialIsRight`, `RoleErrorIsExplained` | `TypeOK`, `ChosenIsBest`, `GrantIsCollated`, `DeniedWhenNoneFits`, `RoleErrorsExplained` |
| `TokenExpiryProofs` | `TypeCorrect`, `WithinGrantAlways`, `IdpMaxAlwaysHolds`, `BindingAlwaysOverrides`, `AlwaysLivesLongEnough` | `TypeOK`, `WithinGrant`, `IdpMaxHolds`, `BindingOverrides`, `LivesLongEnough` |
| `AuthCalloutProofs` | `TypeCorrect`, `BooksAlwaysBalance`, `AuditAlwaysFirst`, `SealedAlways`, `Refinement` | `TypeOK`, `BooksBalance`, `AuditFirst`, `SealedStaysSealed`, `KeepsPromise` |
| `ConfigurationProofs` | `MergeIsDocumented`, `DeclaredFirst` | (lemmas of the next two) |
| `WatchedConfigurationProofs` | `AlwaysMergedAsDocumented`, `DeclaredAccountsAlwaysWin` | `MergesAsDocumented`, `DeclaredAccountsWin` |
| `ServerLifecycleProofs` | `TypeCorrect`, `FlagAlwaysSettles`, `ServesAlwaysSound`, `Refinement` | `TypeOK`, `FlagSettles`, `ServesSound`, `KeepsPromise` |
| `ClaimsMappingProofs` | `TypeCorrect`, `ContextAlwaysAsDocumented`, `StructAlwaysAgrees`, `StandardClaimsAlwaysStand`, `RequiredAlwaysLast` | `TypeOK`, `ContextAsDocumented`, `StructAgrees`, `StandardClaimsStand`, `RequiredClaimsLast` |

Six modules prove the theorem `Inductive` (`Spec => []IInv`), one conjunct of
`IInv` and one action at a time, and read the properties off `IInv`. Every `IInv`
was also checked by TLC, on the instances of section 3. The two modules about
configurations prove what the operators compute, for documents and lists of any size,
and need no more of the watcher than what `ConfigWatcherProofs` shows.

- **ConfigWatcher.** Freshness is not inductive: in the middle of a reload the live
  configuration *is* stale. `IInv` says why that will not last. `HeardInv`: if a
  change was heard and no reload is due (`ReloadDue`: the timer runs, or a relevant
  event is queued), then the file has been read by the running reload as it is on
  disk, or has not been reached yet, or is live. Taking an event exchanges one
  half of `ReloadDue` for the other; the timer firing sets the cursor back to the
  first file, which makes the rest of the statement true at once. `BuildInv`
  (what was read is valid, the required IdPs passed so far are found) gives
  soundness, and `PastInv` with `ForwardInv` (what is being read lies between live
  and disk) gives the refinement, step by step: edits map to `Edit`, `SwapState`
  to `Publish`, all else to stuttering. `IInv` is `SafeInv /\ HeardInv`; the first
  half says nothing of the queue, so it holds of the watcher inside the server too.
- **RoleBinding.** `IInv` is the loop invariant: `best` beats all bindings passed,
  `fallback` is the first catch-all passed, under strict none passed is full, and
  `matches` counts the criteria met so far. Two facts carry the proof: `Beats` is
  transitive (`BeatsTransitive`), so one comparison with `best` settles all, and
  evaluating an expression never changes which criteria are met by *this*
  request, though it extends the cache (`SameMatches` and what follows from it) —
  it is only the next request that may be judged differently.
  What the loop of `collateRoles` computes is an induction over the list of roles.
  It is made without an induction theorem: a set of naturals has a least element
  (`Least`, from the well-foundedness of `<`), so there would be a first turn at
  which the grant is not the sum of the roles so far, and lemma `OneMoreRole`
  refutes it. The closed form itself shows that the recursive function exists.
- **TokenExpiry.** `IInv` connects what was claimed, checked, calculated and signed,
  and when. Lemma `Calculation` holds the arithmetic: for any durations the
  result is at most the claimed expiry and at most the NATS maximum away, and is
  no less than what is left of the NATS minimum under the two. Lemma `WithinBound`:
  what passed the check of an IdP's maximum lies within it. Signing adds nothing:
  `ValidateAndSign` asks for blocking issues only, so it takes what has expired, and
  how long a JWT lives is settled when it is built.
- **AuthCallout.** None of the properties is inductive: they speak of answers that
  have arrived, while what can go wrong happens before. `IInv` therefore follows a
  request. `OnceInv`: a request that is pending is in one place at most, the queue, the
  handler or the outbox. `SeenInv`: the snapshot in the handler was in force while
  its request was pending, which a reload may outdate but not undo. `DraftInv`: the
  JWT under construction is filled in from that snapshot alone, phase by phase, and so
  (`EntitledInv`, `SealInv`) is every answer in the outbox. `TraceInv`: before a
  granted answer in the outbox, or in the stream already, is its audit event, or
  its publication failed; the order of one connection does the rest (`AuditFirst`).
  `BooksBalance` counts answers by what became of them, over the stream, the outbox
  and the handler; the lemmas `Told…` and `Said…` say how each count moves when a
  message is appended, flushed or lost. The refinement maps `Flush` to `Grant` or
  `Deny`, the end of a process to `Lose`, and `Reload` to `Swap`.
- **Configuration.** `MergeIsDocumented`: for any number of well-formed documents
  and any path, the merged document has what `Documented` says, or nothing if
  no file counts. By induction over the number of files, made once, in `UpTo`, from
  the least number that is not in a set (`LeastNumber`), as in RoleBinding, since
  the library's induction theorems cannot be used. The statement it carries
  (`MergeRight`) is about the files *so far*: those that count among the first `n`
  are those that counted before unless file `n + 1` overrules them, plus that file
  if it has the path (`AmongWith`, `AmongWithout`). `MergeStep` goes through what
  the next file can be at the path and above it; joining lists needs that the files
  that count agree in kind (`KindSoFar`). `DeclaredFirst`: the loop over the
  key directory only appends, so a name that is declared keeps its first
  declaration (`DeclaredStays`); any other has the directory's key, which is unique
  (`DiscoveredFills`). Decoding keeps names and order, so it makes no difference
  whether one looks up first or decodes first (`DecodedLookup`).
- **WatchedConfiguration.** `MergesAsDocumented` is about every content a reload may
  read, so it follows from `MergeIsDocumented` once the versions read are versions
  there are (`BoundInv`). `DeclaredAccountsWin` is about the live
  configuration, which is valid by `LiveAlwaysSound`; what is valid loads
  (`ContentsAssumption`), so its settings have the kinds of the schema
  (`LoadedKinds`), its accounts are the joined lists of the files that count, and
  looking up a name in joined lists is looking it up in the first that has it
  (`LookupConcat`, `JoinedLookup`).
- **ServerLifecycle.** The watcher's proofs are used as they are: the module
  instantiates `ConfigWatcherProofs`, whose one assumption (`Parameters`) is part of
  `LifecycleAssumption`, and cites its lemmas for the steps the watcher takes within
  the server. What is left are the steps that end a process and start another.
  `StartInv`: what a start has read is valid and no older than what was live, and the
  required IdPs passed so far are set up. `CallbackInv`: the *last* callback that
  waits tells the state of the connection, so whatever is told in between is put
  right; a start resets `told`, since `SetNATSConn` samples, without a callback.
  `DrainInv` keeps a draining connection from telling anything of NATS.
- **ClaimsMapping.** A request maps its claims two or three times, and the properties
  compare the outcome with one mapping. `NamesInv`: under a flat mapping the
  custom claims have the names they keep, so mapping them again changes nothing,
  and after the last they hold no standard claim. `SourceInv` and `CustomInv`: each of them
  is what the documentation takes for it, of userinfo or of the ID token.
  `StandInv` and `StandardInv` say the same of the fields. `Merging` is
  the lemma all rest on: what writing claims over the JSON map and reading them
  back does to the two halves.

**What the proofs found.** `RequiredClaimsLast` used to except only what userinfo
answered. Its proof failed for a reason: a claim that is mapped onto a standard one
passes `exists` though it is *empty*, and is gone when `fromMap` reads it into the
field; and a client that says nothing in a claim of its own erases the ID token's.
The instance of `claims_context` was too small to show either. The property now
names both cases, and the instance has them.

`DeclaredAccountsWin` used to let any file that declares a name decide. What is true
for every list of files is that a file *that counts* decides: one whose
`user_accounts` a later file wipes out, by a value of another kind in its place or
above it, declares nothing. And a later file may turn the key directory off by
an empty `auto_accounts_dir`, which the model had taken for any other name. Both
are in the property, in the model and in the instance now.

**Only model-checked.** Liveness (`EditsGoLive`, `EverySettled`, `Heals`), which is
beyond the prover. `TreesMergeAlike`, because the recursion of `deepMerge` over trees
needs `RECURSIVE` operators; the theorems about the merge are about the merge by
paths, and this invariant ties it to the recursion, on the documents of the
instance. And the violations of section 5, which are single behaviours.

## 5. Where code and documentation disagree

Each is a run that TLC refutes; `PROJECT.json` quotes the lines.

1. `watcher_rotation`: the watcher is documented to handle ConfigMap rotations. A
   rotation raises an event for `..data` only, which is not a configuration file's
   name, and nothing is reloaded.
2. `binding_history`: all listed claims are documented to be accessible in
   expressions. One that is absent from a request's claims does not compile, unless an
   earlier request has left the compiled program behind.
3. `expiry_ceiling`: a JWT is documented never to outlive the ID token. The
   ceiling is a claim that userinfo and custom mappings may replace.
4. `callout_panic`: the tests expect a missing key pair to be an error of
   `ValidateAndSign`. The audit event comes before, and panics on it.
5. `claims_userinfo`: all fields of userinfo are documented to be merged in. A
   mapped claim that the ID token has too is then held under both its names, and
   the order of a Go map decides which value stays.
6. `lifecycle_ready`: readiness is documented to need a verifier. It is told the
   number of verifiers of the start, so a reload that leaves none changes nothing,
   nor does one that brings the first.

Three more have no run of their own.

- An unknown role in a provisional winner ends the lookup before a better binding is
  reached, though `best_match` is documented to select the best. `RoleErrorsExplained`
  says for which bindings such an error is reported.
- `validation.token_bounds.min` and `.max` are documented one by one
  (`docs/site/configuration.qmd:121-122`, and `:131`: "if configured"), and
  `broker/server_test.go:94-113` has a token expire as usual under a minimum alone.
  `validateExpiryBounds` (`broker/idp_jwt_claim.go:150`) compares with a maximum of 0
  then, so the broker refuses every token of such an IdP as too long. The model does
  what the code does (`ValidateExpiryBounds`: once either bound is set both are
  compared), and no property takes this for right: `IdpMaxHolds` speaks of maxima that
  are configured.
- `tokens_minted` is documented as "NATS user JWTs minted" (`docs/site/metrics.qmd:38`,
  `internal/metrics/metrics.go:78`). It is counted before the JWT is validated and
  signed (`broker/auth_callback.go:133`), so it includes those that never are.
  `BooksBalance` states the sum the code keeps: each token counted was granted, or
  `ValidateAndSign` refused it (a `sign_errors`), or its answer is still under way.

## 6. What is not modelled

- Signatures, encryption and encodings: a token verifies or it does not, a
  message opens or it does not.
- The expression and OIDC libraries, fsnotify and NATS, beyond what the code sees
  of them.
- Templates, `readFile` and the decryption of files. Their failure is the failure of
  `BuildUserClaims` or of a reload; that their contents are read anew for each
  request, outside the state that is swapped, is listed as a hazard.
- Most settings: `Loads` knows an unknown section or field, a value of the wrong
  kind and a missing required one, and stands for the rest of the validation.
- The conversions of `fromMap` between numbers, booleans and strings, the audience,
  and the value of a claim beyond where it comes from.
- Resolving glob patterns when the watcher starts. The model begins with the
  result: the files that are watched, and those that are not.
- Bytes under way on a connection that drops and comes back, which core NATS may
  lose: `Flush` delivers in order whatever the broker has written, as long as the
  process lives. `AuditFirst` is therefore about the order in which the broker
  writes, and about what a panic or a stop takes along.
- A NATS server's or client's own timeout: an answer that comes too late is an
  answer here.
- Options and version: which of a flag, a file and a default wins is decided field by
  field, without state, and the unit tests enumerate it.
- Histograms, the HTTP server of the metrics, traces, logs, the command line:
  nothing depends on them.

## 7. Plan

The composition of `AuthCallout` with `ConfigWatcher`: that `Reload` may be replaced
by the whole watcher. The two share one variable, `live`, which the handler reads
once per request (`EnterCallback`) and the watcher writes in one step
(`SwapState`), so what each proves of itself does not depend on the other.
