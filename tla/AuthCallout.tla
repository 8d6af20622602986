----------------------------- MODULE AuthCallout -----------------------------
(***************************************************************************)
(* The auth callout service: Handle and Respond of auth_service.go around  *)
(* the callback of auth_callback.go.  One subscription delivers requests   *)
(* to one handler, one after the other.  Meanwhile the config watcher      *)
(* swaps the live state, and the process may stop, be killed by a panic    *)
(* and be started again.                                                   *)
(*                                                                         *)
(* What leaves the process goes through the buffer of its one NATS         *)
(* connection, in order, and is lost with the process.  The request being  *)
(* handled is the head of the queue until it has been answered.            *)
(*                                                                         *)
(* A configuration is what the handler reads of a LiveState: the IdPs with *)
(* a verifier, in order; the account the role bindings give each user; the *)
(* key pair of each account; and the two service keys, which are only read *)
(* at startup.  Metrics are enabled.                                       *)
(***************************************************************************)
EXTENDS Integers, Sequences, FiniteSets

CONSTANTS
  Requests,     \* the authorization requests servers may send
  About,        \* what is in each of them
  Configs,      \* the configurations
  Content,      \* what is in each of them
  Idps,         \* the identity providers
  Users,        \* the sets of claims a user may end up with
  Accounts,     \* the account names
  MaxAsked,     \* bound: requests sent
  MaxRestarts   \* bound: it is no longer stopped after as many restarts

\* Under "unset" a binding has no account field, "nobody" is bound to nothing.
Bound == Accounts \cup {"unset", "nobody"}

\* An account is not listed, its seed does not parse, it is not an account's
\* seed, or it can sign.
KeyKinds == {"absent", "unparsed", "foreign", "good"}

Config ==
  [idps : Seq(Idps), binding : [Users -> Bound], key : [Accounts -> KeyKinds],
   serviceKey : BOOLEAN, xkey : BOOLEAN]

\* xkey: it is sealed; legible: it opens, if sealed, and decodes;
\* issuers: the IdPs whose verification the ID token passes, if all is well;
\* users: the claims it may come to, with or without userinfo.
Request ==
  [xkey : BOOLEAN, legible : BOOLEAN, token : BOOLEAN,
   issuers : SUBSET Idps, users : SUBSET Users]

\* What stands for the handler's configuration while it has none.
NoConfig == "none"

ASSUME AuthCalloutAssumption ==
  /\ About \in [Requests -> Request]
  /\ \A r \in Requests : About[r].users # {}
  /\ Content \in [Configs -> Config]
  /\ Configs # {} /\ NoConfig \notin Configs
  /\ "nobody" \notin Accounts /\ "unset" \notin Accounts
  /\ MaxAsked \in Nat
  /\ MaxRestarts \in Nat

VARIABLES
  up,         \* the process runs and its endpoint is registered
  keys,       \* the service keys it started with
  live,       \* the LiveState it holds
  queue,      \* requests delivered and not answered
  phase,      \* where the handler is
  snap,       \* the LiveState it works with
  attempt,    \* the next verifier to try
  jwt,        \* the user claims under construction
  kind,       \* what the response will say
  count,      \* the metrics
  outbox,     \* published and not yet flushed
  stream,     \* the audit events that have arrived
  reply,      \* what each request has got
  seen,       \* history: configurations live while each request was pending
  served,     \* history: requests handled since the process started
  unaudited,  \* history: requests whose audit event could not be published
  restarts,   \* history: how often the process was started again
  exit        \* history: why it is down, if it is

broker == <<keys, live, queue, phase, snap, attempt, jwt, kind, count, outbox>>
world  == <<stream, reply>>
past   == <<seen, served, unaudited, restarts, exit>>
vars   == <<up, broker, world, past>>

-----------------------------------------------------------------------------
(***************************************************************************)
(* What is built and what is sent.                                         *)
(***************************************************************************)
NoJwt == [idp |-> "none", user |-> "none", account |-> "none"]

Jwts == [idp : Idps, user : Users, account : Accounts]

Counters == {"request_errors", "in_flight", "success", "denied", "error",
             "tokens_minted", "sign_errors", "encrypt_errors"}

Zero == [c \in Counters |-> 0]

Phases == {"idle", "decoded", "verifying", "verified", "enriched", "built",
           "audited", "recorded", "responding"}

\* The phases between the two ends of the callback's deferred gauge.
InCallback == {"verifying", "verified", "enriched", "built", "audited"}

Kinds == {"rejected", "refused", "unsigned", "granted"}

Forms == {"none", "clear", "sealed", "blank"}

Answer(k, j, f) == [kind |-> k, jwt |-> j, form |-> f]

Unasked == Answer("unasked", NoJwt, "none")
Pending == Answer("pending", NoJwt, "none")
Lost    == Answer("lost", NoJwt, "none")

Message(r, k, j, f) == [request |-> r, kind |-> k, jwt |-> j, form |-> f]

Current == Head(queue)

ServiceKeys(c) == [serviceKey |-> Content[c].serviceKey, xkey |-> Content[c].xkey]

\* Between requests the handler's local variables are gone.
Rest ==
  phase' = "idle" /\ snap' = NoConfig /\ attempt' = 1 /\ jwt' = NoJwt /\ kind' = "refused"

Add(c, n) == count' = [count EXCEPT ![c] = @ + n]

Asked == {r \in Requests : reply[r] # Unasked}

Outstanding == {r \in Requests : reply[r] = Pending}

-----------------------------------------------------------------------------
(***************************************************************************)
(* The process and its environment.                                        *)
(***************************************************************************)
Init ==
  /\ up = TRUE
  /\ live \in Configs /\ snap = NoConfig /\ keys = ServiceKeys(live)
  /\ queue = <<>> /\ outbox = <<>>
  /\ phase = "idle" /\ attempt = 1 /\ jwt = NoJwt /\ kind = "refused"
  /\ count = Zero
  /\ stream = {}
  /\ reply = [r \in Requests |-> Unasked]
  /\ seen = [r \in Requests |-> {}]
  /\ served = {} /\ unaudited = {} /\ restarts = 0 /\ exit = "none"

\* A server asks for an authorization; with the broker down nobody responds.
Ask(r) ==
  /\ reply[r] = Unasked
  /\ Cardinality(Asked) < MaxAsked
  /\ \/ /\ up
        /\ queue' = Append(queue, r)
        /\ reply' = [reply EXCEPT ![r] = Pending]
        /\ seen' = [seen EXCEPT ![r] = {live}]
     \/ /\ ~ up
        /\ reply' = [reply EXCEPT ![r] = Lost]
        /\ UNCHANGED <<queue, seen>>
  /\ UNCHANGED <<up, keys, live, phase, snap, attempt, jwt, kind, count, outbox,
                 stream, served, unaudited, restarts, exit>>

\* The watcher stores a new LiveState.
Reload ==
  /\ up
  /\ live' \in Configs
  /\ seen' = [r \in Requests |->
                IF r \in Outstanding THEN seen[r] \cup {live'} ELSE seen[r]]
  /\ UNCHANGED <<up, keys, queue, phase, snap, attempt, jwt, kind, count, outbox,
                 world, served, unaudited, restarts, exit>>

\* The connection hands the server what was published first, and loses nothing on
\* the way as long as the process lives: what NATS loses of the bytes under way
\* when a connection drops and comes back is not modelled.
Flush ==
  /\ up /\ outbox # <<>>
  /\ LET m == Head(outbox) IN
     \/ /\ m.kind = "audit"
        /\ stream' = stream \cup {<<m.request, m.jwt>>}
        /\ UNCHANGED <<reply, seen>>
     \/ /\ m.kind # "audit"
        /\ reply' = [reply EXCEPT ![m.request] = Answer(m.kind, m.jwt, m.form)]
        /\ seen' = [seen EXCEPT ![m.request] = {}]
        /\ UNCHANGED stream
  /\ outbox' = Tail(outbox)
  /\ UNCHANGED <<up, keys, live, queue, phase, snap, attempt, jwt, kind, count,
                 served, unaudited, restarts, exit>>

\* The process ends: what it has queued, in hand and not yet flushed is lost.
Die(why) ==
  /\ up' = FALSE
  /\ exit' = why
  /\ queue' = <<>> /\ outbox' = <<>>
  /\ Rest
  /\ reply' = [r \in Requests |-> IF r \in Outstanding THEN Lost ELSE reply[r]]
  /\ seen' = [r \in Requests |-> {}]
  /\ UNCHANGED <<keys, live, count, stream, served, unaudited, restarts>>

\* The context is cancelled: main returns while the drain it asked for runs.
Stop == up /\ restarts < MaxRestarts /\ Die("stopped")

\* The platform starts it again, with the configuration it finds by then.
Start ==
  /\ ~ up
  /\ up' = TRUE
  /\ live' \in Configs /\ keys' = ServiceKeys(live')
  /\ count' = Zero
  /\ served' = {}
  /\ restarts' = restarts + 1
  /\ exit' = "none"
  /\ UNCHANGED <<queue, phase, snap, attempt, jwt, kind, outbox, world, seen, unaudited>>

-----------------------------------------------------------------------------
(***************************************************************************)
(* The handler.  Between two of its actions lies a call it may wait in, or *)
(* a point where what else happens makes a difference.                     *)
(***************************************************************************)

\* What no action of the handler changes.
Stay == UNCHANGED <<up, keys, live, stream, reply, seen, restarts, exit>>

\* Respond with k next.
Conclude(k) == phase' = "responding" /\ kind' = k

\* Handle, up to the callback.
Handle ==
  /\ up /\ phase = "idle" /\ queue # <<>>
  /\ served' = served \cup {Current}
  /\ \/ /\ About[Current].xkey => keys.xkey
        /\ About[Current].legible
        /\ phase' = "decoded"
        /\ UNCHANGED <<queue, count, outbox>>
     \/ /\ ~ (About[Current].xkey => keys.xkey) \/ ~ About[Current].legible
        /\ Add("request_errors", 1)
        /\ outbox' = Append(outbox, Message(Current, "rejected", NoJwt, "clear"))
        /\ queue' = Tail(queue)
        /\ UNCHANGED phase
  /\ Stay /\ UNCHANGED <<snap, attempt, jwt, kind, unaudited>>

\* The callback takes the current state and extracts the ID token; a request
\* without one is counted.
EnterOrCount(counter, n) ==
  /\ up /\ phase = "decoded"
  /\ snap' = live
  /\ \/ /\ About[Current].token
        /\ phase' = "verifying"
        /\ Add("in_flight", 1)
        /\ UNCHANGED kind
     \/ /\ ~ About[Current].token
        /\ Add(counter, n)
        /\ Conclude("refused")
  /\ Stay /\ UNCHANGED <<queue, attempt, jwt, outbox, served, unaudited>>

\* Fault: without a token the gauge is left, which was not entered.
EnterCallbackUneven == EnterOrCount("in_flight", -1)

EnterCallback == EnterOrCount("error", 1)

\* The callback fails after it entered the gauge.
Fail(status) ==
  /\ Conclude("refused")
  /\ count' = [count EXCEPT !["in_flight"] = @ - 1, ![status] = @ + 1]

\* One round of runVerification.  The IdP's keys may be out of reach, and then
\* the next verifier is tried as if the token were another's.
VerifyRound(step) ==
  /\ up /\ phase = "verifying"
  /\ \/ /\ attempt <= Len(Content[snap].idps) /\ Content[snap].idps[attempt] \in About[Current].issuers
        /\ jwt' = [jwt EXCEPT !.idp = Content[snap].idps[attempt]]
        /\ phase' = "verified"
        /\ UNCHANGED <<attempt, kind, count>>
     \/ /\ attempt <= Len(Content[snap].idps)
        /\ attempt' = attempt + step
        /\ UNCHANGED <<phase, jwt, kind, count>>
     \/ /\ attempt > Len(Content[snap].idps)
        /\ Fail("denied")
        /\ UNCHANGED <<attempt, jwt>>
  /\ Stay /\ UNCHANGED <<queue, snap, outbox, served, unaudited>>

\* Fault: the same verifier is tried again.
RunVerificationStubborn == VerifyRound(0)

RunVerification == VerifyRound(1)

\* Userinfo and the client information settle the claims; userinfo may fail.
Enrich ==
  /\ up /\ phase = "verified"
  /\ \E u \in About[Current].users : jwt' = [jwt EXCEPT !.user = u]
  /\ phase' = "enriched"
  /\ Stay /\ UNCHANGED <<queue, snap, attempt, kind, count, outbox, served, unaudited>>

\* buildUserClaims; the configuration may also fail to render for the claims, or
\* an automatic account's files be unreadable.
BuildUnder(bindings) ==
  /\ up /\ phase = "enriched"
  /\ LET account == bindings[jwt.user] IN
     \/ /\ account \in Accounts /\ Content[snap].key[account] # "absent"
        /\ jwt' = [jwt EXCEPT !.account = account]
        /\ phase' = "built"
        /\ UNCHANGED <<kind, count>>
     \/ /\ account = "nobody"
        /\ Fail("denied")
        /\ UNCHANGED jwt
     \/ /\ Fail("error")
        /\ UNCHANGED jwt
  /\ Stay /\ UNCHANGED <<queue, snap, attempt, outbox, served, unaudited>>

\* Fault: the account is looked up in the configuration of the moment.
BuildUserClaimsLate == BuildUnder(Content[live].binding)

BuildUserClaims == BuildUnder(Content[snap].binding)

Key == Content[snap].key[jwt.account]

\* publishAuditEvent asks the key pair for its public key, and a nil one panics.
PublishAuditEventPanics ==
  /\ up /\ phase = "built" /\ Key = "unparsed"
  /\ Die("panic")

\* Fault: the event goes out on a connection of its own, and may be lost unnoticed.
PublishAuditEventAside ==
  /\ up /\ phase = "built" /\ Key # "unparsed"
  /\ phase' = "audited"
  /\ Stay
  /\ UNCHANGED <<queue, snap, attempt, jwt, kind, count, outbox, served, unaudited>>

\* publishAuditEvent; a failure to publish is logged.
PublishAuditEvent ==
  /\ up /\ phase = "built" /\ Key # "unparsed"
  /\ phase' = "audited"
  /\ \/ /\ outbox' = Append(outbox, Message(Current, "audit", jwt, "clear"))
        /\ UNCHANGED unaudited
     \/ /\ unaudited' = unaudited \cup {Current}
        /\ UNCHANGED outbox
  /\ Stay /\ UNCHANGED <<queue, snap, attempt, jwt, kind, count, served>>

\* The callback returns: success and the minted token are counted.
RecordResult ==
  /\ up /\ phase = "audited"
  /\ phase' = "recorded"
  /\ count' = [count EXCEPT !["success"] = @ + 1, !["tokens_minted"] = @ + 1,
                            !["in_flight"] = @ - 1]
  /\ Stay /\ UNCHANGED <<queue, snap, attempt, jwt, kind, outbox, served, unaudited>>

\* ValidateAndSign; the claims may turn out invalid whatever the key.
SignOrCount(n) ==
  /\ up /\ phase = "recorded"
  /\ \/ /\ Key = "good"
        /\ Conclude("granted")
        /\ UNCHANGED count
     \/ /\ Conclude("unsigned")
        /\ Add("sign_errors", n)
  /\ Stay /\ UNCHANGED <<queue, snap, attempt, jwt, outbox, served, unaudited>>

\* Fault: a JWT that could not be signed is not counted.
ValidateAndSignUncounted == SignOrCount(0)

ValidateAndSign == SignOrCount(1)

\* Put the response in its envelope and be done with the request.
Send(form) ==
  /\ outbox' = Append(outbox,
       Message(Current, kind, IF kind = "granted" /\ form # "blank" THEN jwt ELSE NoJwt, form))
  /\ queue' = Tail(queue)
  /\ Rest

\* Respond: sign with the service's key and seal for a server that sealed.  If
\* signing fails an empty response is sent, and if sealing fails as well.
RespondSealed(asked) ==
  /\ up /\ phase = "responding"
  /\ LET form == IF asked THEN "sealed" ELSE "clear" IN
     \/ /\ keys.serviceKey
        /\ Send(form)
        /\ UNCHANGED count
     \/ /\ ~ keys.serviceKey
        /\ Send("blank")
        /\ Add("sign_errors", 1)
     \/ /\ asked
        /\ Send("blank")
        /\ count' = [count EXCEPT !["encrypt_errors"] = @ + 1,
                                  !["sign_errors"] = @ + (IF keys.serviceKey THEN 0 ELSE 1)]
  /\ Stay /\ UNCHANGED <<served, unaudited>>

\* Fault: whether to seal is asked of the live configuration.
RespondLive == RespondSealed(About[Current].xkey /\ Content[live].xkey)

Respond == RespondSealed(About[Current].xkey)

Handler ==
  \/ Handle \/ EnterCallback \/ RunVerification \/ Enrich \/ BuildUserClaims
  \/ PublishAuditEventPanics \/ PublishAuditEvent \/ RecordResult
  \/ ValidateAndSign \/ Respond

Next ==
  \/ \E r \in Requests : Ask(r)
  \/ Reload \/ Flush \/ Stop \/ Start
  \/ Handle \/ EnterCallback \/ RunVerification \/ Enrich \/ BuildUserClaims
  \/ PublishAuditEventPanics \/ PublishAuditEvent \/ RecordResult
  \/ ValidateAndSign \/ Respond

Spec == Init /\ [][Next]_vars

\* Every call the handler waits in has a deadline, the connection reconnects for
\* ever, and the platform restarts what has ended.
Fairness == WF_vars(Handler) /\ WF_vars(Flush) /\ WF_vars(Start)

FairSpec == Spec /\ Fairness

-----------------------------------------------------------------------------
(***************************************************************************)
(* Properties.                                                             *)
(***************************************************************************)
Messages ==
  [request : Requests, kind : Kinds, jwt : {NoJwt} \cup Jwts, form : Forms]
    \cup [request : Requests, kind : {"audit"}, jwt : Jwts, form : Forms]

Replies ==
  {Unasked, Pending, Lost} \cup [kind : Kinds, jwt : {NoJwt} \cup Jwts, form : Forms]

\* Every variable has its type; there is a head of the queue to be handled, and
\* a verifier to be tried, when the handler is at it.
TypeOK ==
  /\ up \in BOOLEAN
  /\ keys \in [serviceKey : BOOLEAN, xkey : BOOLEAN]
  /\ live \in Configs
  /\ IF phase \in {"idle", "decoded"}
       THEN snap = NoConfig /\ attempt = 1
       ELSE snap \in Configs /\ attempt \in 1 .. Len(Content[snap].idps) + 1
  /\ queue \in Seq(Requests)
  /\ phase \in Phases
  /\ phase # "idle" => queue # <<>>
  /\ jwt \in [idp : Idps \cup {"none"}, user : Users \cup {"none"}, account : Accounts \cup {"none"}]
  /\ kind \in Kinds
  /\ count \in [Counters -> Nat]
  /\ outbox \in Seq(Messages)
  /\ stream \subseteq Requests \X Jwts
  /\ reply \in [Requests -> Replies]
  /\ seen \in [Requests -> SUBSET Configs]
  /\ served \subseteq Requests /\ unaudited \subseteq Requests
  /\ restarts \in Nat
  /\ exit \in {"none", "stopped", "panic"}

\* The requests answered with k since the process started, arrived or not.
Said(k) ==
  Cardinality({r \in served :
    \/ reply[r].kind = k
    \/ \E i \in 1 .. Len(outbox) : outbox[i].request = r /\ outbox[i].kind = k})

One(condition) == IF condition THEN 1 ELSE 0

\* The metrics account for every answer: each request is counted under one
\* error stage or one status, the gauge is back at zero between requests, every
\* minted token was either granted or could not be signed, and every response
\* or JWT that could not be signed is a sign error.
BooksBalance ==
  up =>
    /\ count["request_errors"] = Said("rejected")
    /\ count["denied"] + count["error"] =
         Said("refused") + One(phase = "responding" /\ kind = "refused")
    /\ count["success"] =
         Said("granted") + Said("unsigned")
           + One(phase = "recorded" \/ (phase = "responding" /\ kind # "refused"))
    /\ count["tokens_minted"] = count["success"]
    /\ count["sign_errors"] =
         Said("unsigned") + One(phase = "responding" /\ kind = "unsigned")
           + (IF keys.serviceKey THEN 0 ELSE Said("refused") + Said("unsigned") + Said("granted"))
    /\ count["in_flight"] = One(phase \in InCallback)

\* A server that holds a JWT can read in the audit stream what it stands for,
\* unless publishing the event failed: events and answers share a connection,
\* and an event lost with the process takes the answer with it.  That is the broker's
\* order of writing; a connection that drops may lose either.
AuditFirst ==
  \A r \in Requests :
    reply[r].kind = "granted" /\ reply[r].form # "blank" =>
      <<r, reply[r].jwt>> \in stream \/ r \in unaudited

\* A response is sealed exactly if the request was, whatever has been reloaded
\* since: a JWT asked for under a seal does not travel in the clear.
SealedStaysSealed ==
  \A r \in Requests :
    reply[r].form \in {"clear", "sealed"} /\ reply[r].kind # "rejected" =>
      (reply[r].form = "sealed") = About[r].xkey

\* What request r may get under configuration c.
EntitledTo(r, c) ==
  {j \in Jwts : /\ j.idp \in About[r].issuers
                /\ \E i \in 1 .. Len(Content[c].idps) : Content[c].idps[i] = j.idp
                /\ j.user \in About[r].users
                /\ j.account = Content[c].binding[j.user]
                /\ Content[c].key[j.account] = "good"}

Entitlements == [r \in Requests |-> [c \in Configs |-> EntitledTo(r, c)]]

Promise == INSTANCE CalloutPromise WITH
  Entitled <- Entitlements,
  status <- [r \in Requests |->
               IF reply[r] = Unasked THEN "unasked"
               ELSE IF reply[r] = Pending THEN "pending"
               ELSE IF reply[r].jwt # NoJwt THEN "granted" ELSE "denied"],
  jwt <- [r \in Requests |-> reply[r].jwt]

\* Each request is settled once, and a JWT is one that a single configuration
\* entitles the request to, in force since the request was made: no reload,
\* stop or restart in the middle of handling mixes two, or brings back an old one.
KeepsPromise == Promise!Spec

\* Every request is answered, or lost with the process, in the end: a request is
\* made once, so from some time on none is pending.
EverySettled == <>[](\A r \in Requests : reply[r] # Pending)

\* A key pair that is missing makes ValidateAndSign fail with "keypair cannot be
\* nil" (internal/broker/auth_service_test.go), not the broker.
NeverPanics == exit # "panic"

=============================================================================
