-------------------------- MODULE AuthCalloutProofs --------------------------
(***************************************************************************)
(* Type correctness of the auth callout service, the audit trail, the      *)
(* sealing of answers, the metrics, and the refinement of CalloutPromise,  *)
(* for any requests, configurations, IdPs, users and accounts.             *)
(***************************************************************************)
EXTENDS AuthCallout, SequenceTheorems, FiniteSetTheorems, TLAPS

\* The gauge counts the callback the handler is in.
GaugeInv == up => count["in_flight"] = One(phase \in InCallback)

\* What the user claims are made of, as far as the handler has got.
Granting == phase = "responding" /\ kind = "granted"

Verified == phase \in {"verified", "enriched", "built", "audited", "recorded"} \/ Granting
Enriched == phase \in {"enriched", "built", "audited", "recorded"} \/ Granting
Built    == phase \in {"built", "audited", "recorded"} \/ Granting
Audited  == phase \in {"audited", "recorded"} \/ Granting

DraftInv ==
  /\ kind \in Kinds \ {"rejected"}
  /\ Verified => /\ jwt.idp \in Idps /\ jwt.idp \in About[Current].issuers
                 /\ \E i \in 1 .. Len(Content[snap].idps) : Content[snap].idps[i] = jwt.idp
  /\ Enriched => jwt.user \in Users /\ jwt.user \in About[Current].users
  /\ Built => jwt.account \in Accounts /\ jwt.account = Content[snap].binding[jwt.user]
  /\ Granting => Content[snap].key[jwt.account] = "good"

\* A process that is down holds nothing, and nobody waits for it.
DownInv ==
  ~ up => phase = "idle" /\ queue = <<>> /\ outbox = <<>> /\ Outstanding = {}

\* What was live while a request was pending, the handler's own included.
SeenInv ==
  /\ \A r \in Requests : IF reply[r] = Pending THEN live \in seen[r] ELSE seen[r] = {}
  /\ phase \notin {"idle", "decoded"} => snap \in seen[Current]

\* A pending request has one place: in the queue, or answered in the outbox.
IsAnswer(m) == m.kind # "audit"

OnceInv ==
  /\ \A i \in 1 .. Len(queue) : reply[queue[i]] = Pending
  /\ \A i, j \in 1 .. Len(queue) : i # j => queue[i] # queue[j]
  /\ \A i \in 1 .. Len(outbox) : IsAnswer(outbox[i]) =>
       /\ reply[outbox[i].request] = Pending
       /\ \A j \in 1 .. Len(outbox) :
            IsAnswer(outbox[j]) /\ i # j => outbox[i].request # outbox[j].request
       /\ \A j \in 1 .. Len(queue) : outbox[i].request # queue[j]

\* An answer that is on its way is one the request is entitled to, sealed as it was.
EntitledInv ==
  \A i \in 1 .. Len(outbox) : IsAnswer(outbox[i]) /\ outbox[i].jwt # NoJwt =>
    \E c \in seen[outbox[i].request] : outbox[i].jwt \in EntitledTo(outbox[i].request, c)

SealInv ==
  \A i \in 1 .. Len(outbox) :
    IsAnswer(outbox[i]) /\ outbox[i].kind # "rejected" /\ outbox[i].form # "blank" =>
      outbox[i].form = (IF About[outbox[i].request].xkey THEN "sealed" ELSE "clear")

\* The audit event of j for r has arrived, could not be published, or is among
\* the first n messages on their way.
TracedIn(arrived, failed, messages, r, j, n) ==
  \/ <<r, j>> \in arrived
  \/ r \in failed
  \/ \E i \in 1 .. n :
       ~ IsAnswer(messages[i]) /\ messages[i].request = r /\ messages[i].jwt = j

Traced(r, j, n) == TracedIn(stream, unaudited, outbox, r, j, n)

TraceInv ==
  /\ Audited => Traced(Current, jwt, Len(outbox))
  /\ \A i \in 1 .. Len(outbox) :
       outbox[i].kind = "granted" /\ outbox[i].form # "blank" =>
         Traced(outbox[i].request, outbox[i].jwt, i - 1)

ServedInv == IsFiniteSet(served) /\ (phase # "idle" => Current \in served)

-----------------------------------------------------------------------------
(***************************************************************************)
(* Type correctness.                                                       *)
(***************************************************************************)

\* The handler is at work on a request that is there.
LEMMA CurrentType ==
  ASSUME queue \in Seq(Requests), queue # <<>>
  PROVE  Current \in Requests /\ Tail(queue) \in Seq(Requests) /\ Current = queue[1]
  BY HeadTailProperties DEF Current

\* What a configuration holds.
LEMMA ContentType ==
  ASSUME NEW c \in Configs
  PROVE  /\ Content[c].idps \in Seq(Idps)
         /\ Len(Content[c].idps) \in Nat
         /\ Content[c].binding \in [Users -> Bound]
         /\ Content[c].key \in [Accounts -> KeyKinds]
         /\ ServiceKeys(c) \in [serviceKey : BOOLEAN, xkey : BOOLEAN]
<1>1. Content[c] \in Config
  BY AuthCalloutAssumption
<1>2. Content[c].idps \in Seq(Idps)
  BY <1>1 DEF Config
<1> QED
  BY <1>1, <1>2 DEF Config, ServiceKeys

\* What a request holds.
LEMMA AboutType ==
  ASSUME NEW r \in Requests
  PROVE  /\ About[r].xkey \in BOOLEAN /\ About[r].token \in BOOLEAN
         /\ About[r].issuers \subseteq Idps /\ About[r].users \subseteq Users
<1>1. About[r] \in Request
  BY AuthCalloutAssumption
<1> QED
  BY <1>1 DEF Request

\* An answer, and an audit event of a JWT, are messages.
LEMMA MessageType ==
  ASSUME NEW r \in Requests, NEW j \in {NoJwt} \cup Jwts, NEW f \in Forms
  PROVE  /\ \A k \in Kinds : Message(r, k, j, f) \in Messages
         /\ j \in Jwts => Message(r, "audit", j, f) \in Messages
  BY DEF Message, Messages

\* A counter goes up.
LEMMA AddType ==
  ASSUME count \in [Counters -> Nat], NEW c \in Counters, NEW n \in Nat, Add(c, n)
  PROVE  /\ count' \in [Counters -> Nat] /\ count'[c] = count[c] + n
         /\ \A d \in Counters \ {c} : count'[d] = count[d]
  BY DEF Add

\* The callback fails, once it has entered the gauge.
LEMMA FailType ==
  ASSUME count \in [Counters -> Nat], count["in_flight"] = 1,
         NEW s \in {"denied", "error"}, Fail(s)
  PROVE  /\ count' \in [Counters -> Nat]
         /\ count'["in_flight"] = 0 /\ count'[s] = count[s] + 1
         /\ \A d \in Counters \ {"in_flight", s} : count'[d] = count[d]
  BY DEF Fail, Counters

\* A draft that names an IdP, a user and an account is a JWT.
LEMMA DraftIsJwt ==
  ASSUME TypeOK, DraftInv, Built
  PROVE  jwt \in Jwts
<1>1. jwt.idp \in Idps /\ jwt.user \in Users /\ jwt.account \in Accounts
  BY DEF DraftInv, Built, Enriched, Verified
<1>2. jwt = [idp |-> jwt.idp, user |-> jwt.user, account |-> jwt.account]
  BY DEF TypeOK
<1> QED
  BY <1>1, <1>2 DEF Jwts

\* The draft the handler starts from.
LEMMA NoJwtType ==
  NoJwt \in [idp : Idps \cup {"none"}, user : Users \cup {"none"}, account : Accounts \cup {"none"}]
  BY DEF NoJwt

\* Types are kept.  The gauge may go down as the handler is in the callback, and
\* what is published names an IdP, a user and an account.
LEMMA TypeStep ==
  ASSUME TypeOK, GaugeInv, DraftInv, [Next]_vars
  PROVE  TypeOK'
<1>1. /\ live \in Configs /\ queue \in Seq(Requests) /\ outbox \in Seq(Messages)
      /\ count \in [Counters -> Nat] /\ reply \in [Requests -> Replies]
      /\ seen \in [Requests -> SUBSET Configs] /\ restarts \in Nat
  BY DEF TypeOK
<1>2. phase # "idle" => Current \in Requests /\ Tail(queue) \in Seq(Requests)
  BY CurrentType DEF TypeOK
<1>3. phase \notin {"idle", "decoded"} => snap \in Configs /\ snap # NoConfig
  BY AuthCalloutAssumption DEF TypeOK
<1>4. Unasked \in Replies /\ Pending \in Replies /\ Lost \in Replies
  BY DEF Replies
<1>5. ASSUME NEW r \in Requests, Ask(r) PROVE TypeOK'
  <2>1. queue' \in Seq(Requests) /\ (queue # <<>> => queue' # <<>>)
    <3>1. Append(queue, r) \in Seq(Requests) /\ Append(queue, r) # <<>>
      BY <1>1, AppendProperties
    <3> QED
      BY <1>1, <1>5, <3>1 DEF Ask
  <2>2. reply' \in [Requests -> Replies] /\ seen' \in [Requests -> SUBSET Configs]
    BY <1>1, <1>4, <1>5 DEF Ask
  <2> QED
    BY <1>5, <2>1, <2>2 DEF Ask, TypeOK, Messages
<1>6. CASE Reload
  <2>1. seen' \in [Requests -> SUBSET Configs]
    BY <1>1, <1>6 DEF Reload
  <2> QED
    BY <1>6, <2>1 DEF Reload, TypeOK, world, Messages
<1>7. CASE Flush
  <2>1. Head(outbox) \in Messages /\ outbox' \in Seq(Messages)
    BY <1>1, <1>7, HeadTailProperties DEF Flush
  <2>2. stream' \subseteq Requests \X Jwts
    BY <1>7, <2>1 DEF Flush, TypeOK, Messages, Kinds
  <2>3. reply' \in [Requests -> Replies] /\ seen' \in [Requests -> SUBSET Configs]
    <3> DEFINE m == Head(outbox)
    <3>1. m.kind # "audit" => Answer(m.kind, m.jwt, m.form) \in Replies
      BY <2>1 DEF Messages, Replies, Answer
    <3>2. UNCHANGED <<reply, seen>> \/
          /\ m.kind # "audit"
          /\ reply' = [reply EXCEPT ![m.request] = Answer(m.kind, m.jwt, m.form)]
          /\ seen' = [seen EXCEPT ![m.request] = {}]
      BY <1>7 DEF Flush
    <3> HIDE DEF m
    <3> QED
      BY <1>1, <3>1, <3>2
  <2> QED
    BY <1>7, <2>1, <2>2, <2>3 DEF Flush, TypeOK
<1>8. ASSUME NEW why \in {"stopped", "panic"}, Die(why) PROVE TypeOK'
  <2>1. reply' \in [Requests -> Replies] /\ seen' \in [Requests -> SUBSET Configs]
    BY <1>1, <1>4, <1>8 DEF Die
  <2> QED
    <3>1. queue' \in Seq(Requests) /\ outbox' \in Seq(Messages)
      BY <1>8, EmptySeq DEF Die
    <3>2. snap' = NoConfig /\ attempt' = 1 /\ phase' = "idle" /\ kind' \in Kinds /\ jwt' = NoJwt
      BY <1>8 DEF Die, Rest, Kinds
    <3> QED
      BY <1>8, <2>1, <3>1, <3>2, NoJwtType DEF Die, TypeOK, Phases
<1>9. CASE Start
  <2>1. keys' \in [serviceKey : BOOLEAN, xkey : BOOLEAN]
    BY <1>9, ContentType DEF Start
  <2> QED
    BY <1>9, <2>1 DEF Start, TypeOK, world, Zero
<1>10. CASE Handle
  <2>1. Current \in Requests /\ Tail(queue) \in Seq(Requests)
    BY <1>1, <1>10, CurrentType DEF Handle
  <2>2. Append(outbox, Message(Current, "rejected", NoJwt, "clear")) \in Seq(Messages)
    BY <1>1, <2>1, MessageType, AppendProperties DEF Kinds, Forms
  <2>3. count' \in [Counters -> Nat]
    BY <1>1, <1>10, AddType DEF Handle, Counters
  <2> QED
    BY <1>10, <2>1, <2>2, <2>3 DEF Handle, Stay, TypeOK, Phases
<1>11. CASE EnterCallback
  <2>1. count' \in [Counters -> Nat]
    BY <1>1, <1>11, AddType DEF EnterCallback, EnterOrCount, Counters
  <2>2. snap' \in Configs /\ attempt' \in 1 .. Len(Content[snap'].idps) + 1
    BY <1>11, ContentType DEF EnterCallback, EnterOrCount, TypeOK
  <2> QED
    BY <1>11, <2>1, <2>2 DEF EnterCallback, EnterOrCount, Conclude, Stay, TypeOK, Phases, Kinds
<1>12. CASE RunVerification
  <2>1. /\ up /\ phase = "verifying" /\ snap \in Configs /\ count["in_flight"] = 1
        /\ Len(Content[snap].idps) \in Nat
    BY <1>3, <1>12, ContentType DEF RunVerification, VerifyRound, GaugeInv, One, InCallback
  <2>2. count' \in [Counters -> Nat]
    BY <1>1, <1>12, <2>1, FailType DEF RunVerification, VerifyRound
  <2>3. attempt' \in 1 .. Len(Content[snap].idps) + 1
    BY <1>12, <2>1 DEF RunVerification, VerifyRound, TypeOK
  <2>4. ASSUME attempt <= Len(Content[snap].idps) PROVE Content[snap].idps[attempt] \in Idps
    BY <2>1, <2>4, ContentType, ElementOfSeq DEF TypeOK
  <2>5. jwt' \in [idp : Idps \cup {"none"}, user : Users \cup {"none"}, account : Accounts \cup {"none"}]
    BY <1>12, <2>4 DEF RunVerification, VerifyRound, TypeOK
  <2>6. phase' \in Phases \ {"idle", "decoded"} /\ kind' \in Kinds
    BY <1>12 DEF RunVerification, VerifyRound, Fail, Conclude, TypeOK, Phases, Kinds
  <2> QED
    BY <1>12, <2>1, <2>2, <2>3, <2>5, <2>6 DEF RunVerification, VerifyRound, Stay, TypeOK
<1>13. CASE Enrich
  <2>1. jwt' \in [idp : Idps \cup {"none"}, user : Users \cup {"none"}, account : Accounts \cup {"none"}]
    BY <1>2, <1>13, AboutType DEF Enrich, TypeOK
  <2> QED
    BY <1>13, <2>1 DEF Enrich, Stay, TypeOK, Phases
<1>14. CASE BuildUserClaims
  <2>1. up /\ phase = "enriched" /\ count["in_flight"] = 1
    BY <1>14 DEF BuildUserClaims, BuildUnder, GaugeInv, One, InCallback
  <2>2. count' \in [Counters -> Nat]
    BY <1>1, <1>14, <2>1, FailType DEF BuildUserClaims, BuildUnder
  <2>3. jwt' \in [idp : Idps \cup {"none"}, user : Users \cup {"none"}, account : Accounts \cup {"none"}]
    BY <1>14 DEF BuildUserClaims, BuildUnder, TypeOK
  <2>4. phase' \in Phases \ {"idle", "decoded"} /\ kind' \in Kinds
    BY <1>14 DEF BuildUserClaims, BuildUnder, Fail, Conclude, TypeOK, Phases, Kinds
  <2> QED
    BY <1>14, <2>1, <2>2, <2>3, <2>4 DEF BuildUserClaims, BuildUnder, Stay, TypeOK
<1>15. CASE PublishAuditEvent
  <2>1. Current \in Requests /\ jwt \in Jwts
    BY <1>2, <1>15, DraftIsJwt DEF PublishAuditEvent, Built
  <2>2. outbox' \in Seq(Messages)
    <3>1. Message(Current, "audit", jwt, "clear") \in Messages
      BY <2>1, MessageType DEF Forms
    <3>2. Append(outbox, Message(Current, "audit", jwt, "clear")) \in Seq(Messages)
      BY <1>1, <3>1, AppendProperties
    <3> QED
      BY <1>1, <1>15, <3>2 DEF PublishAuditEvent
  <2> QED
    BY <1>15, <2>1, <2>2 DEF PublishAuditEvent, Stay, TypeOK, Phases
<1>16. CASE RecordResult
  <2>1. up /\ phase = "audited" /\ count["in_flight"] = 1
    BY <1>16 DEF RecordResult, GaugeInv, One, InCallback
  <2>2. count' \in [Counters -> Nat]
    BY <1>1, <1>16, <2>1, SMTT(30) DEF RecordResult, Counters
  <2> QED
    BY <1>16, <2>1, <2>2 DEF RecordResult, Stay, TypeOK, Phases
<1>17. CASE ValidateAndSign
  <2>1. count' \in [Counters -> Nat]
    BY <1>1, <1>17, AddType DEF ValidateAndSign, SignOrCount, Counters
  <2> QED
    BY <1>17, <2>1 DEF ValidateAndSign, SignOrCount, Conclude, Stay, TypeOK, Phases, Kinds
<1>18. CASE Respond
  <2>1. /\ Current \in Requests /\ Tail(queue) \in Seq(Requests) /\ kind \in Kinds
        /\ kind = "granted" => jwt \in Jwts
    BY <1>2, <1>18, DraftIsJwt DEF Respond, RespondSealed, Built, Granting, TypeOK
  <2>2. ASSUME NEW form \in Forms, Send(form)
        PROVE  outbox' \in Seq(Messages) /\ queue' \in Seq(Requests)
    BY <1>1, <2>1, <2>2, MessageType, AppendProperties DEF Send
  <2>3. \E form \in Forms : Send(form)
    BY <1>18 DEF Respond, RespondSealed, Forms
  <2>4. Rest /\ outbox' \in Seq(Messages) /\ queue' \in Seq(Requests)
    BY <2>2, <2>3 DEF Send
  <2>5. count' \in [Counters -> Nat]
    BY <1>1, <1>18, AddType DEF Respond, RespondSealed, Counters
  <2> QED
    BY <1>18, <2>4, <2>5, NoJwtType DEF Respond, RespondSealed, Rest, Stay, TypeOK, Phases, Kinds
<1>19. CASE UNCHANGED vars
  BY <1>19 DEF vars, broker, world, past, TypeOK
<1> QED
  BY <1>5, <1>6, <1>7, <1>8, <1>9, <1>10, <1>11, <1>12, <1>13, <1>14, <1>15,
     <1>16, <1>17, <1>18, <1>19 DEF Next, Stop, PublishAuditEventPanics

-----------------------------------------------------------------------------
(***************************************************************************)
(* The handler and the process it runs in.                                 *)
(***************************************************************************)

\* The steps of the handler between taking a request and answering it.
Quiet ==
  \/ EnterCallback \/ RunVerification \/ Enrich \/ BuildUserClaims
  \/ RecordResult \/ ValidateAndSign

\* They leave the queue, the outbox and the world as they are.
LEMMA QuietStep ==
  ASSUME Quiet
  PROVE  /\ up /\ phase # "idle" /\ phase' # "idle"
         /\ UNCHANGED <<up, keys, live, queue, outbox, stream, reply, seen, served, unaudited>>
  BY DEF Quiet, EnterCallback, EnterOrCount, RunVerification, VerifyRound, Enrich,
         BuildUserClaims, BuildUnder, RecordResult, ValidateAndSign, SignOrCount,
         Fail, Conclude, Stay

\* The request in hand stays the head of the queue until it is done with.
LEMMA CurrentStays ==
  ASSUME TypeOK, [Next]_vars, phase # "idle", phase' # "idle"
  PROVE  Current' = Current
<1>1. queue \in Seq(Requests) /\ queue # <<>>
  BY DEF TypeOK
<1>2. ASSUME NEW r \in Requests, Ask(r) PROVE Current' = Current
  <2>1. Head(Append(queue, r)) = Head(queue)
    BY <1>1, HeadTailAppend
  <2> QED
    BY <1>2, <2>1 DEF Ask, Current
<1>3. ASSUME UNCHANGED queue PROVE Current' = Current
  BY <1>3 DEF Current
<1>4. Reload \/ Flush \/ Start \/ PublishAuditEvent \/ UNCHANGED vars => UNCHANGED queue
  BY DEF Reload, Flush, Start, PublishAuditEvent, Stay, vars, broker
<1>5. ASSUME NEW why, Die(why) PROVE FALSE
  BY <1>5 DEF Die, Rest
<1>6. ~ Handle /\ ~ Respond
  BY DEF Handle, Respond, RespondSealed, Send, Rest
<1> QED
  BY <1>2, <1>3, <1>4, <1>5, <1>6, QuietStep DEF Next, Quiet, Stop, PublishAuditEventPanics

\* The gauge counts the callback the handler is in.
LEMMA GaugeStep ==
  ASSUME TypeOK, GaugeInv, DownInv, [Next]_vars
  PROVE  GaugeInv'
<1>1. count \in [Counters -> Nat]
  BY DEF TypeOK
<1> USE DEF GaugeInv, One, InCallback
<1>2. ASSUME NEW r \in Requests, Ask(r) PROVE GaugeInv'
  BY <1>2 DEF Ask
<1>3. CASE Reload \/ Flush \/ PublishAuditEvent \/ UNCHANGED vars
  BY <1>3 DEF Reload, Flush, PublishAuditEvent, Stay, vars, broker
<1>4. ASSUME NEW why, Die(why) PROVE GaugeInv'
  BY <1>4 DEF Die
<1>5. CASE Start
  <2>1. phase = "idle"
    BY <1>5 DEF Start, DownInv
  <2> QED
    BY <1>5, <2>1 DEF Start, Zero, Counters
<1>6. CASE Handle
  BY <1>1, <1>6, AddType DEF Handle, Stay, Counters
<1>7. CASE EnterCallback
  <2>1. up /\ phase = "decoded" /\ count["in_flight"] = 0
    BY <1>7 DEF EnterCallback, EnterOrCount
  <2> QED
    BY <1>1, <1>7, <2>1, AddType DEF EnterCallback, EnterOrCount, Conclude, Stay, Counters
<1>8. CASE RunVerification
  <2>1. up /\ phase = "verifying" /\ count["in_flight"] = 1
    BY <1>8 DEF RunVerification, VerifyRound
  <2> QED
    BY <1>1, <1>8, <2>1, FailType DEF RunVerification, VerifyRound, Fail, Conclude, Stay
<1>9. CASE Enrich
  BY <1>9 DEF Enrich, Stay
<1>10. CASE BuildUserClaims
  <2>1. up /\ phase = "enriched" /\ count["in_flight"] = 1
    BY <1>10 DEF BuildUserClaims, BuildUnder
  <2> QED
    BY <1>1, <1>10, <2>1, FailType DEF BuildUserClaims, BuildUnder, Fail, Conclude, Stay
<1>11. CASE RecordResult
  BY <1>1, <1>11 DEF RecordResult, Stay, Counters
<1>12. CASE ValidateAndSign
  BY <1>1, <1>12, AddType DEF ValidateAndSign, SignOrCount, Conclude, Stay, Counters
<1>13. CASE Respond
  BY <1>1, <1>13, AddType DEF Respond, RespondSealed, Send, Rest, Stay, Counters
<1> QED
  BY <1>2, <1>3, <1>4, <1>5, <1>6, <1>7, <1>8, <1>9, <1>10, <1>11, <1>12, <1>13
     DEF Next, Stop, PublishAuditEventPanics

\* The claims are built from one configuration and one request.
LEMMA DraftStep ==
  ASSUME TypeOK, DraftInv, [Next]_vars
  PROVE  DraftInv'
<1> USE DEF DraftInv, Verified, Enriched, Built, Granting
<1>1. phase # "idle" => Current \in Requests
  BY CurrentType DEF TypeOK
<1>2. phase # "idle" /\ phase' # "idle" => Current' = Current
  BY CurrentStays
<1>3. ASSUME NEW r \in Requests, Ask(r) PROVE DraftInv'
  BY <1>2, <1>3 DEF Ask
<1>4. CASE Reload \/ Flush \/ Start \/ UNCHANGED vars
  BY <1>2, <1>4 DEF Reload, Flush, Start, vars, broker
<1>5. CASE Rest
  BY <1>5 DEF Rest, Kinds
<1>6. CASE Handle
  BY <1>6 DEF Handle, TypeOK
<1>7. CASE EnterCallback
  BY <1>7 DEF EnterCallback, EnterOrCount, Conclude, Kinds
<1>8. CASE RunVerification
  <2>1. /\ phase = "verifying" /\ snap \in Configs /\ Len(Content[snap].idps) \in Nat
        /\ attempt \in Nat \ {0} /\ Current' = Current /\ UNCHANGED snap
    BY <1>2, <1>8, ContentType, AuthCalloutAssumption DEF RunVerification, VerifyRound, Fail, Conclude, TypeOK
  <2>2. CASE phase' = "verified"
    <3>1. /\ attempt \in 1 .. Len(Content[snap].idps)
          /\ Content[snap].idps[attempt] \in About[Current].issuers
          /\ jwt' = [jwt EXCEPT !.idp = Content[snap].idps[attempt]]
          /\ UNCHANGED kind
      BY <1>8, <2>1, <2>2 DEF RunVerification, VerifyRound, Fail, Conclude
    <3>2. Content[snap].idps[attempt] \in Idps
      BY <2>1, <3>1, ContentType, ElementOfSeq
    <3>3. jwt'.idp = Content[snap].idps[attempt]
      BY <3>1 DEF TypeOK
    <3> QED
      BY <2>1, <2>2, <3>1, <3>2, <3>3
  <2>3. CASE phase' # "verified"
    BY <1>8, <2>1, <2>3 DEF RunVerification, VerifyRound, Fail, Conclude, Kinds
  <2> QED
    BY <2>2, <2>3
<1>9. CASE Enrich
  <2>1. phase = "verified" /\ phase' = "enriched" /\ Current' = Current /\ UNCHANGED <<snap, kind>>
    BY <1>2, <1>9 DEF Enrich
  <2>2. PICK u \in About[Current].users : jwt' = [jwt EXCEPT !.user = u]
    BY <1>9 DEF Enrich
  <2>3. u \in Users
    BY <1>1, <2>1, <2>2, AboutType
  <2>4. jwt'.user = u /\ jwt'.idp = jwt.idp
    BY <2>2 DEF TypeOK
  <2> QED
    BY <2>1, <2>2, <2>3, <2>4
<1>10. CASE BuildUserClaims
  <2>1. phase = "enriched" /\ Current' = Current /\ UNCHANGED snap
    BY <1>2, <1>10 DEF BuildUserClaims, BuildUnder, Fail, Conclude
  <2>2. CASE phase' = "built"
    <3>1. /\ Content[snap].binding[jwt.user] \in Accounts
          /\ jwt' = [jwt EXCEPT !.account = Content[snap].binding[jwt.user]]
          /\ UNCHANGED kind
      BY <1>10, <2>2 DEF BuildUserClaims, BuildUnder, Fail, Conclude
    <3>2. /\ jwt'.account = Content[snap].binding[jwt.user]
          /\ jwt'.idp = jwt.idp /\ jwt'.user = jwt.user
      BY <3>1 DEF TypeOK
    <3> QED
      BY <2>1, <2>2, <3>1, <3>2
  <2>3. CASE phase' # "built"
    BY <1>10, <2>1, <2>3 DEF BuildUserClaims, BuildUnder, Fail, Conclude, Kinds
  <2> QED
    BY <2>2, <2>3
<1>11. CASE PublishAuditEvent \/ RecordResult
  BY <1>2, <1>11 DEF PublishAuditEvent, RecordResult, Stay
<1>12. CASE ValidateAndSign
  BY <1>2, <1>12 DEF ValidateAndSign, SignOrCount, Conclude, Key, Kinds
<1> QED
  BY <1>3, <1>4, <1>5, <1>6, <1>7, <1>8, <1>9, <1>10, <1>11, <1>12
     DEF Next, Stop, PublishAuditEventPanics, Die, Respond, RespondSealed, Send

\* Nothing happens in a process that is down, and nothing outlives it.
LEMMA DownStep ==
  ASSUME TypeOK, DownInv, [Next]_vars
  PROVE  DownInv'
<1> USE DEF DownInv
<1>1. ASSUME NEW r \in Requests, Ask(r) PROVE DownInv'
  BY <1>1 DEF Ask, Outstanding, TypeOK, Pending, Lost, Answer
<1>2. ASSUME NEW why, Die(why) PROVE DownInv'
  BY <1>2 DEF Die, Rest, Outstanding, Pending, Lost, Answer
<1>3. CASE UNCHANGED vars
  BY <1>3 DEF vars, broker, world, Outstanding
<1>4. Reload \/ Flush \/ Start \/ Handle \/ PublishAuditEvent \/ Respond => up'
  BY DEF Reload, Flush, Start, Handle, PublishAuditEvent, Respond, RespondSealed, Stay
<1> QED
  BY <1>1, <1>2, <1>3, <1>4, QuietStep DEF Next, Quiet, Stop, PublishAuditEventPanics

-----------------------------------------------------------------------------
(***************************************************************************)
(* Requests and answers.                                                   *)
(***************************************************************************)

\* The three states of a request without an answer differ.
LEMMA Distinct ==
  /\ Unasked # Pending /\ Lost # Pending /\ Unasked # Lost
  /\ \A k \in Kinds : \A j, f : Answer(k, j, f) \notin {Unasked, Pending, Lost}
  BY DEF Unasked, Pending, Lost, Answer, Kinds

\* The request in hand waits for its answer, which is not on its way yet.
LEMMA CurrentPending ==
  ASSUME TypeOK, OnceInv, queue # <<>>
  PROVE  /\ Current \in Requests /\ reply[Current] = Pending
         /\ \A i \in 1 .. Len(outbox) : IsAnswer(outbox[i]) => outbox[i].request # Current
<1>1. Current \in Requests /\ Current = queue[1] /\ 1 \in 1 .. Len(queue)
  BY CurrentType, EmptySeq DEF TypeOK
<1> QED
  BY <1>1 DEF OnceInv

\* The messages after the first, when it is flushed.
LEMMA TailType ==
  ASSUME outbox \in Seq(Messages), outbox # <<>>, outbox' = Tail(outbox)
  PROVE  /\ Head(outbox) \in Messages /\ Head(outbox) = outbox[1]
         /\ Len(outbox) \in Nat \ {0} /\ Len(outbox') = Len(outbox) - 1
         /\ \A i \in 1 .. Len(outbox') : i + 1 \in 2 .. Len(outbox) /\ outbox'[i] = outbox[i + 1]
  BY HeadTailProperties, EmptySeq

\* The messages before a new one.
LEMMA AppendType ==
  ASSUME outbox \in Seq(Messages), NEW m \in Messages, outbox' = Append(outbox, m)
  PROVE  /\ Len(outbox) \in Nat /\ Len(outbox') = Len(outbox) + 1
         /\ outbox'[Len(outbox')] = m
         /\ \A i \in 1 .. Len(outbox) : outbox'[i] = outbox[i]
         /\ \A i \in 1 .. Len(outbox') : i \in 1 .. Len(outbox) \/ i = Len(outbox')
  BY AppendProperties

\* A request is done with: it leaves the queue as its answer enters the outbox.
LEMMA MoveOnce ==
  ASSUME TypeOK, OnceInv, queue # <<>>, UNCHANGED reply, queue' = Tail(queue),
         NEW m \in Messages, m.request = Current, outbox' = Append(outbox, m)
  PROVE  OnceInv'
<1>1. /\ outbox \in Seq(Messages) /\ queue \in Seq(Requests)
      /\ Len(queue) \in Nat \ {0} /\ Len(queue') = Len(queue) - 1 /\ Current = queue[1]
      /\ \A i \in 1 .. Len(queue') : i + 1 \in 2 .. Len(queue) /\ queue'[i] = queue[i + 1]
  BY CurrentType, HeadTailProperties, EmptySeq DEF TypeOK
<1>2. /\ Len(outbox) \in Nat /\ Len(outbox') = Len(outbox) + 1
      /\ outbox'[Len(outbox')] = m
      /\ \A i \in 1 .. Len(outbox) : outbox'[i] = outbox[i]
      /\ \A i \in 1 .. Len(outbox') : i \in 1 .. Len(outbox) \/ i = Len(outbox')
  BY <1>1, AppendType
<1>3. /\ reply[Current] = Pending
      /\ \A i \in 1 .. Len(outbox) : IsAnswer(outbox[i]) => outbox[i].request # Current
  BY CurrentPending
<1>4. /\ \A i \in 1 .. Len(queue') : reply'[queue'[i]] = Pending
      /\ \A i, j \in 1 .. Len(queue') : i # j => queue'[i] # queue'[j]
      /\ \A i \in 1 .. Len(queue') : queue'[i] # Current
  BY <1>1 DEF OnceInv
<1>5. ASSUME NEW i \in 1 .. Len(outbox'), IsAnswer(outbox'[i])
      PROVE  /\ reply'[outbox'[i].request] = Pending
             /\ \A j \in 1 .. Len(outbox') :
                  IsAnswer(outbox'[j]) /\ i # j => outbox'[i].request # outbox'[j].request
             /\ \A j \in 1 .. Len(queue') : outbox'[i].request # queue'[j]
  <2>1. CASE i = Len(outbox')
    <3>1. ASSUME NEW j \in 1 .. Len(outbox'), IsAnswer(outbox'[j]), i # j
          PROVE  outbox'[i].request # outbox'[j].request
      BY <1>2, <1>3, <2>1, <3>1
    <3> QED
      BY <1>2, <1>3, <1>4, <2>1, <3>1
  <2>2. CASE i \in 1 .. Len(outbox)
    <3>1. ASSUME NEW j \in 1 .. Len(outbox'), IsAnswer(outbox'[j]), i # j
          PROVE  outbox'[i].request # outbox'[j].request
      BY <1>2, <1>3, <1>5, <2>2, <3>1 DEF OnceInv
    <3>2. \A j \in 1 .. Len(queue') : outbox'[i].request # queue'[j]
      BY <1>1, <1>2, <1>5, <2>2 DEF OnceInv
    <3> QED
      BY <1>2, <1>5, <2>2, <3>1, <3>2 DEF OnceInv
  <2> QED
    BY <1>2, <2>1, <2>2
<1> QED
  BY <1>4, <1>5 DEF OnceInv, IsAnswer

\* A message leaves the outbox, with what it says its request has got.
LEMMA FlushOnce ==
  ASSUME TypeOK, OnceInv, Flush
  PROVE  OnceInv'
<1>1. /\ Head(outbox) \in Messages /\ Head(outbox) = outbox[1]
      /\ Len(outbox) \in Nat \ {0} /\ Len(outbox') = Len(outbox) - 1
      /\ \A i \in 1 .. Len(outbox') : i + 1 \in 2 .. Len(outbox) /\ outbox'[i] = outbox[i + 1]
  BY TailType DEF Flush, TypeOK
<1>2. \A r \in Requests : reply'[r] = reply[r] \/ (IsAnswer(outbox[1]) /\ r = outbox[1].request)
  BY <1>1 DEF Flush, TypeOK, IsAnswer
<1>3. UNCHANGED queue /\ queue \in Seq(Requests) /\ \A i \in 1 .. Len(queue) : queue[i] \in Requests
  BY ElementOfSeq DEF Flush, TypeOK
<1>4. \A i \in 1 .. Len(queue') : reply'[queue'[i]] = Pending
  BY <1>1, <1>2, <1>3 DEF OnceInv
<1>5. ASSUME NEW i \in 1 .. Len(outbox'), IsAnswer(outbox'[i])
      PROVE  /\ reply'[outbox'[i].request] = Pending
             /\ \A j \in 1 .. Len(outbox') :
                  IsAnswer(outbox'[j]) /\ i # j => outbox'[i].request # outbox'[j].request
             /\ \A j \in 1 .. Len(queue') : outbox'[i].request # queue'[j]
  <2>1. i + 1 \in 1 .. Len(outbox) /\ i + 1 # 1 /\ outbox'[i] = outbox[i + 1]
    BY <1>1
  <2>2. outbox[i + 1].request \in Requests
    BY <2>1, ElementOfSeq DEF TypeOK, Messages
  <2>3. reply'[outbox'[i].request] = Pending
    BY <1>1, <1>2, <1>5, <2>1, <2>2 DEF OnceInv
  <2>4. ASSUME NEW j \in 1 .. Len(outbox'), IsAnswer(outbox'[j]), i # j
        PROVE  outbox'[i].request # outbox'[j].request
    <3>1. j + 1 \in 1 .. Len(outbox) /\ j + 1 # i + 1 /\ outbox'[j] = outbox[j + 1]
      BY <1>1, <2>4
    <3> QED
      BY <1>5, <2>1, <2>4, <3>1 DEF OnceInv
  <2>5. \A j \in 1 .. Len(queue') : outbox'[i].request # queue'[j]
    BY <1>3, <1>5, <2>1 DEF OnceInv
  <2> QED
    BY <2>3, <2>4, <2>5
<1> QED
  BY <1>3, <1>4, <1>5 DEF OnceInv, IsAnswer

\* Which message an answering step of the handler sends.
LEMMA RespondSends ==
  ASSUME TypeOK, DraftInv, Respond
  PROVE  \E form \in {"sealed", "clear", "blank"} :
           /\ form # "blank" => form = (IF About[Current].xkey THEN "sealed" ELSE "clear")
           /\ Send(form)
           /\ Message(Current, kind, IF kind = "granted" /\ form # "blank" THEN jwt ELSE NoJwt, form) \in Messages
<1>1. Current \in Requests /\ kind \in Kinds /\ (kind = "granted" => jwt \in Jwts)
  BY CurrentType, DraftIsJwt DEF Respond, RespondSealed, Built, Granting, TypeOK
<1>2. PICK form \in {"sealed", "clear", "blank"} :
        /\ form # "blank" => form = (IF About[Current].xkey THEN "sealed" ELSE "clear")
        /\ Send(form)
  BY <1>1, AboutType DEF Respond, RespondSealed
<1>3. Message(Current, kind, IF kind = "granted" /\ form # "blank" THEN jwt ELSE NoJwt, form) \in Messages
  <2>1. form \in Forms /\ (IF kind = "granted" /\ form # "blank" THEN jwt ELSE NoJwt) \in {NoJwt} \cup Jwts
    BY <1>1 DEF Forms
  <2> QED
    BY <1>1, <2>1, MessageType
<1> QED
  BY <1>2, <1>3

\* The message of a rejection.
LEMMA HandleSends ==
  ASSUME TypeOK, Handle, queue' # queue \/ outbox' # outbox
  PROVE  /\ Message(Current, "rejected", NoJwt, "clear") \in Messages
         /\ outbox' = Append(outbox, Message(Current, "rejected", NoJwt, "clear"))
         /\ queue' = Tail(queue) /\ UNCHANGED phase
<1>1. Current \in Requests
  BY CurrentType DEF Handle, TypeOK
<1> QED
  BY <1>1, MessageType DEF Handle, Forms, Kinds

\* The message of an audit event.
LEMMA AuditSends ==
  ASSUME TypeOK, DraftInv, PublishAuditEvent, outbox' # outbox
  PROVE  /\ Message(Current, "audit", jwt, "clear") \in Messages
         /\ outbox' = Append(outbox, Message(Current, "audit", jwt, "clear"))
<1>1. Current \in Requests /\ jwt \in Jwts
  BY CurrentType, DraftIsJwt DEF PublishAuditEvent, Built, TypeOK
<1> QED
  BY <1>1, MessageType DEF PublishAuditEvent, Forms

\* A pending request is in one place.
LEMMA OnceStep ==
  ASSUME TypeOK, DraftInv, DownInv, OnceInv, [Next]_vars
  PROVE  OnceInv'
<1>1. ASSUME NEW r \in Requests, Ask(r) PROVE OnceInv'
  <2>1. reply[r] = Unasked /\ UNCHANGED outbox
    BY <1>1 DEF Ask
  <2>2. \A x \in Requests : reply[x] = Pending => reply'[x] = Pending
    BY <1>1, <2>1, Distinct DEF Ask, TypeOK
  <2>3. CASE up
    <3>1. queue \in Seq(Requests) /\ queue' = Append(queue, r) /\ reply'[r] = Pending
      BY <1>1, <2>3 DEF Ask, TypeOK
    <3>2. /\ Len(queue) \in Nat /\ Len(queue') = Len(queue) + 1 /\ queue'[Len(queue')] = r
          /\ \A i \in 1 .. Len(queue) : queue'[i] = queue[i] /\ queue[i] \in Requests
          /\ \A i \in 1 .. Len(queue') : i \in 1 .. Len(queue) \/ i = Len(queue')
      BY <3>1, AppendProperties, ElementOfSeq
    <3>3. \A i \in 1 .. Len(queue) : queue[i] # r
      BY <2>1, Distinct DEF OnceInv
    <3>4. \A i \in 1 .. Len(outbox) : IsAnswer(outbox[i]) => outbox[i].request # r
      BY <2>1, Distinct DEF OnceInv
    <3>5. \A i \in 1 .. Len(outbox) : outbox[i].request \in Requests
      BY ElementOfSeq DEF TypeOK, Messages
    <3>6. \A i \in 1 .. Len(queue') : reply'[queue'[i]] = Pending
      BY <2>2, <3>1, <3>2 DEF OnceInv
    <3>7. \A i, j \in 1 .. Len(queue') : i # j => queue'[i] # queue'[j]
      BY <3>2, <3>3 DEF OnceInv
    <3>8. \A i \in 1 .. Len(outbox) : IsAnswer(outbox[i]) =>
            \A j \in 1 .. Len(queue') : outbox[i].request # queue'[j]
      BY <3>2, <3>4 DEF OnceInv
    <3> QED
      BY <2>1, <2>2, <3>5, <3>6, <3>7, <3>8 DEF OnceInv, IsAnswer
  <2>4. CASE ~ up
    BY <1>1, <2>4, EmptySeq DEF Ask, DownInv, OnceInv
  <2> QED
    BY <2>3, <2>4
<1>2. CASE UNCHANGED <<queue, outbox, reply>>
  BY <1>2 DEF OnceInv, IsAnswer
<1>3. Reload \/ Start \/ UNCHANGED vars => UNCHANGED <<queue, outbox, reply>>
  BY DEF Reload, Start, vars, broker, world
<1>4. ASSUME NEW why, Die(why) PROVE OnceInv'
  BY <1>4, EmptySeq DEF Die, OnceInv
<1>5. CASE Handle
  <2>1. CASE UNCHANGED <<queue, outbox>>
    BY <1>2, <1>5, <2>1 DEF Handle, Stay
  <2>2. CASE ~ UNCHANGED <<queue, outbox>>
    <3> DEFINE m == Message(Current, "rejected", NoJwt, "clear")
    <3>1. m \in Messages /\ outbox' = Append(outbox, m) /\ queue' = Tail(queue)
      BY <1>5, <2>2, HandleSends
    <3>2. m.request = Current /\ queue # <<>> /\ UNCHANGED reply
      BY <1>5 DEF Message, Handle, Stay
    <3> HIDE DEF m
    <3> QED
      BY <3>1, <3>2, MoveOnce
  <2> QED
    BY <2>1, <2>2
<1>6. CASE PublishAuditEvent
  <2>1. UNCHANGED <<queue, reply>>
    BY <1>6 DEF PublishAuditEvent, Stay
  <2>2. CASE UNCHANGED outbox
    BY <1>2, <2>1, <2>2
  <2>3. CASE ~ UNCHANGED outbox
    <3> DEFINE m == Message(Current, "audit", jwt, "clear")
    <3>1. m \in Messages /\ outbox' = Append(outbox, m)
      BY <1>6, <2>3, AuditSends
    <3>2. ~ IsAnswer(m)
      BY DEF Message, IsAnswer
    <3> HIDE DEF m
    <3>3. /\ outbox'[Len(outbox')] = m
          /\ \A i \in 1 .. Len(outbox) : outbox'[i] = outbox[i]
          /\ \A i \in 1 .. Len(outbox') : i \in 1 .. Len(outbox) \/ i = Len(outbox')
      BY <3>1, AppendType DEF TypeOK
    <3>4. \A i \in 1 .. Len(outbox') :
            IsAnswer(outbox'[i]) => i \in 1 .. Len(outbox) /\ outbox'[i] = outbox[i]
      BY <3>2, <3>3
    <3> QED
      BY <2>1, <3>4 DEF OnceInv, IsAnswer
  <2> QED
    BY <2>2, <2>3
<1>7. CASE Respond
  <2>1. PICK form \in {"sealed", "clear", "blank"} :
          /\ Send(form)
          /\ Message(Current, kind, IF kind = "granted" /\ form # "blank" THEN jwt ELSE NoJwt, form) \in Messages
    BY <1>7, RespondSends
  <2> DEFINE m == Message(Current, kind, IF kind = "granted" /\ form # "blank" THEN jwt ELSE NoJwt, form)
  <2>2. m \in Messages /\ m.request = Current /\ outbox' = Append(outbox, m) /\ queue' = Tail(queue)
    BY <2>1 DEF Message, Send
  <2>3. queue # <<>> /\ UNCHANGED reply
    BY <1>7 DEF Respond, RespondSealed, Stay, TypeOK
  <2> HIDE DEF m
  <2> QED
    BY <2>2, <2>3, MoveOnce
<1> QED
  BY <1>1, <1>2, <1>3, <1>4, <1>5, <1>6, <1>7, FlushOnce, QuietStep
     DEF Next, Quiet, Stop, PublishAuditEventPanics

\* What was live is remembered for as long as a request is pending.
LEMMA SeenStep ==
  ASSUME TypeOK, DraftInv, DownInv, OnceInv, SeenInv, [Next]_vars
  PROVE  SeenInv'
<1>1. phase # "idle" => Current \in Requests /\ reply[Current] = Pending
  BY CurrentPending DEF TypeOK
<1>2. phase # "idle" /\ phase' # "idle" => Current' = Current
  BY CurrentStays
<1>3. ASSUME NEW r \in Requests, Ask(r) PROVE SeenInv'
  <2>1. phase # "idle" => Current # r
    BY <1>1, <1>3, Distinct DEF Ask
  <2> QED
    BY <1>1, <1>2, <1>3, <2>1, Distinct DEF Ask, SeenInv, TypeOK
<1>4. CASE Reload
  <2>1. UNCHANGED <<reply, phase, snap>>
    BY <1>4 DEF Reload, world
  <2>2. \A r \in Requests : seen'[r] = IF reply[r] = Pending THEN seen[r] \cup {live'} ELSE seen[r]
    BY <1>4 DEF Reload, Outstanding
  <2> QED
    BY <1>1, <1>2, <2>1, <2>2 DEF SeenInv
<1>5. CASE Flush
  <2>1. UNCHANGED <<phase, snap, live, queue>>
    BY <1>5 DEF Flush
  <2>2. Head(outbox) \in Messages /\ Head(outbox) = outbox[1] /\ Len(outbox) \in Nat \ {0}
    BY <1>5, TailType DEF Flush, TypeOK
  <2>3. CASE UNCHANGED <<reply, seen>>
    BY <1>2, <2>1, <2>3 DEF SeenInv
  <2>4. CASE ~ UNCHANGED <<reply, seen>>
    <3> DEFINE m == Head(outbox)
    <3>1. /\ m.kind # "audit" /\ m.request \in Requests
          /\ reply' = [reply EXCEPT ![m.request] = Answer(m.kind, m.jwt, m.form)]
          /\ seen' = [seen EXCEPT ![m.request] = {}]
          /\ Answer(m.kind, m.jwt, m.form) # Pending
      BY <1>5, <2>2, <2>4, Distinct DEF Flush, Messages
    <3>2. phase # "idle" => Current # m.request
      BY <2>2, <3>1, CurrentPending DEF IsAnswer, TypeOK
    <3> HIDE DEF m
    <3> QED
      BY <1>1, <1>2, <2>1, <3>1, <3>2 DEF SeenInv, TypeOK
  <2> QED
    BY <2>3, <2>4
<1>6. ASSUME NEW why, Die(why) PROVE SeenInv'
  BY <1>6, Distinct DEF Die, Rest, Outstanding, SeenInv
<1>7. CASE Start
  BY <1>7 DEF Start, world, DownInv, Outstanding, SeenInv
<1>8. ASSUME UNCHANGED <<reply, seen, live>>,
             phase' \notin {"idle", "decoded"} => phase \notin {"idle", "decoded"} /\ UNCHANGED snap
      PROVE  SeenInv'
  BY <1>2, <1>8 DEF SeenInv
<1>9. CASE EnterCallback
  BY <1>1, <1>2, <1>9 DEF EnterCallback, EnterOrCount, Stay, SeenInv
<1>10. CASE Handle \/ PublishAuditEvent \/ UNCHANGED vars
  BY <1>8, <1>10 DEF Handle, PublishAuditEvent, Stay, vars, broker, world, past
<1>11. CASE RunVerification \/ Enrich \/ BuildUserClaims \/ RecordResult \/ ValidateAndSign
  BY <1>8, <1>11 DEF RunVerification, VerifyRound, Enrich, BuildUserClaims, BuildUnder,
                     RecordResult, ValidateAndSign, SignOrCount, Stay
<1>12. CASE Respond
  BY <1>8, <1>12 DEF Respond, RespondSealed, Send, Rest, Stay
<1> QED
  BY <1>3, <1>4, <1>5, <1>6, <1>7, <1>9, <1>10, <1>11, <1>12
     DEF Next, Stop, PublishAuditEventPanics

-----------------------------------------------------------------------------
(***************************************************************************)
(* What is in the outbox.                                                  *)
(***************************************************************************)

\* A message the handler may send about the request in hand.
Sendable(m) ==
  /\ m.request = Current
  /\ \/ m.kind = "audit" /\ m.jwt = jwt
     \/ m.kind = "rejected" /\ m.jwt = NoJwt
     \/ /\ phase = "responding" /\ m.kind = kind
        /\ m.jwt # NoJwt => kind = "granted" /\ m.jwt = jwt
        /\ kind = "granted" /\ m.form # "blank" => m.jwt = jwt
        /\ m.form # "blank" => m.form = (IF About[Current].xkey THEN "sealed" ELSE "clear")

\* The handler appends to the outbox, the connection takes from it.
LEMMA OutboxStep ==
  ASSUME TypeOK, DraftInv, [Next]_vars
  PROVE  \/ UNCHANGED outbox
         \/ outbox' = <<>> /\ phase' = "idle"
         \/ Flush
         \/ /\ queue # <<>> /\ UNCHANGED <<reply, seen>>
            /\ \E m \in Messages : Sendable(m) /\ outbox' = Append(outbox, m)
<1>1. CASE Handle
  <2> DEFINE m == Message(Current, "rejected", NoJwt, "clear")
  <2>1. Sendable(m)
    BY DEF Sendable, Message
  <2> HIDE DEF m
  <2>2. outbox' # outbox => m \in Messages /\ outbox' = Append(outbox, m)
    BY <1>1, HandleSends DEF m
  <2> QED
    BY <1>1, <2>1, <2>2 DEF Handle, Stay
<1>2. CASE PublishAuditEvent
  <2> DEFINE m == Message(Current, "audit", jwt, "clear")
  <2>1. Sendable(m)
    BY DEF Sendable, Message
  <2> HIDE DEF m
  <2>2. outbox' # outbox => m \in Messages /\ outbox' = Append(outbox, m)
    BY <1>2, AuditSends DEF m
  <2> QED
    BY <1>2, <2>1, <2>2 DEF PublishAuditEvent, Stay, TypeOK
<1>3. CASE Respond
  <2>1. PICK form \in {"sealed", "clear", "blank"} :
          /\ form # "blank" => form = (IF About[Current].xkey THEN "sealed" ELSE "clear")
          /\ Send(form)
          /\ Message(Current, kind, IF kind = "granted" /\ form # "blank" THEN jwt ELSE NoJwt, form) \in Messages
    BY <1>3, RespondSends
  <2> DEFINE m == Message(Current, kind, IF kind = "granted" /\ form # "blank" THEN jwt ELSE NoJwt, form)
  <2>2. m \in Messages /\ outbox' = Append(outbox, m)
    BY <2>1 DEF Send
  <2>3. Sendable(m)
    BY <1>3, <2>1 DEF Sendable, Message, Respond, RespondSealed
  <2> HIDE DEF m
  <2>4. queue # <<>> /\ UNCHANGED <<reply, seen>>
    BY <1>3 DEF Respond, RespondSealed, Stay, TypeOK
  <2> QED
    BY <2>2, <2>3, <2>4
<1>4. ASSUME NEW r \in Requests, Ask(r) PROVE UNCHANGED outbox
  BY <1>4 DEF Ask
<1>5. Reload \/ Start \/ UNCHANGED vars => UNCHANGED outbox
  BY DEF Reload, Start, vars, broker
<1>6. ASSUME NEW why, Die(why) PROVE outbox' = <<>> /\ phase' = "idle"
  BY <1>6 DEF Die, Rest
<1> QED
  BY <1>1, <1>2, <1>3, <1>4, <1>5, <1>6, QuietStep
     DEF Next, Quiet, Stop, PublishAuditEventPanics

\* Until it is answered or lost, nothing of what a request has seen is forgotten.
LEMMA SeenGrows ==
  ASSUME TypeOK, DownInv, [Next]_vars, ~ Flush, outbox' # <<>>,
         NEW r \in Requests, reply[r] = Pending
  PROVE  seen[r] \subseteq seen'[r]
<1>1. ASSUME NEW x \in Requests, Ask(x) PROVE seen[r] \subseteq seen'[r]
  BY <1>1, Distinct DEF Ask, TypeOK
<1>2. CASE Reload
  BY <1>2 DEF Reload
<1>3. CASE UNCHANGED seen
  BY <1>3
<1>4. Start \/ Handle \/ PublishAuditEvent \/ Respond \/ UNCHANGED vars => UNCHANGED seen
  BY DEF Start, Handle, PublishAuditEvent, Respond, RespondSealed, Stay, vars, past
<1>5. ASSUME NEW why, Die(why) PROVE FALSE
  BY <1>5 DEF Die
<1> QED
  BY <1>1, <1>2, <1>3, <1>4, <1>5, QuietStep
     DEF Next, Quiet, Stop, PublishAuditEventPanics

\* A draft that is granted is one its request is entitled to.
LEMMA GrantEntitled ==
  ASSUME TypeOK, DraftInv, Granting
  PROVE  jwt \in EntitledTo(Current, snap)
<1>1. jwt \in Jwts
  BY DraftIsJwt DEF Built
<1> QED
  BY <1>1 DEF DraftInv, Granting, Verified, Enriched, Built, EntitledTo

\* Every answer on its way is one the request is entitled to.
LEMMA EntitledStep ==
  ASSUME TypeOK, DraftInv, DownInv, OnceInv, SeenInv, EntitledInv, [Next]_vars
  PROVE  EntitledInv'
<1>1. \A i \in 1 .. Len(outbox) :
        outbox[i].request \in Requests /\ (IsAnswer(outbox[i]) => reply[outbox[i].request] = Pending)
  BY ElementOfSeq DEF TypeOK, Messages, OnceInv
<1>2. CASE outbox' = <<>>
  BY <1>2, EmptySeq DEF EntitledInv
<1>3. CASE UNCHANGED outbox /\ ~ Flush /\ outbox' # <<>>
  <2>1. \A i \in 1 .. Len(outbox) :
          IsAnswer(outbox[i]) => seen[outbox[i].request] \subseteq seen'[outbox[i].request]
    BY <1>1, <1>3, SeenGrows
  <2> QED
    BY <1>3, <2>1 DEF EntitledInv, IsAnswer, EntitledTo
<1>4. CASE Flush
  <2>1. /\ Head(outbox) = outbox[1] /\ 1 \in 1 .. Len(outbox)
        /\ \A i \in 1 .. Len(outbox') : i + 1 \in 2 .. Len(outbox) /\ outbox'[i] = outbox[i + 1]
    BY <1>4, TailType DEF Flush, TypeOK
  <2>2. ASSUME NEW i \in 1 .. Len(outbox'), IsAnswer(outbox'[i])
        PROVE  seen'[outbox'[i].request] = seen[outbox'[i].request]
    <3>1. i + 1 \in 1 .. Len(outbox) /\ i + 1 # 1 /\ outbox'[i] = outbox[i + 1]
      BY <2>1
    <3>2. IsAnswer(outbox[1]) => outbox[i + 1].request # outbox[1].request
      BY <2>1, <2>2, <3>1 DEF OnceInv
    <3>3. outbox[i + 1].request \in Requests
      BY <1>1, <3>1
    <3> QED
      BY <1>4, <2>1, <3>1, <3>2, <3>3 DEF Flush, IsAnswer, TypeOK
  <2>3. ASSUME NEW i \in 1 .. Len(outbox'), IsAnswer(outbox'[i]), outbox'[i].jwt # NoJwt
        PROVE  \E c \in seen'[outbox'[i].request] : outbox'[i].jwt \in EntitledTo(outbox'[i].request, c)
    <3>1. i + 1 \in 1 .. Len(outbox) /\ outbox'[i] = outbox[i + 1]
      BY <2>1
    <3> QED
      BY <2>2, <2>3, <3>1 DEF EntitledInv
  <2> QED
    BY <2>3 DEF EntitledInv, IsAnswer, EntitledTo
<1>5. ASSUME queue # <<>>, UNCHANGED <<reply, seen>>,
             NEW m \in Messages, Sendable(m), outbox' = Append(outbox, m)
      PROVE  EntitledInv'
  <2>1. /\ \A i \in 1 .. Len(outbox) : outbox'[i] = outbox[i]
        /\ outbox'[Len(outbox')] = m
        /\ \A i \in 1 .. Len(outbox') : i \in 1 .. Len(outbox) \/ i = Len(outbox')
    BY <1>5, AppendType DEF TypeOK
  <2>2. IsAnswer(m) /\ m.jwt # NoJwt => \E c \in seen[m.request] : m.jwt \in EntitledTo(m.request, c)
    <3>1. IsAnswer(m) /\ m.jwt # NoJwt => Granting /\ m.jwt = jwt /\ m.request = Current
      BY <1>5 DEF Sendable, Granting, IsAnswer
    <3>2. Granting => snap \in seen[Current]
      BY DEF Granting, SeenInv
    <3> QED
      BY <3>1, <3>2, GrantEntitled
  <2>3. ASSUME NEW i \in 1 .. Len(outbox'), IsAnswer(outbox'[i]), outbox'[i].jwt # NoJwt
        PROVE  \E c \in seen'[outbox'[i].request] : outbox'[i].jwt \in EntitledTo(outbox'[i].request, c)
    BY <1>5, <2>1, <2>2, <2>3 DEF EntitledInv
  <2> QED
    BY <2>3 DEF EntitledInv, IsAnswer, EntitledTo
<1> QED
  BY <1>2, <1>3, <1>4, <1>5, OutboxStep

\* Every answer on its way is sealed as its request was.
LEMMA SealStep ==
  ASSUME TypeOK, DraftInv, SealInv, [Next]_vars
  PROVE  SealInv'
<1>1. CASE outbox' = <<>>
  BY <1>1, EmptySeq DEF SealInv
<1>2. CASE UNCHANGED outbox
  BY <1>2 DEF SealInv, IsAnswer
<1>3. CASE Flush
  <2>1. \A i \in 1 .. Len(outbox') : i + 1 \in 1 .. Len(outbox) /\ outbox'[i] = outbox[i + 1]
    BY <1>3, TailType DEF Flush, TypeOK
  <2> QED
    BY <2>1 DEF SealInv, IsAnswer
<1>4. ASSUME NEW m \in Messages, Sendable(m), outbox' = Append(outbox, m) PROVE SealInv'
  <2>1. /\ \A i \in 1 .. Len(outbox) : outbox'[i] = outbox[i]
        /\ outbox'[Len(outbox')] = m
        /\ \A i \in 1 .. Len(outbox') : i \in 1 .. Len(outbox) \/ i = Len(outbox')
    BY <1>4, AppendType DEF TypeOK
  <2>2. IsAnswer(m) /\ m.kind # "rejected" /\ m.form # "blank" =>
          m.form = (IF About[m.request].xkey THEN "sealed" ELSE "clear")
    BY <1>4 DEF Sendable, IsAnswer
  <2> QED
    BY <2>1, <2>2 DEF SealInv, IsAnswer
<1> QED
  BY <1>1, <1>2, <1>3, <1>4, OutboxStep

\* What has been published or given up stays so.
LEMMA TraceGrows ==
  ASSUME [Next]_vars
  PROVE  stream \subseteq stream' /\ unaudited \subseteq unaudited'
<1>1. ASSUME NEW r \in Requests, Ask(r) PROVE UNCHANGED <<stream, unaudited>>
  BY <1>1 DEF Ask
<1>2. ASSUME NEW why, Die(why) PROVE UNCHANGED <<stream, unaudited>>
  BY <1>2 DEF Die
<1>3. Reload \/ Start \/ Handle \/ Respond \/ UNCHANGED vars => UNCHANGED <<stream, unaudited>>
  BY DEF Reload, Start, Handle, Respond, RespondSealed, Stay, world, past, vars
<1>4. Flush \/ PublishAuditEvent => stream \subseteq stream' /\ unaudited \subseteq unaudited'
  BY DEF Flush, PublishAuditEvent, Stay
<1> QED
  BY <1>1, <1>2, <1>3, <1>4, QuietStep DEF Next, Quiet, Stop, PublishAuditEventPanics

\* What was traced stays traced as the outbox grows ...
LEMMA TracedAppend ==
  ASSUME [Next]_vars, NEW n \in Nat, NEW k \in Nat, n <= k, NEW r, NEW j,
         \A i \in 1 .. n : outbox'[i] = outbox[i],
         TracedIn(stream, unaudited, outbox, r, j, n)
  PROVE  TracedIn(stream', unaudited', outbox', r, j, k)
<1>1. stream \subseteq stream' /\ unaudited \subseteq unaudited'
  BY TraceGrows
<1>2. \A i \in 1 .. n : i \in 1 .. k
  OBVIOUS
<1> QED
  BY <1>1, <1>2 DEF TracedIn

\* ... and as its first message arrives.
LEMMA TracedFlush ==
  ASSUME TypeOK, [Next]_vars, Flush,
         NEW n \in 1 .. Len(outbox), NEW r, NEW j,
         TracedIn(stream, unaudited, outbox, r, j, n)
  PROVE  TracedIn(stream', unaudited', outbox', r, j, n - 1)
<1>1. stream \subseteq stream' /\ unaudited \subseteq unaudited'
  BY TraceGrows
<1>2. /\ Head(outbox) = outbox[1] /\ Len(outbox) \in Nat
      /\ Len(outbox') = Len(outbox) - 1
      /\ \A i \in 1 .. Len(outbox') : outbox'[i] = outbox[i + 1]
  BY TailType DEF Flush, TypeOK
<1>3. ASSUME NEW i \in 1 .. n, ~ IsAnswer(outbox[i]), outbox[i].request = r, outbox[i].jwt = j
      PROVE  TracedIn(stream', unaudited', outbox', r, j, n - 1)
  <2>1. CASE i = 1
    BY <1>2, <1>3, <2>1 DEF Flush, IsAnswer, TracedIn
  <2>2. CASE i # 1
    <3>1. i - 1 \in 1 .. n - 1 /\ outbox'[i - 1] = outbox[i]
      BY <1>2, <2>2
    <3> QED
      BY <1>3, <3>1 DEF TracedIn
  <2> QED
    BY <2>1, <2>2
<1> QED
  BY <1>1, <1>3 DEF TracedIn

\* Claims that were audited before the step are audited after it.
LEMMA AuditedStep ==
  ASSUME [Next]_vars, Audited', ~ PublishAuditEvent
  PROVE  Audited /\ UNCHANGED jwt
<1> USE DEF Audited, Granting
<1>1. ASSUME NEW r \in Requests, Ask(r) PROVE Audited /\ UNCHANGED jwt
  BY <1>1 DEF Ask
<1>2. CASE Reload \/ Flush \/ Start \/ UNCHANGED vars
  BY <1>2 DEF Reload, Flush, Start, vars, broker
<1>3. CASE RecordResult \/ ValidateAndSign
  BY <1>3 DEF RecordResult, ValidateAndSign, SignOrCount, Conclude
<1>4. ~ Rest
  BY DEF Rest
<1>5. ~ Handle
  BY DEF Handle
<1>6. ~ EnterCallback /\ ~ Enrich
  BY DEF EnterCallback, EnterOrCount, Enrich, Conclude
<1>7. ~ RunVerification
  BY DEF RunVerification, VerifyRound, Fail, Conclude
<1>8. ~ BuildUserClaims
  BY DEF BuildUserClaims, BuildUnder, Fail, Conclude
<1> QED
  BY <1>1, <1>2, <1>3, <1>4, <1>5, <1>6, <1>7, <1>8
     DEF Next, Stop, PublishAuditEventPanics, Die, Respond, RespondSealed, Send

\* A grant has been preceded by its audit event.
LEMMA TraceStep ==
  ASSUME TypeOK, DraftInv, TraceInv, [Next]_vars
  PROVE  TraceInv'
<1> USE DEF Traced
<1>1. outbox \in Seq(Messages) /\ Len(outbox) \in Nat
  BY EmptySeq DEF TypeOK
<1>2. ASSUME Audited' PROVE TracedIn(stream', unaudited', outbox', Current', jwt', Len(outbox'))
  <2>1. CASE PublishAuditEvent
    <3>1. Current' = Current /\ UNCHANGED jwt
      BY <2>1, CurrentStays DEF PublishAuditEvent
    <3>2. CASE Current \in unaudited'
      BY <3>1, <3>2 DEF TracedIn
    <3>3. CASE Current \notin unaudited'
      <4> DEFINE m == Message(Current, "audit", jwt, "clear")
      <4>1. m \in Messages /\ outbox' = Append(outbox, m)
        <5>1. outbox' = Append(outbox, m)
          BY <2>1, <3>3 DEF PublishAuditEvent
        <5>2. outbox' # outbox
          <6> HIDE DEF m
          <6> QED
            BY <1>1, <5>1
        <5> QED
          BY <2>1, <5>1, <5>2, AuditSends
      <4>2. ~ IsAnswer(m) /\ m.request = Current /\ m.jwt = jwt
        BY DEF Message, IsAnswer
      <4> HIDE DEF m
      <4>3. outbox'[Len(outbox')] = m /\ Len(outbox') \in Nat \ {0}
        BY <1>1, <4>1, AppendType
      <4> QED
        BY <3>1, <4>2, <4>3 DEF TracedIn
    <3> QED
      BY <3>2, <3>3
  <2>2. CASE ~ PublishAuditEvent
    <3>1. Audited /\ UNCHANGED jwt /\ phase # "idle" /\ phase' # "idle"
      BY <1>2, <2>2, AuditedStep DEF Audited, Granting
    <3>2. Current' = Current
      BY <3>1, CurrentStays
    <3>3. TracedIn(stream, unaudited, outbox, Current, jwt, Len(outbox))
      BY <3>1 DEF TraceInv
    <3>4. CASE Flush
      <4>1. Len(outbox) \in 1 .. Len(outbox) /\ Len(outbox') = Len(outbox) - 1
        BY <1>1, <3>4, TailType DEF Flush
      <4> QED
        BY <3>1, <3>2, <3>3, <3>4, <4>1, TracedFlush
    <3>5. CASE UNCHANGED outbox
      BY <1>1, <3>1, <3>2, <3>3, <3>5, TracedAppend
    <3>6. ASSUME NEW m \in Messages, outbox' = Append(outbox, m)
          PROVE  TracedIn(stream', unaudited', outbox', Current', jwt', Len(outbox'))
      <4>1. /\ Len(outbox') \in Nat /\ Len(outbox) <= Len(outbox')
            /\ \A i \in 1 .. Len(outbox) : outbox'[i] = outbox[i]
        BY <1>1, <3>6, AppendType
      <4> QED
        BY <1>1, <3>1, <3>2, <3>3, <4>1, TracedAppend
    <3> QED
      BY <3>1, <3>4, <3>5, <3>6, OutboxStep
  <2> QED
    BY <2>1, <2>2
<1>3. ASSUME NEW i \in 1 .. Len(outbox'), outbox'[i].kind = "granted", outbox'[i].form # "blank"
      PROVE  TracedIn(stream', unaudited', outbox', outbox'[i].request, outbox'[i].jwt, i - 1)
  <2>1. ASSUME i \in 1 .. Len(outbox), \A n \in 1 .. i : outbox'[n] = outbox[n]
        PROVE  TracedIn(stream', unaudited', outbox', outbox'[i].request, outbox'[i].jwt, i - 1)
    <3>1. TracedIn(stream, unaudited, outbox, outbox'[i].request, outbox'[i].jwt, i - 1)
      BY <1>3, <2>1 DEF TraceInv
    <3>2. i - 1 \in Nat /\ i - 1 <= i - 1 /\ \A n \in 1 .. i - 1 : n \in 1 .. i
      BY <1>1, <2>1
    <3>3. \A n \in 1 .. i - 1 : outbox'[n] = outbox[n]
      BY <2>1, <3>2
    <3> QED
      BY <3>1, <3>2, <3>3, TracedAppend
  <2>2. CASE outbox' = <<>>
    BY <2>2, EmptySeq
  <2>3. CASE UNCHANGED outbox
    BY <2>1, <2>3
  <2>4. CASE Flush
    <3>1. i + 1 \in 2 .. Len(outbox) /\ outbox'[i] = outbox[i + 1]
      BY <1>1, <2>4, TailType DEF Flush
    <3>2. TracedIn(stream, unaudited, outbox, outbox'[i].request, outbox'[i].jwt, (i + 1) - 1)
      BY <1>1, <1>3, <3>1 DEF TraceInv
    <3>3. i \in 1 .. Len(outbox) /\ (i + 1) - 1 = i
      BY <1>1, <3>1
    <3> QED
      BY <2>4, <3>2, <3>3, TracedFlush
  <2>5. ASSUME NEW m \in Messages, Sendable(m), outbox' = Append(outbox, m)
        PROVE  TracedIn(stream', unaudited', outbox', outbox'[i].request, outbox'[i].jwt, i - 1)
    <3>1. /\ Len(outbox') = Len(outbox) + 1 /\ outbox'[Len(outbox')] = m
          /\ \A n \in 1 .. Len(outbox) : outbox'[n] = outbox[n]
          /\ i \in 1 .. Len(outbox) \/ i = Len(outbox')
      BY <1>1, <2>5, AppendType
    <3>2. CASE i \in 1 .. Len(outbox)
      BY <1>1, <2>1, <3>1, <3>2
    <3>3. CASE i = Len(outbox')
      <4>1. Audited /\ m.request = Current /\ m.jwt = jwt
        BY <1>3, <2>5, <3>1, <3>3 DEF Sendable, Audited, Granting
      <4>2. TracedIn(stream, unaudited, outbox, m.request, m.jwt, Len(outbox))
        BY <4>1 DEF TraceInv
      <4> QED
        BY <1>1, <3>1, <3>3, <4>2, TracedAppend
    <3> QED
      BY <3>1, <3>2, <3>3
  <2> QED
    BY <2>2, <2>3, <2>4, <2>5, OutboxStep
<1> QED
  BY <1>2, <1>3 DEF TraceInv

-----------------------------------------------------------------------------
(***************************************************************************)
(* The metrics.                                                            *)
(***************************************************************************)

\* Finitely many requests were handled, the one in hand among them.
LEMMA ServedStep ==
  ASSUME TypeOK, DownInv, ServedInv, [Next]_vars
  PROVE  ServedInv'
<1>1. phase # "idle" /\ phase' # "idle" => Current' = Current
  BY CurrentStays
<1>2. CASE Handle
  <2>1. served' = served \cup {Current} /\ IsFiniteSet(served')
    BY <1>2, FS_AddElement DEF Handle, ServedInv
  <2>2. phase' # "idle" => UNCHANGED queue
    BY <1>2 DEF Handle
  <2> QED
    BY <2>1, <2>2 DEF ServedInv, Current
<1>3. CASE Start
  BY <1>3, FS_EmptySet DEF Start, DownInv, ServedInv
<1>4. ASSUME UNCHANGED served, phase' # "idle" => phase # "idle" PROVE ServedInv'
  BY <1>1, <1>4 DEF ServedInv
<1>5. Reload \/ Flush \/ PublishAuditEvent \/ Respond \/ UNCHANGED vars \/ (\E r \in Requests : Ask(r)) =>
        UNCHANGED served /\ (phase' # "idle" => phase # "idle")
  BY DEF Reload, Flush, PublishAuditEvent, Respond, RespondSealed, Ask, vars, past, broker
<1>6. ASSUME NEW why, Die(why) PROVE UNCHANGED served /\ phase' = "idle"
  BY <1>6 DEF Die, Rest
<1> QED
  BY <1>2, <1>3, <1>4, <1>5, <1>6, QuietStep DEF Next, Quiet, Stop, PublishAuditEventPanics

\* The requests handled since the process started that were told k.
Told(k) ==
  {r \in served :
    \/ reply[r].kind = k
    \/ \E i \in 1 .. Len(outbox) : outbox[i].request = r /\ outbox[i].kind = k}

\* How many they are.
LEMMA SaidType ==
  ASSUME ServedInv
  PROVE  \A k \in Kinds : Said(k) = Cardinality(Told(k)) /\ IsFiniteSet(Told(k)) /\ Said(k) \in Nat
<1> SUFFICES ASSUME NEW k \in Kinds
             PROVE  Said(k) = Cardinality(Told(k)) /\ IsFiniteSet(Told(k)) /\ Said(k) \in Nat
  OBVIOUS
<1>1. Said(k) = Cardinality(Told(k))
  BY DEF Said, Told
<1>2. Told(k) \subseteq served
  BY DEF Told
<1>3. IsFiniteSet(Told(k))
  BY <1>2, FS_Subset DEF ServedInv
<1> QED
  BY <1>1, <1>3, FS_CardinalityType

\* What is flushed has been told before.
LEMMA ToldFlush ==
  ASSUME TypeOK, OnceInv, Flush, NEW k \in Kinds
  PROVE  Told(k)' = Told(k)
<1>1. /\ Head(outbox) \in Messages /\ Head(outbox) = outbox[1]
      /\ Len(outbox) \in Nat \ {0} /\ Len(outbox') = Len(outbox) - 1
      /\ \A i \in 1 .. Len(outbox') : i + 1 \in 2 .. Len(outbox) /\ outbox'[i] = outbox[i + 1]
  BY TailType DEF Flush, TypeOK
<1>2. served \subseteq Requests /\ UNCHANGED served
  BY DEF Flush, TypeOK
<1>3. \A i \in 2 .. Len(outbox) : i - 1 \in 1 .. Len(outbox') /\ outbox'[i - 1] = outbox[i]
  BY <1>1
<1>4. ASSUME NEW r \in served
      PROVE  (\E i \in 1 .. Len(outbox') : outbox'[i].request = r /\ outbox'[i].kind = k) <=>
             (\E i \in 2 .. Len(outbox) : outbox[i].request = r /\ outbox[i].kind = k)
  <2>1. ASSUME NEW i \in 1 .. Len(outbox'), outbox'[i].request = r, outbox'[i].kind = k
        PROVE  \E n \in 2 .. Len(outbox) : outbox[n].request = r /\ outbox[n].kind = k
    <3>1. i + 1 \in 2 .. Len(outbox) /\ outbox[i + 1].request = r /\ outbox[i + 1].kind = k
      BY <1>1, <2>1
    <3> QED
      BY <3>1
  <2>2. ASSUME NEW i \in 2 .. Len(outbox), outbox[i].request = r, outbox[i].kind = k
        PROVE  \E n \in 1 .. Len(outbox') : outbox'[n].request = r /\ outbox'[n].kind = k
    <3>1. i - 1 \in 1 .. Len(outbox') /\ outbox'[i - 1].request = r /\ outbox'[i - 1].kind = k
      BY <1>3, <2>2
    <3> QED
      BY <3>1
  <2> QED
    BY <2>1, <2>2
<1>5. ASSUME NEW r \in served
      PROVE  (reply'[r].kind = k \/ \E i \in 2 .. Len(outbox) : outbox[i].request = r /\ outbox[i].kind = k) <=>
             (reply[r].kind = k \/ \E i \in 1 .. Len(outbox) : outbox[i].request = r /\ outbox[i].kind = k)
  <2>1. CASE reply'[r] = reply[r] /\ outbox[1].request # r
    BY <1>1, <2>1
  <2>2. CASE outbox[1].request = r /\ IsAnswer(outbox[1])
    <3>1. reply[r] = Pending /\ reply[r].kind # k
      BY <1>1, <2>2 DEF OnceInv, Pending, Answer, Kinds
    <3>2. \A i \in 2 .. Len(outbox) : outbox[i].request = r => outbox[i].kind # k
      BY <1>1, <2>2 DEF OnceInv, IsAnswer, Kinds
    <3>3. reply'[r].kind = outbox[1].kind
      BY <1>1, <1>2, <2>2 DEF Flush, TypeOK, IsAnswer, Answer
    <3> QED
      BY <1>1, <2>2, <3>1, <3>2, <3>3
  <2>3. CASE ~ IsAnswer(outbox[1])
    BY <1>1, <2>3 DEF Flush, IsAnswer, Kinds
  <2>4. r # outbox[1].request => reply'[r] = reply[r]
    BY <1>1, <1>2 DEF Flush, TypeOK
  <2> QED
    BY <2>1, <2>2, <2>3, <2>4
<1> QED
  BY <1>2, <1>4, <1>5 DEF Told

\* The steps that answer no request.
Silent ==
  \/ \E r \in Requests : Ask(r)
  \/ Reload \/ Flush \/ Quiet \/ PublishAuditEvent \/ UNCHANGED vars
  \/ Handle /\ UNCHANGED <<queue, outbox>>

\* They tell nobody anything new.
LEMMA ToldSame ==
  ASSUME TypeOK, DraftInv, OnceInv, Silent, NEW k \in Kinds
  PROVE  Told(k)' = Told(k)
<1>1. served \subseteq Requests /\ reply \in [Requests -> Replies]
  BY DEF TypeOK
<1>2. CASE Flush
  BY <1>2, ToldFlush
<1>3. ASSUME NEW r \in Requests, Ask(r) PROVE Told(k)' = Told(k)
  <2>1. /\ UNCHANGED <<served, outbox>> /\ reply[r] = Unasked
        /\ reply' = [reply EXCEPT ![r] = Pending] \/ reply' = [reply EXCEPT ![r] = Lost]
    BY <1>3 DEF Ask
  <2>2. \A x \in served : reply'[x].kind = k <=> reply[x].kind = k
    BY <1>1, <2>1 DEF Unasked, Pending, Lost, Answer, Kinds
  <2> QED
    BY <2>1, <2>2 DEF Told
<1>4. CASE UNCHANGED <<served, outbox, reply>>
  BY <1>4 DEF Told
<1>5. Reload \/ UNCHANGED vars => UNCHANGED <<served, outbox, reply>>
  BY DEF Reload, vars, broker, world, past
<1>6. CASE Handle /\ UNCHANGED <<queue, outbox>>
  <2>1. queue # <<>> /\ served' = served \cup {Current} /\ UNCHANGED <<outbox, reply>>
    BY <1>6 DEF Handle, Stay
  <2>2. reply[Current].kind # k
    BY <2>1, CurrentPending DEF Pending, Answer, Kinds
  <2>3. \A i \in 1 .. Len(outbox) : outbox[i].request = Current => outbox[i].kind # k
    BY <2>1, CurrentPending DEF IsAnswer, Kinds
  <2> QED
    BY <2>1, <2>2, <2>3 DEF Told
<1>7. CASE PublishAuditEvent
  <2>1. UNCHANGED <<served, reply>>
    BY <1>7 DEF PublishAuditEvent, Stay
  <2>2. CASE UNCHANGED outbox
    BY <1>4, <2>1, <2>2
  <2>3. CASE ~ UNCHANGED outbox
    <3> DEFINE m == Message(Current, "audit", jwt, "clear")
    <3>1. m \in Messages /\ outbox' = Append(outbox, m)
      BY <1>7, <2>3, AuditSends
    <3>2. m.kind # k
      BY DEF Message, Kinds
    <3> HIDE DEF m
    <3>3. /\ outbox'[Len(outbox')] = m /\ Len(outbox) \in Nat /\ Len(outbox') = Len(outbox) + 1
          /\ \A i \in 1 .. Len(outbox) : outbox'[i] = outbox[i]
          /\ \A i \in 1 .. Len(outbox') : i \in 1 .. Len(outbox) \/ i = Len(outbox')
      BY <3>1, AppendType DEF TypeOK
    <3> QED
      BY <2>1, <3>2, <3>3 DEF Told
  <2> QED
    BY <2>2, <2>3
<1> QED
  BY <1>2, <1>3, <1>4, <1>5, <1>6, <1>7, QuietStep DEF Silent

\* An answer tells one request more what it says.
LEMMA ToldOne ==
  ASSUME TypeOK, OnceInv, queue # <<>>, UNCHANGED reply, served' = served \cup {Current},
         NEW m \in Messages, m.kind \in Kinds, m.request = Current, outbox' = Append(outbox, m)
  PROVE  /\ Told(m.kind)' = Told(m.kind) \cup {Current} /\ Current \notin Told(m.kind)
         /\ \A k \in Kinds \ {m.kind} : Told(k)' = Told(k)
<1>1. /\ outbox'[Len(outbox')] = m /\ Len(outbox) \in Nat /\ Len(outbox') = Len(outbox) + 1
      /\ \A i \in 1 .. Len(outbox) : outbox'[i] = outbox[i]
      /\ \A i \in 1 .. Len(outbox') : i \in 1 .. Len(outbox) \/ i = Len(outbox')
  BY AppendType DEF TypeOK
<1>2. Len(outbox') \in 1 .. Len(outbox')
  BY <1>1
<1>3. \A k \in Kinds : reply[Current].kind # k
  BY CurrentPending DEF Pending, Answer, Kinds
<1>4. \A k \in Kinds, i \in 1 .. Len(outbox) : outbox[i].request = Current => outbox[i].kind # k
  BY CurrentPending DEF IsAnswer, Kinds
<1>5. \A k \in Kinds : Current \notin Told(k)
  BY <1>3, <1>4 DEF Told
<1>6. Told(m.kind)' = Told(m.kind) \cup {Current}
  BY <1>1, <1>2 DEF Told
<1>7. ASSUME NEW k \in Kinds \ {m.kind} PROVE Told(k)' = Told(k)
  BY <1>1, <1>3, <1>4 DEF Told
<1> QED
  BY <1>5, <1>6, <1>7

\* Who was told what is counted anew in a process that starts.
LEMMA SaidNothing ==
  ASSUME Start
  PROVE  \A k \in Kinds : Said(k)' = 0
<1> SUFFICES ASSUME NEW k \in Kinds PROVE Said(k)' = 0
  OBVIOUS
<1>1. served' = {}
  BY DEF Start
<1>2. {r \in served' :
         \/ reply'[r].kind = k
         \/ \E i \in 1 .. Len(outbox') : outbox'[i].request = r /\ outbox'[i].kind = k} = {}
  BY <1>1
<1> QED
  BY <1>2, FS_EmptySet DEF Said

\* The number told something stays the same ...
LEMMA SaidSame ==
  ASSUME TypeOK, DraftInv, OnceInv, Silent
  PROVE  \A k \in Kinds : Said(k)' = Said(k)
<1> SUFFICES ASSUME NEW k \in Kinds PROVE Said(k)' = Said(k)
  OBVIOUS
<1>1. Told(k)' = Told(k)
  BY ToldSame
<1>2. Cardinality(Told(k))' = Cardinality(Told(k))
  BY <1>1
<1> QED
  BY <1>2 DEF Said, Told

\* ... or grows by one, for what an answer says.
LEMMA SaidOne ==
  ASSUME TypeOK, OnceInv, ServedInv, queue # <<>>, UNCHANGED reply, served' = served \cup {Current},
         NEW m \in Messages, m.kind \in Kinds, m.request = Current, outbox' = Append(outbox, m)
  PROVE  /\ Said(m.kind)' = Said(m.kind) + 1
         /\ \A k \in Kinds \ {m.kind} : Said(k)' = Said(k)
<1>1. /\ Told(m.kind)' = Told(m.kind) \cup {Current} /\ Current \notin Told(m.kind)
      /\ \A k \in Kinds \ {m.kind} : Told(k)' = Told(k)
  BY ToldOne
<1>2. IsFiniteSet(Told(m.kind))
  BY SaidType
<1>3. Cardinality(Told(m.kind) \cup {Current}) = Cardinality(Told(m.kind)) + 1
  BY <1>1, <1>2, FS_AddElement
<1>4. Said(m.kind) = Cardinality(Told(m.kind)) /\ Said(m.kind)' = Cardinality(Told(m.kind)')
  BY DEF Said, Told
<1>5. ASSUME NEW k \in Kinds \ {m.kind} PROVE Said(k)' = Said(k)
  <2>1. Said(k) = Cardinality(Told(k)) /\ Said(k)' = Cardinality(Told(k)')
    BY DEF Said, Told
  <2> QED
    BY <1>1, <2>1
<1> QED
  BY <1>1, <1>3, <1>4, <1>5

\* Every step that answers, counts; every step that counts, answers.
LEMMA BooksStep ==
  ASSUME TypeOK, GaugeInv, DraftInv, DownInv, OnceInv, ServedInv, BooksBalance, [Next]_vars
  PROVE  BooksBalance'
<1>1. count \in [Counters -> Nat]
  BY DEF TypeOK
<1>2. /\ Said("rejected") \in Nat /\ Said("refused") \in Nat
      /\ Said("unsigned") \in Nat /\ Said("granted") \in Nat
  BY SaidType DEF Kinds
<1>3. GaugeInv'
  BY GaugeStep
<1>4. SUFFICES ASSUME up' PROVE BooksBalance'
  BY DEF BooksBalance
<1>5. CASE Start
  <2>1. /\ Said("rejected")' = 0 /\ Said("refused")' = 0
        /\ Said("unsigned")' = 0 /\ Said("granted")' = 0
    BY <1>5, SaidNothing DEF Kinds
  <2>2. phase' = "idle" /\ count' = Zero
    BY <1>5 DEF Start, DownInv
  <2> QED
    BY <2>1, <2>2 DEF BooksBalance, Zero, Counters, One, InCallback
<1>6. ASSUME Silent
      PROVE  /\ Said("rejected")' = Said("rejected") /\ Said("refused")' = Said("refused")
             /\ Said("unsigned")' = Said("unsigned") /\ Said("granted")' = Said("granted")
  BY <1>6, SaidSame DEF Kinds
<1>7. ASSUME Silent, UNCHANGED <<up, keys, kind, count>>,
             UNCHANGED phase \/ {phase, phase'} \subseteq Phases \ {"responding", "recorded"}
      PROVE  BooksBalance'
  <2>1. One(phase' = "responding" /\ kind' = "refused") = One(phase = "responding" /\ kind = "refused")
    BY <1>7
  <2>2. One(phase' = "responding" /\ kind' = "unsigned") = One(phase = "responding" /\ kind = "unsigned")
    BY <1>7
  <2>3. One(phase' = "recorded" \/ (phase' = "responding" /\ kind' # "refused"))
          = One(phase = "recorded" \/ (phase = "responding" /\ kind # "refused"))
    BY <1>7
  <2> QED
    BY <1>3, <1>4, <1>6, <1>7, <2>1, <2>2, <2>3 DEF BooksBalance, GaugeInv
<1>8. ASSUME NEW r \in Requests, Ask(r) PROVE BooksBalance'
  BY <1>7, <1>8 DEF Ask, Silent
<1>9. CASE Reload \/ Flush \/ UNCHANGED vars
  BY <1>7, <1>9 DEF Reload, Flush, Silent, vars, broker
<1>10. CASE Enrich \/ PublishAuditEvent
  BY <1>7, <1>10 DEF Enrich, PublishAuditEvent, Stay, Silent, Quiet, Phases
<1>11. CASE Handle
  <2>1. CASE UNCHANGED <<queue, outbox>>
    <3>1. UNCHANGED count
      <4>1. queue' # Tail(queue)
        <5>1. queue \in Seq(Requests) /\ queue # <<>>
          BY <1>11 DEF Handle, TypeOK
        <5> QED
          BY <2>1, <5>1, HeadTailProperties, EmptySeq
      <4> QED
        BY <1>11, <4>1 DEF Handle
    <3> QED
      BY <1>7, <1>11, <2>1, <3>1 DEF Handle, Stay, Silent, TypeOK, Phases
  <2>2. CASE ~ UNCHANGED <<queue, outbox>>
    <3> DEFINE m == Message(Current, "rejected", NoJwt, "clear")
    <3>1. m \in Messages /\ outbox' = Append(outbox, m) /\ UNCHANGED phase
      BY <1>11, <2>2, HandleSends
    <3>2. m.request = Current /\ m.kind = "rejected"
      BY DEF Message
    <3> HIDE DEF m
    <3>3. /\ queue # <<>> /\ UNCHANGED <<up, keys, kind, reply>> /\ served' = served \cup {Current}
          /\ Add("request_errors", 1)
      BY <1>11, <2>2 DEF Handle, Stay
    <3>4. /\ Said("rejected")' = Said("rejected") + 1 /\ Said("refused")' = Said("refused")
          /\ Said("unsigned")' = Said("unsigned") /\ Said("granted")' = Said("granted")
      BY <3>1, <3>2, <3>3, SaidOne DEF Kinds
    <3>5. /\ count'["request_errors"] = count["request_errors"] + 1
          /\ \A c \in Counters \ {"request_errors"} : count'[c] = count[c]
      BY <1>1, <3>3, AddType DEF Counters
    <3> QED
      BY <1>1, <1>2, <1>3, <1>4, <3>1, <3>3, <3>4, <3>5 DEF BooksBalance, GaugeInv, Counters
  <2> QED
    BY <2>1, <2>2
<1>12. /\ \A c \in Counters : count[c] \in Nat
       /\ {"request_errors", "in_flight", "success", "denied", "error",
           "tokens_minted", "sign_errors", "encrypt_errors"} = Counters
  BY <1>1 DEF Counters
<1>13. CASE EnterCallback
  <2>1. /\ up /\ phase = "decoded" /\ UNCHANGED <<up, keys>>
        /\ \/ phase' = "verifying" /\ Add("in_flight", 1) /\ UNCHANGED kind
           \/ phase' = "responding" /\ Add("error", 1) /\ kind' = "refused"
    BY <1>13 DEF EnterCallback, EnterOrCount, Conclude, Stay
  <2>2. \/ /\ phase' = "verifying"
           /\ \A c \in Counters \ {"in_flight"} : count'[c] = count[c]
        \/ /\ phase' = "responding" /\ kind' = "refused" /\ count'["error"] = count["error"] + 1
           /\ \A c \in Counters \ {"error"} : count'[c] = count[c]
    BY <1>1, <2>1, AddType DEF Counters
  <2>3. Silent
    BY <1>13 DEF Silent, Quiet
  <2> QED
    BY <1>2, <1>3, <1>4, <1>6, <1>12, <2>1, <2>2, <2>3 DEF BooksBalance, GaugeInv, One, Counters
<1>14. CASE RunVerification
  <2>1. Silent /\ up /\ phase = "verifying" /\ UNCHANGED <<up, keys>>
    BY <1>14 DEF RunVerification, VerifyRound, Stay, Silent, Quiet
  <2>2. CASE UNCHANGED <<kind, count>> /\ phase' \in {"verifying", "verified"}
    BY <1>7, <2>1, <2>2 DEF Phases
  <2>3. CASE Fail("denied")
    <3>1. phase' = "responding" /\ kind' = "refused"
      BY <2>3 DEF Fail, Conclude
    <3>2. /\ count'["denied"] = count["denied"] + 1
          /\ \A c \in Counters \ {"in_flight", "denied"} : count'[c] = count[c]
      BY <1>1, <2>1, <2>3, FailType DEF GaugeInv, One, InCallback
    <3>3. /\ count'["denied"] + count'["error"] = count["denied"] + count["error"] + 1
          /\ \A c \in Counters \ {"in_flight", "denied", "error"} : count'[c] = count[c]
      BY <1>12, <3>2 DEF Counters
    <3> QED
      BY <1>2, <1>3, <1>4, <1>6, <1>12, <2>1, <3>1, <3>3 DEF BooksBalance, GaugeInv, One, Counters
  <2> QED
    BY <1>14, <2>1, <2>2, <2>3 DEF RunVerification, VerifyRound
<1>15. CASE BuildUserClaims
  <2>1. Silent /\ up /\ phase = "enriched" /\ UNCHANGED <<up, keys>>
    BY <1>15 DEF BuildUserClaims, BuildUnder, Stay, Silent, Quiet
  <2>2. CASE UNCHANGED <<kind, count>> /\ phase' = "built"
    BY <1>7, <2>1, <2>2 DEF Phases
  <2>3. ASSUME NEW s \in {"denied", "error"}, Fail(s) PROVE BooksBalance'
    <3>1. count'[s] = count[s] + 1 /\ \A c \in Counters \ {"in_flight", s} : count'[c] = count[c]
      BY <1>1, <2>1, <2>3, FailType DEF GaugeInv, One, InCallback
    <3>2. /\ count'["denied"] + count'["error"] = count["denied"] + count["error"] + 1
          /\ \A c \in Counters \ {"in_flight", "denied", "error"} : count'[c] = count[c]
      BY <1>12, <3>1 DEF Counters
    <3>3. phase' = "responding" /\ kind' = "refused"
      BY <2>3 DEF Fail, Conclude
    <3> QED
      BY <1>2, <1>3, <1>4, <1>6, <1>12, <2>1, <3>2, <3>3 DEF BooksBalance, GaugeInv, One, Counters
  <2> QED
    BY <1>15, <2>2, <2>3 DEF BuildUserClaims, BuildUnder
<1>16. CASE RecordResult
  <2>1. /\ Silent /\ up /\ phase = "audited" /\ phase' = "recorded" /\ UNCHANGED <<up, keys, kind>>
        /\ count'["success"] = count["success"] + 1
        /\ count'["tokens_minted"] = count["tokens_minted"] + 1
        /\ \A c \in Counters \ {"success", "tokens_minted", "in_flight"} : count'[c] = count[c]
    BY <1>1, <1>16 DEF RecordResult, Stay, Silent, Quiet, Counters
  <2> QED
    BY <1>2, <1>3, <1>4, <1>6, <1>12, <2>1 DEF BooksBalance, GaugeInv, One, Counters
<1>17. CASE ValidateAndSign
  <2>1. /\ Silent /\ up /\ phase = "recorded" /\ phase' = "responding" /\ UNCHANGED <<up, keys>>
        /\ \/ kind' = "granted" /\ UNCHANGED count
           \/ kind' = "unsigned" /\ Add("sign_errors", 1)
    BY <1>17 DEF ValidateAndSign, SignOrCount, Conclude, Stay, Silent, Quiet
  <2>2. \/ kind' = "granted" /\ UNCHANGED count
        \/ /\ kind' = "unsigned" /\ count'["sign_errors"] = count["sign_errors"] + 1
           /\ \A c \in Counters \ {"sign_errors"} : count'[c] = count[c]
    BY <1>1, <2>1, AddType DEF Counters
  <2> QED
    BY <1>2, <1>3, <1>4, <1>6, <1>12, <2>1, <2>2 DEF BooksBalance, GaugeInv, One, Counters
<1>18. CASE Respond
  <2>1. PICK m \in Messages : m.request = Current /\ m.kind = kind /\ outbox' = Append(outbox, m)
    <3>1. PICK form \in {"sealed", "clear", "blank"} :
            /\ Send(form)
            /\ Message(Current, kind, IF kind = "granted" /\ form # "blank" THEN jwt ELSE NoJwt, form) \in Messages
      BY <1>18, RespondSends
    <3> QED
      BY <3>1 DEF Message, Send
  <2>2. /\ up /\ phase = "responding" /\ phase' = "idle" /\ queue # <<>>
        /\ UNCHANGED <<up, keys, reply>> /\ served' = served \cup {Current}
    BY <1>18 DEF Respond, RespondSealed, Send, Rest, Stay, TypeOK, ServedInv
  <2>3. kind \in {"refused", "unsigned", "granted"}
    BY DEF DraftInv, Kinds
  <2>4. Said(m.kind)' = Said(m.kind) + 1 /\ \A k \in Kinds \ {m.kind} : Said(k)' = Said(k)
    BY <2>1, <2>2, <2>3, SaidOne DEF Kinds
  <2>5. /\ count'["sign_errors"] = count["sign_errors"] + (IF keys.serviceKey THEN 0 ELSE 1)
        /\ \A c \in Counters \ {"sign_errors", "encrypt_errors"} : count'[c] = count[c]
    BY <1>1, <1>18 DEF Respond, RespondSealed, Add, Counters
  <2>6. /\ count'["request_errors"] = count["request_errors"] /\ count'["denied"] = count["denied"]
        /\ count'["error"] = count["error"] /\ count'["success"] = count["success"]
        /\ count'["tokens_minted"] = count["tokens_minted"]
    BY <2>5 DEF Counters
  <2>7. keys'.serviceKey = keys.serviceKey
    BY <2>2
  <2>8. CASE m.kind = "refused"
    <3>1. /\ Said("refused")' = Said("refused") + 1 /\ Said("rejected")' = Said("rejected")
          /\ Said("unsigned")' = Said("unsigned") /\ Said("granted")' = Said("granted")
      BY <2>4, <2>8 DEF Kinds
    <3> QED
      BY <1>2, <1>3, <1>4, <1>12, <2>1, <2>2, <2>5, <2>6, <2>7, <2>8, <3>1, SMTT(30)
         DEF BooksBalance, GaugeInv, One
  <2>9. CASE m.kind = "unsigned"
    <3>1. /\ Said("unsigned")' = Said("unsigned") + 1 /\ Said("rejected")' = Said("rejected")
          /\ Said("refused")' = Said("refused") /\ Said("granted")' = Said("granted")
      BY <2>4, <2>9 DEF Kinds
    <3>2. /\ count["success"] = Said("granted") + Said("unsigned") + 1
          /\ count["sign_errors"] = Said("unsigned") + One(kind = "unsigned")
               + (IF keys.serviceKey THEN 0 ELSE Said("refused") + Said("unsigned") + Said("granted"))
          /\ count["request_errors"] = Said("rejected")
          /\ count["denied"] + count["error"] = Said("refused")
          /\ count["tokens_minted"] = count["success"]
      BY <1>2, <2>1, <2>2, <2>9 DEF BooksBalance, One
    <3>3. count'["request_errors"] = Said("rejected")'
      BY <2>6, <3>1, <3>2
    <3>4. count'["denied"] + count'["error"] = Said("refused")'
      BY <2>6, <3>1, <3>2
    <3>5. count'["success"] = Said("granted")' + Said("unsigned")'
      BY <1>2, <2>6, <3>1, <3>2
    <3>6. count'["sign_errors"] = Said("unsigned")'
            + (IF keys.serviceKey THEN 0 ELSE Said("refused")' + Said("unsigned")' + Said("granted")')
      <4>1. One(kind = "unsigned") = 1
        BY <2>1, <2>9 DEF One
      <4>2. CASE keys.serviceKey
        BY <1>2, <2>5, <3>1, <3>2, <4>1, <4>2
      <4>3. CASE ~ keys.serviceKey
        BY <1>2, <2>5, <3>1, <3>2, <4>1, <4>3
      <4> QED
        BY <4>2, <4>3
    <3> QED
      BY <1>2, <1>3, <2>2, <2>6, <2>7, <3>1, <3>2, <3>3, <3>4, <3>5, <3>6 DEF BooksBalance, GaugeInv, One
  <2>10. CASE m.kind = "granted"
    <3>1. /\ Said("granted")' = Said("granted") + 1 /\ Said("rejected")' = Said("rejected")
          /\ Said("refused")' = Said("refused") /\ Said("unsigned")' = Said("unsigned")
      BY <2>4, <2>10 DEF Kinds
    <3>2. /\ count["success"] = Said("granted") + Said("unsigned") + 1
          /\ count["sign_errors"] = Said("unsigned") + One(kind = "unsigned")
               + (IF keys.serviceKey THEN 0 ELSE Said("refused") + Said("unsigned") + Said("granted"))
          /\ count["request_errors"] = Said("rejected")
          /\ count["denied"] + count["error"] = Said("refused")
          /\ count["tokens_minted"] = count["success"]
      BY <1>2, <2>1, <2>2, <2>10 DEF BooksBalance, One
    <3>3. count'["request_errors"] = Said("rejected")'
      BY <2>6, <3>1, <3>2
    <3>4. count'["denied"] + count'["error"] = Said("refused")'
      BY <2>6, <3>1, <3>2
    <3>5. count'["success"] = Said("granted")' + Said("unsigned")'
      BY <1>2, <2>6, <3>1, <3>2
    <3>6. count'["sign_errors"] = Said("unsigned")'
            + (IF keys.serviceKey THEN 0 ELSE Said("refused")' + Said("unsigned")' + Said("granted")')
      <4>1. One(kind = "unsigned") = 0
        BY <2>1, <2>10 DEF One
      <4>2. CASE keys.serviceKey
        BY <1>2, <2>5, <3>1, <3>2, <4>1, <4>2
      <4>3. CASE ~ keys.serviceKey
        BY <1>2, <2>5, <3>1, <3>2, <4>1, <4>3
      <4> QED
        BY <4>2, <4>3
    <3> QED
      BY <1>2, <1>3, <2>2, <2>6, <2>7, <3>1, <3>2, <3>3, <3>4, <3>5, <3>6 DEF BooksBalance, GaugeInv, One
  <2> QED
    BY <2>1, <2>3, <2>8, <2>9, <2>10
<1> QED
  BY <1>4, <1>5, <1>8, <1>9, <1>10, <1>11, <1>13, <1>14, <1>15, <1>16, <1>17, <1>18
     DEF Next, Stop, PublishAuditEventPanics, Die

-----------------------------------------------------------------------------
(***************************************************************************)
(* What has arrived.                                                       *)
(***************************************************************************)

\* A reply changes as the request is made, lost, or gets the first message of
\* the outbox.
LEMMA ReplyStep ==
  ASSUME TypeOK, [Next]_vars, NEW r \in Requests
  PROVE  \/ reply'[r] = reply[r]
         \/ reply'[r] \in {Pending, Lost}
         \/ /\ Flush /\ IsAnswer(outbox[1]) /\ r = outbox[1].request
            /\ 1 \in 1 .. Len(outbox) /\ outbox[1] \in Messages
            /\ reply'[r] = Answer(outbox[1].kind, outbox[1].jwt, outbox[1].form)
<1>1. ASSUME NEW x \in Requests, Ask(x) PROVE reply'[r] = reply[r] \/ reply'[r] \in {Pending, Lost}
  BY <1>1 DEF Ask, TypeOK
<1>2. CASE Flush
  <2>1. Head(outbox) \in Messages /\ Head(outbox) = outbox[1] /\ 1 \in 1 .. Len(outbox)
    BY <1>2, TailType DEF Flush, TypeOK
  <2> QED
    BY <1>2, <2>1 DEF Flush, TypeOK, IsAnswer
<1>3. ASSUME NEW why, Die(why) PROVE reply'[r] = reply[r] \/ reply'[r] \in {Pending, Lost}
  BY <1>3 DEF Die
<1>4. Reload \/ Start \/ Handle \/ PublishAuditEvent \/ Respond \/ UNCHANGED vars => UNCHANGED reply
  BY DEF Reload, Start, Handle, PublishAuditEvent, Respond, RespondSealed, Stay, vars, world
<1> QED
  BY <1>1, <1>2, <1>3, <1>4, QuietStep DEF Next, Quiet, Stop, PublishAuditEventPanics

\* The audit event of a grant arrives before the grant does.
LEMMA AuditStep ==
  ASSUME TypeOK, TraceInv, AuditFirst, [Next]_vars
  PROVE  AuditFirst'
<1> SUFFICES ASSUME NEW r \in Requests, reply'[r].kind = "granted", reply'[r].form # "blank"
             PROVE  <<r, reply'[r].jwt>> \in stream' \/ r \in unaudited'
  BY DEF AuditFirst
<1>1. stream \subseteq stream' /\ unaudited \subseteq unaudited'
  BY TraceGrows
<1>2. CASE reply'[r] = reply[r]
  BY <1>1, <1>2 DEF AuditFirst
<1>3. CASE reply'[r] \in {Pending, Lost}
  BY <1>3 DEF Pending, Lost, Answer
<1>4. CASE /\ Flush /\ IsAnswer(outbox[1]) /\ r = outbox[1].request
           /\ 1 \in 1 .. Len(outbox) /\ outbox[1] \in Messages
           /\ reply'[r] = Answer(outbox[1].kind, outbox[1].jwt, outbox[1].form)
  <2>1. Traced(r, reply'[r].jwt, 1 - 1)
    BY <1>4 DEF TraceInv, Answer
  <2> QED
    BY <1>1, <2>1 DEF Traced, TracedIn
<1> QED
  BY <1>2, <1>3, <1>4, ReplyStep

\* What arrives is sealed as its request was.
LEMMA SealedStep ==
  ASSUME TypeOK, SealInv, SealedStaysSealed, [Next]_vars
  PROVE  SealedStaysSealed'
<1> SUFFICES ASSUME NEW r \in Requests,
                    reply'[r].form \in {"clear", "sealed"}, reply'[r].kind # "rejected"
             PROVE  (reply'[r].form = "sealed") = About[r].xkey
  BY DEF SealedStaysSealed
<1>1. CASE reply'[r] = reply[r]
  BY <1>1 DEF SealedStaysSealed
<1>2. CASE reply'[r] \in {Pending, Lost}
  BY <1>2 DEF Pending, Lost, Answer
<1>3. CASE /\ Flush /\ IsAnswer(outbox[1]) /\ r = outbox[1].request
           /\ 1 \in 1 .. Len(outbox) /\ outbox[1] \in Messages
           /\ reply'[r] = Answer(outbox[1].kind, outbox[1].jwt, outbox[1].form)
  <2>1. reply'[r].form = (IF About[r].xkey THEN "sealed" ELSE "clear")
    BY <1>3 DEF SealInv, Answer
  <2> QED
    BY <2>1, AboutType
<1> QED
  BY <1>1, <1>2, <1>3, ReplyStep

-----------------------------------------------------------------------------
(***************************************************************************)
(* The theorems.                                                           *)
(***************************************************************************)

\* Together the parts are inductive.
IInv ==
  /\ TypeOK /\ GaugeInv /\ DraftInv /\ DownInv
  /\ OnceInv /\ SeenInv
  /\ EntitledInv /\ SealInv /\ TraceInv
  /\ AuditFirst /\ SealedStaysSealed
  /\ ServedInv /\ BooksBalance

\* They hold of a process that has just started, with nothing asked of it yet.
LEMMA InitInv ==
  ASSUME Init
  PROVE  IInv
<1>1. /\ up /\ queue = <<>> /\ outbox = <<>> /\ phase = "idle" /\ snap = NoConfig
      /\ Len(queue) = 0 /\ Len(outbox) = 0
  BY EmptySeq DEF Init
<1>2. TypeOK
  <2>1. keys \in [serviceKey : BOOLEAN, xkey : BOOLEAN]
    BY ContentType DEF Init
  <2>2. count \in [Counters -> Nat] /\ reply \in [Requests -> Replies]
    BY DEF Init, Zero, Replies
  <2> QED
    BY <2>1, <2>2, NoJwtType, EmptySeq DEF Init, TypeOK, Phases, Kinds
<1>3. GaugeInv /\ DraftInv /\ DownInv
  BY DEF Init, GaugeInv, DraftInv, DownInv, Verified, Enriched, Built, Granting, One, InCallback,
         Zero, Counters, Kinds
<1>4. OnceInv /\ EntitledInv /\ SealInv
  BY <1>1 DEF OnceInv, EntitledInv, SealInv
<1>5. SeenInv
  BY Distinct DEF Init, SeenInv
<1>6. TraceInv
  BY <1>1 DEF TraceInv, Audited, Granting
<1>7. AuditFirst /\ SealedStaysSealed
  BY DEF Init, AuditFirst, SealedStaysSealed, Unasked, Answer
<1>8. served = {} /\ ServedInv
  BY FS_EmptySet DEF Init, ServedInv
<1>9. BooksBalance
  <2>1. ASSUME NEW k \in Kinds PROVE Said(k) = 0
    <3>1. {r \in served :
             \/ reply[r].kind = k
             \/ \E i \in 1 .. Len(outbox) : outbox[i].request = r /\ outbox[i].kind = k} = {}
      BY <1>8
    <3> QED
      BY <3>1, FS_EmptySet DEF Said
  <2>2. /\ Said("rejected") = 0 /\ Said("refused") = 0
        /\ Said("unsigned") = 0 /\ Said("granted") = 0
    BY <2>1 DEF Kinds
  <2> QED
    BY <1>1, <2>2 DEF Init, BooksBalance, Zero, Counters, One, InCallback
<1> QED
  BY <1>2, <1>3, <1>4, <1>5, <1>6, <1>7, <1>8, <1>9 DEF IInv

\* The inductive invariant: the request in hand, its claims and the configuration
\* they come from belong together, every pending request has one place, and what
\* is on its way may arrive.
THEOREM Inductive == Spec => []IInv
<1>1. Init => IInv
  BY InitInv
<1>2. IInv /\ [Next]_vars => IInv'
  BY TypeStep, GaugeStep, DraftStep, DownStep, OnceStep, SeenStep, EntitledStep, SealStep,
     TraceStep, AuditStep, SealedStep, ServedStep, BooksStep DEF IInv
<1> QED
  BY <1>1, <1>2, PTL DEF Spec

\* Every variable has its type: no counter goes below zero, and the handler never
\* looks for a verifier its configuration has not, or at a queue that is empty.
THEOREM TypeCorrect == Spec => []TypeOK
<1>1. IInv => TypeOK
  BY DEF IInv
<1> QED
  BY <1>1, Inductive, PTL

\* The metrics account for every answer, in every state of every run.
THEOREM BooksAlwaysBalance == Spec => []BooksBalance
<1>1. IInv => BooksBalance
  BY DEF IInv
<1> QED
  BY <1>1, Inductive, PTL

\* No server holds a JWT whose audit event was neither delivered nor given up.
THEOREM AuditAlwaysFirst == Spec => []AuditFirst
<1>1. IInv => AuditFirst
  BY DEF IInv
<1> QED
  BY <1>1, Inductive, PTL

\* A response is sealed exactly if its request was, whatever is reloaded between.
THEOREM SealedAlways == Spec => []SealedStaysSealed
<1>1. IInv => SealedStaysSealed
  BY DEF IInv
<1> QED
  BY <1>1, Inductive, PTL

\* How far a request is for the server that made it, and the JWT it got.
Status ==
  [r \in Requests |->
     IF reply[r] = Unasked THEN "unasked"
     ELSE IF reply[r] = Pending THEN "pending"
     ELSE IF reply[r].jwt # NoJwt THEN "granted" ELSE "denied"]

Got == [r \in Requests |-> reply[r].jwt]

\* One request goes from pending to what its answer says.
LEMMA FlushPromised ==
  ASSUME IInv, Flush
  PROVE  [Promise!Next]_(Promise!vars)
<1>1. /\ Head(outbox) \in Messages /\ Head(outbox) = outbox[1] /\ 1 \in 1 .. Len(outbox)
  BY TailType DEF Flush, IInv, TypeOK
<1>2. CASE ~ IsAnswer(outbox[1])
  BY <1>1, <1>2 DEF Flush, IsAnswer, Promise!vars
<1>3. CASE IsAnswer(outbox[1])
  <2>1. PICK r \in Requests : r = outbox[1].request
    BY <1>1 DEF Messages
  <2> DEFINE a == Answer(outbox[1].kind, outbox[1].jwt, outbox[1].form)
  <2>2. /\ reply' = [reply EXCEPT ![r] = a] /\ seen' = [seen EXCEPT ![r] = {}] /\ UNCHANGED live
        /\ a \notin {Unasked, Pending} /\ a.jwt = outbox[1].jwt
    BY <1>1, <1>3, <2>1, Distinct DEF Flush, IsAnswer, Messages, Answer
  <2>3. reply \in [Requests -> Replies] /\ reply[r] = Pending /\ Status[r] = "pending"
    BY <1>1, <1>3, <2>1, Distinct DEF IInv, TypeOK, OnceInv, Status
  <2> HIDE DEF a
  <2>4. Status' = [Status EXCEPT ![r] = IF a.jwt # NoJwt THEN "granted" ELSE "denied"]
    BY <2>2, <2>3 DEF Status
  <2>5. Got' = [Got EXCEPT ![r] = a.jwt] /\ Got[r] = NoJwt
    <3>1. Got' = [Got EXCEPT ![r] = a.jwt]
      BY <2>2, <2>3 DEF Got
    <3>2. Pending.jwt = NoJwt
      BY DEF Pending, Answer
    <3> QED
      BY <2>3, <3>1, <3>2 DEF Got
  <2>6. CASE a.jwt = NoJwt
    <3>1. UNCHANGED Got
      BY <2>5, <2>6 DEF Got
    <3>2. Promise!Deny(r)
      BY <2>2, <2>3, <2>4, <2>6, <3>1 DEF Promise!Deny, Status, Got
    <3> QED
      BY <3>2 DEF Promise!Next
  <2>7. CASE a.jwt # NoJwt
    <3>1. PICK c \in seen[r] : a.jwt \in EntitledTo(r, c)
      BY <1>1, <1>3, <2>1, <2>2, <2>7 DEF IInv, EntitledInv
    <3>2. c \in Configs
      BY DEF IInv, TypeOK
    <3>3. a.jwt \in Entitlements[r][c]
      BY <3>1, <3>2 DEF Entitlements
    <3>4. Promise!Grant(r)
      BY <2>2, <2>3, <2>4, <2>5, <2>7, <3>3 DEF Promise!Grant, Status, Got
    <3> QED
      BY <3>4 DEF Promise!Next
  <2> QED
    BY <2>6, <2>7
<1> QED
  BY <1>2, <1>3

\* The broker keeps the promise: an answer that arrives is the moment a request is
\* granted or denied, the end of the process loses all that is pending at once,
\* and what happens in between is not seen from outside.
THEOREM Refinement == Spec => KeepsPromise
<1>1. Init => Promise!Init
  <2> SUFFICES ASSUME Init PROVE Promise!Init
    OBVIOUS
  <2>1. Status = [r \in Requests |-> "unasked"]
    BY DEF Init, Status
  <2>2. Unasked.jwt = NoJwt
    BY DEF Unasked, Answer
  <2>3. Got = [r \in Requests |-> NoJwt]
    BY <2>2 DEF Init, Got
  <2> QED
    BY <2>1, <2>3 DEF Init, Promise!Init, Status, Got
<1>2. IInv /\ [Next]_vars => [Promise!Next]_(Promise!vars)
  <2> SUFFICES ASSUME IInv, [Next]_vars PROVE [Promise!Next]_(Promise!vars)
    OBVIOUS
  <2>1. reply \in [Requests -> Replies] /\ seen \in [Requests -> SUBSET Configs]
    BY DEF IInv, TypeOK
  <2>2. \A r \in Requests : Status[r] = "pending" <=> reply[r] = Pending
    BY Distinct DEF Status
  <2>3. Unasked.jwt = NoJwt /\ Pending.jwt = NoJwt /\ Lost.jwt = NoJwt
    BY DEF Unasked, Pending, Lost, Answer
  <2>4. CASE Flush
    BY <2>4, FlushPromised
  <2>5. ASSUME NEW r \in Requests, Ask(r) PROVE Promise!Next
    <3>1. reply[r] = Unasked /\ Status[r] = "unasked" /\ UNCHANGED live
      BY <2>5 DEF Ask, Status
    <3>2. CASE up
      <4>1. reply' = [reply EXCEPT ![r] = Pending] /\ seen' = [seen EXCEPT ![r] = {live}]
        BY <2>5, <3>2 DEF Ask
      <4>2. Status' = [Status EXCEPT ![r] = "pending"] /\ UNCHANGED Got
        BY <2>1, <2>3, <3>1, <4>1, Distinct DEF Status, Got
      <4>3. Promise!Ask(r)
        BY <3>1, <4>1, <4>2 DEF Promise!Ask, Status, Got
      <4> QED
        BY <4>3 DEF Promise!Next
    <3>3. CASE ~ up
      <4>1. reply' = [reply EXCEPT ![r] = Lost] /\ UNCHANGED seen
        BY <2>5, <3>3 DEF Ask
      <4>2. Status' = [Status EXCEPT ![r] = "denied"] /\ UNCHANGED Got
        BY <2>1, <2>3, <3>1, <4>1, Distinct DEF Status, Got
      <4>3. seen[r] = {}
        BY <3>1, Distinct DEF IInv, SeenInv
      <4>4. seen' = [seen EXCEPT ![r] = {}]
        BY <2>1, <4>1, <4>3
      <4>5. Promise!Deny(r)
        BY <3>1, <4>2, <4>4 DEF Promise!Deny, Status, Got
      <4> QED
        BY <4>5 DEF Promise!Next
    <3> QED
      BY <3>2, <3>3
  <2>6. CASE Reload
    <3>1. live' \in Configs /\ UNCHANGED reply
      BY <2>6 DEF Reload, world
    <3>2. seen' = [r \in Requests |-> IF Status[r] = "pending" THEN seen[r] \cup {live'} ELSE seen[r]]
      BY <2>2, <2>6 DEF Reload, Outstanding
    <3>3. Promise!Swap
      BY <3>1, <3>2 DEF Promise!Swap, Status
    <3> QED
      BY <3>3 DEF Promise!Next
  <2>7. CASE Start
    <3>1. live' \in Configs /\ UNCHANGED <<reply, seen>>
      BY <2>7 DEF Start, world
    <3>2. \A r \in Requests : Status[r] # "pending"
      BY <2>2, <2>7 DEF Start, IInv, DownInv, Outstanding
    <3>3. seen' = [r \in Requests |-> IF Status[r] = "pending" THEN seen[r] \cup {live'} ELSE seen[r]]
      BY <2>1, <3>1, <3>2
    <3>4. Promise!Swap
      BY <3>1, <3>3 DEF Promise!Swap, Status
    <3> QED
      BY <3>4 DEF Promise!Next
  <2>8. ASSUME NEW why, Die(why) PROVE Promise!Next
    <3>1. /\ reply' = [r \in Requests |-> IF reply[r] = Pending THEN Lost ELSE reply[r]]
          /\ seen' = [r \in Requests |-> {}] /\ UNCHANGED live
      BY <2>8 DEF Die, Outstanding
    <3>2. Status' = [r \in Requests |-> IF Status[r] = "pending" THEN "denied" ELSE Status[r]]
      BY <2>2, <2>3, <3>1, Distinct DEF Status
    <3>3. UNCHANGED Got
      BY <2>3, <3>1 DEF Got
    <3>4. Promise!Lose
      BY <3>1, <3>2, <3>3 DEF Promise!Lose, Status, Got
    <3> QED
      BY <3>4 DEF Promise!Next
  <2>9. CASE UNCHANGED <<live, reply, seen>>
    BY <2>9 DEF Promise!vars
  <2>10. Handle \/ PublishAuditEvent \/ Respond \/ UNCHANGED vars => UNCHANGED <<live, reply, seen>>
    BY DEF Handle, PublishAuditEvent, Respond, RespondSealed, Stay, vars, broker, world, past
  <2> QED
    BY <2>4, <2>5, <2>6, <2>7, <2>8, <2>9, <2>10, QuietStep
       DEF Next, Quiet, Stop, PublishAuditEventPanics
<1> QED
  BY <1>1, <1>2, Inductive, PTL DEF Spec, KeepsPromise, Promise!Spec

=============================================================================
