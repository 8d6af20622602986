----------------------------- MODULE RoleBinding -----------------------------
(***************************************************************************)
(* Which role binding a request gets, and what it is granted:              *)
(* lookupUserAccount of internal/broker/config_rbac.go, one step per       *)
(* binding and per match criterion, for one request after the other.       *)
(*                                                                         *)
(* All requests served by one ConfigManager share its cache of compiled    *)
(* expressions, so what earlier requests looked up is part of the state.   *)
(* The expression library is external: ExprCompiles and ExprHolds say for  *)
(* which claims an expression type-checks and for which a compiled program *)
(* returns true.                                                           *)
(***************************************************************************)
EXTENDS Integers, FiniteSets, Sequences

CONSTANTS
  Setups,        \* the rbac sections: [strategy, bindings, roles]
  Requests,      \* the claims requests come with
  Exprs,         \* the expressions criteria use
  ExprCompiles,  \* the <<expression, claims>> pairs expr.Compile accepts
  ExprHolds      \* the <<expression, claims>> pairs expr.Run finds true

NoLimit == -1

\* A match entry: an expression, a permission, or a claim and a value.
Criterion == [kind : {"expr", "permission", "claim"}, claim : STRING, value : STRING]

Role == [name : STRING, allow : SUBSET STRING, deny : SUBSET STRING,
         src : SUBSET STRING, maxMsgs : Nat, subs : Int]

Binding == [match : Seq(Criterion), roles : Seq(STRING)]

Setup == [strategy : {"strict", "best_match"}, bindings : Seq(Binding), roles : Seq(Role)]

ASSUME RoleBindingAssumption ==
  /\ Setups \subseteq Setup
  /\ ExprCompiles \subseteq Exprs \X Requests
  /\ ExprHolds \subseteq Exprs \X Requests
  /\ \A s \in Setups : \A b \in DOMAIN s.bindings : \A k \in DOMAIN s.bindings[b].match :
       LET m == s.bindings[b].match[k] IN m.kind = "expr" => m.value \in Exprs

VARIABLES
  config,     \* the rbac section in force
  request,    \* the claims of the request being looked up
  compiled,   \* exprCache: the expressions some request has compiled
  pc,         \* "idle", "binding", "criterion" or "done"
  i,          \* the binding the outer loop is at
  j,          \* the criterion the inner loop is at
  matches,    \* currentMatches
  best,       \* bestMatch
  fallback,   \* the first binding without criteria, 0 for none
  result      \* what lookupUserAccount returned

vars == <<config, request, compiled, pc, i, j, matches, best, fallback, result>>

Bindings == 1 .. Len(config.bindings)
Match(b) == config.bindings[b].match
Strict   == config.strategy = "strict"

(***************************************************************************)
(* collateRoles: permissions add up, a positive response limit replaces    *)
(* the one before, and every other limit is the last role's.               *)
(***************************************************************************)
Declared(name) == \E k \in DOMAIN config.roles : config.roles[k].name = name

\* The first role of that name.
lookupRole(name) ==
  LET named == {k \in DOMAIN config.roles : config.roles[k].name = name}
  IN  config.roles[CHOOSE k \in named : \A l \in named : k <= l]

NoGrant == [allow |-> {}, deny |-> {}, src |-> {}, maxMsgs |-> 0, subs |-> NoLimit]

\* Fault: the response limit is overwritten even when the role sets none.
collatePermissionsAlways(grant, role) ==
  [grant EXCEPT !.allow = @ \cup role.allow,
                !.deny = @ \cup role.deny,
                !.maxMsgs = role.maxMsgs]

collatePermissions(grant, role) ==
  [grant EXCEPT !.allow = @ \cup role.allow,
                !.deny = @ \cup role.deny,
                !.maxMsgs = IF role.maxMsgs > 0 THEN role.maxMsgs ELSE @]

collateLimits(grant, role) ==
  [grant EXCEPT !.src = @ \cup role.src, !.subs = role.subs]

KnownRoles(b) == \A k \in DOMAIN config.bindings[b].roles :
                   Declared(config.bindings[b].roles[k])

collateRoles(b) ==
  LET names == config.bindings[b].roles
      grant[n \in 0 .. Len(names)] ==
        IF n = 0 THEN NoGrant
        ELSE collateLimits(collatePermissions(grant[n - 1], lookupRole(names[n])),
                           lookupRole(names[n]))
  IN  grant[Len(names)]

(***************************************************************************)
(* evaluateMatchCriterion.  An expression that does not compile for these  *)
(* claims is a miss, unless an earlier request left its program in the     *)
(* cache.  A claim may be a string, a list or a map; permissions may not   *)
(* be a map.                                                               *)
(***************************************************************************)
Runnable(e, cache) == e \in cache \/ <<e, request>> \in ExprCompiles

MatchedWith(m, cache) ==
  \/ m.kind = "expr" /\ Runnable(m.value, cache) /\ <<m.value, request>> \in ExprHolds
  \/ /\ m.kind = "permission"
     /\ "permissions" \in DOMAIN request
     /\ request["permissions"].type \in {"string", "list"}
     /\ m.value \in request["permissions"].items
  \/ /\ m.kind = "claim"
     /\ m.claim \in DOMAIN request
     /\ request[m.claim].type \in {"string", "list", "map"}
     /\ m.value \in request[m.claim].items

Matched(m) == MatchedWith(m, compiled)

\* loadOrCompileExpr keeps what compiled.
Remember(m) ==
  compiled' = IF m.kind = "expr" /\ Runnable(m.value, compiled)
                THEN compiled \cup {m.value} ELSE compiled

-----------------------------------------------------------------------------
NoBest == [binding |-> 0, matches |-> 0, criteria |-> 0, grant |-> NoGrant]

\* The bestMatch record of the binding the loop is at.
Candidate == [binding |-> i, matches |-> matches, criteria |-> Len(Match(i)),
              grant |-> collateRoles(i)]

Ungranted(status) == [status |-> status, binding |-> 0, grant |-> NoGrant]

NotYet == Ungranted("none")

Init ==
  /\ config \in Setups
  /\ request \in Requests
  /\ compiled = {}
  /\ pc = "idle"
  /\ i = 1 /\ j = 1 /\ matches = 0
  /\ best = NoBest
  /\ fallback = 0
  /\ result = NotYet

\* Fault: the bindings are counted from zero.
ReceiveAtZero(claims) ==
  /\ pc \in {"idle", "done"}
  /\ request' = claims
  /\ pc' = "binding"
  /\ i' = 0 /\ j' = 1 /\ matches' = 0
  /\ best' = NoBest
  /\ fallback' = 0
  /\ result' = NotYet
  /\ UNCHANGED <<config, compiled>>

\* A call of lookupUserAccount begins.
Receive(claims) ==
  /\ pc \in {"idle", "done"}
  /\ request' = claims
  /\ pc' = "binding"
  /\ i' = 1 /\ j' = 1 /\ matches' = 0
  /\ best' = NoBest
  /\ fallback' = 0
  /\ result' = NotYet
  /\ UNCHANGED <<config, compiled>>

\* A binding without criteria is only kept as the fallback.
RecordFallback ==
  /\ pc = "binding"
  /\ i \in Bindings
  /\ Match(i) = <<>>
  /\ fallback' = IF fallback = 0 THEN i ELSE fallback
  /\ i' = i + 1
  /\ UNCHANGED <<config, request, compiled, pc, j, matches, best, result>>

EnterBinding ==
  /\ pc = "binding"
  /\ i \in Bindings
  /\ Match(i) # <<>>
  /\ pc' = "criterion"
  /\ j' = 1
  /\ matches' = 0
  /\ UNCHANGED <<config, request, compiled, i, best, fallback, result>>

\* The inner loop.  Under strict the first miss gives the binding up.
EvaluateCriterion ==
  /\ pc = "criterion"
  /\ j <= Len(Match(i))
  /\ Remember(Match(i)[j])
  /\ \/ /\ Matched(Match(i)[j])
        /\ matches' = matches + 1
        /\ j' = j + 1
        /\ UNCHANGED <<pc, i>>
     \/ /\ ~ Matched(Match(i)[j])
        /\ ~ Strict
        /\ j' = j + 1
        /\ UNCHANGED <<pc, i, matches>>
     \/ /\ ~ Matched(Match(i)[j])
        /\ Strict
        /\ pc' = "binding"
        /\ i' = i + 1
        /\ UNCHANGED <<j, matches>>
  /\ UNCHANGED <<config, request, best, fallback, result>>

\* return the account and the collated roles, or collateRoles' error.
Return(b) ==
  /\ pc' = "done"
  /\ result' = IF KnownRoles(b)
                 THEN [status |-> "granted", binding |-> b, grant |-> collateRoles(b)]
                 ELSE Ungranted("unknown role")

ReturnBest ==
  /\ pc' = "done"
  /\ result' = [status |-> "granted", binding |-> best.binding, grant |-> best.grant]

\* All criteria of a strict binding matched: it is the one.
SelectStrict ==
  /\ pc = "criterion"
  /\ j > Len(Match(i))
  /\ Strict
  /\ Return(i)
  /\ UNCHANGED <<config, request, compiled, i, j, matches, best, fallback>>

Improves ==
  \/ matches > best.matches
  \/ matches = best.matches /\ Len(Match(i)) > best.criteria

\* Fault: a tie goes to the later binding.
CompareBestLatest ==
  /\ pc = "criterion"
  /\ j > Len(Match(i))
  /\ ~ Strict
  /\ \/ /\ matches > 0 /\ matches >= best.matches
        /\ KnownRoles(i)
        /\ best' = Candidate
        /\ pc' = "binding"
        /\ i' = i + 1
        /\ UNCHANGED result
     \/ /\ matches > 0 /\ matches >= best.matches
        /\ ~ KnownRoles(i)
        /\ Return(i)
        /\ UNCHANGED <<i, best>>
     \/ /\ ~ (matches > 0 /\ matches >= best.matches)
        /\ pc' = "binding"
        /\ i' = i + 1
        /\ UNCHANGED <<best, result>>
  /\ UNCHANGED <<config, request, compiled, j, matches, fallback>>

\* Fault: the roles of every matching binding are collated.
CompareBestEager ==
  /\ pc = "criterion"
  /\ j > Len(Match(i))
  /\ ~ Strict
  /\ \/ /\ matches > 0 /\ KnownRoles(i)
        /\ best' = IF Improves THEN Candidate ELSE best
        /\ pc' = "binding"
        /\ i' = i + 1
        /\ UNCHANGED result
     \/ /\ matches > 0 /\ ~ KnownRoles(i)
        /\ Return(i)
        /\ UNCHANGED <<i, best>>
     \/ /\ matches = 0
        /\ pc' = "binding"
        /\ i' = i + 1
        /\ UNCHANGED <<best, result>>
  /\ UNCHANGED <<config, request, compiled, j, matches, fallback>>

\* A binding that beats the best so far has its roles collated at once, and an
\* unknown role ends the lookup even if a later binding would have won.
CompareBest ==
  /\ pc = "criterion"
  /\ j > Len(Match(i))
  /\ ~ Strict
  /\ \/ /\ matches > 0 /\ Improves
        /\ KnownRoles(i)
        /\ best' = Candidate
        /\ pc' = "binding"
        /\ i' = i + 1
        /\ UNCHANGED result
     \/ /\ matches > 0 /\ Improves
        /\ ~ KnownRoles(i)
        /\ Return(i)
        /\ UNCHANGED <<i, best>>
     \/ /\ ~ (matches > 0 /\ Improves)
        /\ pc' = "binding"
        /\ i' = i + 1
        /\ UNCHANGED <<best, result>>
  /\ UNCHANGED <<config, request, compiled, j, matches, fallback>>

\* Fault: the fallback is forgotten.
FinishWithoutFallback ==
  /\ pc = "binding"
  /\ i > Len(config.bindings)
  /\ \/ best.binding # 0 /\ ReturnBest
     \/ /\ best.binding = 0
        /\ pc' = "done"
        /\ result' = Ungranted("no match")
  /\ UNCHANGED <<config, request, compiled, i, j, matches, best, fallback>>

\* After the loop: the best match, else the fallback, else an error.  Under
\* strict there is never a best match.
Finish ==
  /\ pc = "binding"
  /\ i > Len(config.bindings)
  /\ \/ best.binding # 0 /\ ReturnBest
     \/ best.binding = 0 /\ fallback # 0 /\ Return(fallback)
     \/ /\ best.binding = 0 /\ fallback = 0
        /\ pc' = "done"
        /\ result' = Ungranted("no match")
  /\ UNCHANGED <<config, request, compiled, i, j, matches, best, fallback>>

Next ==
  \/ \E claims \in Requests : Receive(claims)
  \/ RecordFallback
  \/ EnterBinding
  \/ EvaluateCriterion
  \/ SelectStrict
  \/ CompareBest
  \/ Finish

Spec == Init /\ [][Next]_vars

-----------------------------------------------------------------------------
(***************************************************************************)
(* Which binding should win, said without the loop.                        *)
(***************************************************************************)
Hits(b) == {k \in 1 .. Len(Match(b)) : Matched(Match(b)[k])}

Score(b) == Cardinality(Hits(b))

Catchall(b) == Match(b) = <<>>

Full(b) == ~ Catchall(b) /\ Hits(b) = 1 .. Len(Match(b))

\* Would b be preferred to c by best_match?
Beats(b, c) ==
  \/ Score(b) > Score(c)
  \/ Score(b) = Score(c) /\ Len(Match(b)) > Len(Match(c))
  \/ Score(b) = Score(c) /\ Len(Match(b)) = Len(Match(c)) /\ b < c

Fits(b) == IF Strict THEN Full(b) ELSE Score(b) > 0

Preferred(b, c) == IF Strict THEN b < c ELSE Beats(b, c)

IsChosen(b) ==
  IF \E c \in Bindings : Fits(c)
    THEN Fits(b) /\ \A c \in Bindings \ {b} : Fits(c) => Preferred(b, c)
    ELSE Catchall(b) /\ \A c \in Bindings \ {b} : Catchall(c) => b < c

\* What the roles of binding b add up to.
Promised(b) ==
  LET roles == [k \in DOMAIN config.bindings[b].roles |->
                  lookupRole(config.bindings[b].roles[k])]
      replies == {k \in DOMAIN roles : roles[k].maxMsgs > 0}
  IN  [allow   |-> UNION {roles[k].allow : k \in DOMAIN roles},
       deny    |-> UNION {roles[k].deny : k \in DOMAIN roles},
       src     |-> UNION {roles[k].src : k \in DOMAIN roles},
       maxMsgs |-> IF replies = {} THEN 0
                   ELSE roles[CHOOSE k \in replies : \A l \in replies : l <= k].maxMsgs,
       subs    |-> IF roles = <<>> THEN NoLimit ELSE roles[Len(roles)].subs]

-----------------------------------------------------------------------------
(***************************************************************************)
(* Properties.                                                             *)
(***************************************************************************)

\* Every variable of the two loops has its type.
TypeOK ==
  /\ config \in Setup
  /\ request \in Requests
  /\ compiled \subseteq Exprs
  /\ pc \in {"idle", "binding", "criterion", "done"}
  /\ pc = "criterion" => i \in Bindings
  /\ i \in Nat \ {0}
  /\ j \in Nat \ {0}
  /\ matches \in Nat
  /\ best.binding \in Nat /\ best.matches \in Nat /\ best.criteria \in Nat
  /\ fallback \in Nat
  /\ result.status \in {"none", "granted", "unknown role", "no match"}
  /\ result.binding \in Nat

\* A granted request got the binding the strategy documents: the first full
\* match, or the one with most hits, then most criteria, then the first; the
\* first catch-all only if nothing fits.  The single pass, the abandoned inner
\* loops and the expressions compiled on the way do not change that.
ChosenIsBest ==
  result.status = "granted" => result.binding \in Bindings /\ IsChosen(result.binding)

\* It is granted what the roles of that binding add up to, whatever provisional
\* winners were collated before.
GrantIsCollated ==
  result.status = "granted" => result.grant = Promised(result.binding)

\* A request is turned away for want of a binding only if nothing fits and
\* there is no catch-all.
DeniedWhenNoneFits ==
  result.status = "no match" => \A b \in Bindings : ~ Fits(b) /\ ~ Catchall(b)

\* A lookup fails on an unknown role only if a binding names one that is chosen
\* or, under best_match, that beats, with a hit or more, every binding listed
\* before it: the roles of a winner that loses in the end have a say, too.
Contender(b) == Score(b) > 0 /\ \A c \in 1 .. b - 1 : Score(c) > 0 => Beats(b, c)

RoleErrorsExplained ==
  result.status = "unknown role" =>
    \E b \in Bindings : ~ KnownRoles(b) /\ (IsChosen(b) \/ (~ Strict /\ Contender(b)))

\* "All claims ... are accessible by name in expressions" (role-binding.qmd): a
\* binding is granted for the claims of the request, whoever was looked up before.
HistoryFree ==
  result.status = "granted" =>
    \A k \in 1 .. Len(Match(result.binding)) :
      LET m == Match(result.binding)[k] IN Matched(m) => MatchedWith(m, {})

=============================================================================
