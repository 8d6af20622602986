----------------------------- MODULE TokenExpiry -----------------------------
(***************************************************************************)
(* One ID token on its way to a NATS user JWT, as time goes by: the checks *)
(* of idp_jwt_verifier.go and idp_jwt_claim.go, the enrichment of          *)
(* auth_callback.go, calculateExpiration of server.go and the signing in   *)
(* auth_service.go.  Each check reads the clock for itself, and a network  *)
(* call may lie between two readings.                                      *)
(*                                                                         *)
(* Times are whole seconds, as all the comparisons are.  A duration of 0   *)
(* is one that is not configured, a user JWT that expires at 0 never does. *)
(***************************************************************************)
EXTENDS Integers

CONSTANTS
  Settings,   \* the durations configured, and whether claims are rewritten
  IdTokens,   \* the [iat, exp] of ID tokens
  Rewrites,   \* expiries that userinfo or a custom mapping may put in
  MaxTime     \* bound: the clock stops there

Setting ==
  [idpMin : Nat, idpMax : Nat,              \* idp[].validation.token_bounds
   bindingMax : Nat, rbacMax : Nat,         \* token_max_expiration
   natsMin : Nat \ {0}, natsMax : Nat \ {0},  \* jwt_expiry_bounds, with defaults
   maxLifetime : Nat \ {0}, skew : Nat \ {0},
   rewrites : {"no", "yes"}]

ASSUME TokenExpiryAssumption ==
  /\ Settings \subseteq Setting
  /\ IdTokens \subseteq [iat : Nat, exp : Nat]
  /\ Rewrites \subseteq Nat
  /\ MaxTime \in Nat

VARIABLES
  now,         \* the broker's clock
  set,         \* the configured durations
  idToken,     \* the ID token presented
  stage,       \* how far the request is
  claimed,     \* reqClaims.Expiry
  boundedAt,   \* when the validation bounds were checked
  builtAt,     \* when the expiry was calculated
  expires,     \* claims.Expires of the user JWT
  verdict      \* why the request was refused

vars == <<now, set, idToken, stage, claimed, boundedAt, builtAt, expires, verdict>>

Stages == {"presented", "genuine", "timely", "verified", "enriched", "built",
           "signed", "refused"}

Init ==
  /\ now \in 1 .. MaxTime
  /\ set \in Settings
  /\ idToken \in IdTokens
  /\ stage = "presented"
  /\ claimed = 0 /\ boundedAt = 0 /\ builtAt = 0 /\ expires = 0
  /\ verdict = "none"

Tick ==
  /\ now < MaxTime
  /\ now' = now + 1
  /\ UNCHANGED <<set, idToken, stage, claimed, boundedAt, builtAt, expires, verdict>>

Refuse(reason) ==
  /\ stage' = "refused"
  /\ verdict' = reason
  /\ UNCHANGED <<now, set, idToken, claimed, boundedAt, builtAt, expires>>

Reach(next) ==
  /\ stage' = next
  /\ UNCHANGED <<now, set, idToken, verdict>>

(***************************************************************************)
(* go-oidc's Verify: the expiry first, then the signature, whose keys may  *)
(* have to be fetched.  At the very second of expiry it may go either way. *)
(***************************************************************************)

\* Fault: the lifetime is taken for the expiry.
OidcVerifyLifetime ==
  /\ stage = "presented"
  /\ \/ /\ now <= idToken.exp
        /\ Reach("genuine")
        /\ claimed' = idToken.exp - idToken.iat
        /\ UNCHANGED <<boundedAt, builtAt, expires>>
     \/ /\ now >= idToken.exp
        /\ Refuse("expired")

OidcVerify ==
  /\ stage = "presented"
  /\ \/ /\ now <= idToken.exp
        /\ Reach("genuine")
        /\ claimed' = idToken.exp
        /\ UNCHANGED <<boundedAt, builtAt, expires>>
     \/ /\ now >= idToken.exp
        /\ Refuse("expired")

InTime ==
  /\ idToken.iat >= 1
  /\ idToken.exp >= 1
  /\ idToken.exp <= now + set.maxLifetime
  /\ now >= idToken.iat - set.skew
  /\ now <= idToken.exp + set.skew

ValidateTimes ==
  /\ stage = "genuine"
  /\ \/ /\ InTime
        /\ Reach("timely")
        /\ UNCHANGED <<claimed, boundedAt, builtAt, expires>>
     \/ ~ InTime /\ Refuse("times")

Bounded == set.idpMin > 0 \/ set.idpMax > 0

\* Fault: only the lower bound is checked.
ValidateExpiryBoundsMin ==
  /\ stage = "timely"
  /\ \/ /\ Bounded /\ claimed - now < set.idpMin
        /\ Refuse("too short")
     \/ /\ ~ (Bounded /\ claimed - now < set.idpMin)
        /\ Reach("verified")
        /\ boundedAt' = now
        /\ UNCHANGED <<claimed, builtAt, expires>>

\* validateAgainstSpec: both bounds are checked once either is configured.
ValidateExpiryBounds ==
  /\ stage = "timely"
  /\ \/ /\ Bounded /\ claimed - now < set.idpMin
        /\ Refuse("too short")
     \/ /\ Bounded /\ claimed - now >= set.idpMin /\ claimed - now > set.idpMax
        /\ Refuse("too long")
     \/ /\ Bounded => claimed - now >= set.idpMin /\ claimed - now <= set.idpMax
        /\ Reach("verified")
        /\ boundedAt' = now
        /\ UNCHANGED <<claimed, builtAt, expires>>

\* The claims go through userinfo and the custom mapping, which may replace exp;
\* a value that is no number becomes 0.
Enrich ==
  /\ stage = "verified"
  /\ \/ UNCHANGED claimed
     \/ set.rewrites = "yes" /\ claimed' \in Rewrites
  /\ Reach("enriched")
  /\ UNCHANGED <<boundedAt, builtAt, expires>>

(***************************************************************************)
(* calculateExpiration.                                                    *)
(***************************************************************************)
AtLeast(time, floor)  == IF time < floor THEN floor ELSE time
AtMost(time, ceiling) == IF time > ceiling THEN ceiling ELSE time

\* 2. the validation bounds of the IdP, each if configured
WithinIdp(time, at) ==
  LET raised == IF set.idpMin > 0 THEN AtLeast(time, at + set.idpMin) ELSE time
  IN  IF set.idpMax > 0 THEN AtMost(raised, at + set.idpMax) ELSE raised

\* 3. the role binding replaces the expiry, else 4. the rbac section caps it
Assigned(time, at) ==
  IF set.bindingMax > 0 THEN at + set.bindingMax
  ELSE IF set.rbacMax > 0 THEN AtMost(time, at + set.rbacMax)
  ELSE time

\* 5. the NATS bounds, where the upper one has the last word
WithinNats(time, at) == AtMost(AtLeast(time, at + set.natsMin), at + set.natsMax)

\* Fault: without the ceiling.
calculateExpirationUncapped(at) == WithinNats(Assigned(WithinIdp(claimed, at), at), at)

\* Fault: the role binding is applied after the NATS bounds.
calculateExpirationLateBinding(at) ==
  AtMost(Assigned(WithinNats(WithinIdp(claimed, at), at), at), claimed)

\* 6. never beyond the IdP's expiry
calculateExpiration(at) == AtMost(WithinNats(Assigned(WithinIdp(claimed, at), at), at), claimed)

\* Fault: the lifetimes count from the verification.
BuildClaimsStale ==
  /\ stage = "enriched"
  /\ expires' = calculateExpiration(boundedAt)
  /\ builtAt' = now
  /\ Reach("built")
  /\ UNCHANGED <<claimed, boundedAt>>

BuildClaims ==
  /\ stage = "enriched"
  /\ expires' = calculateExpiration(now)
  /\ builtAt' = now
  /\ Reach("built")
  /\ UNCHANGED <<claimed, boundedAt>>

\* Only the blocking issues of claims.Validate keep a JWT from being signed, and
\* that it has expired by now is none.
ValidateAndSign ==
  /\ stage = "built"
  /\ Reach("signed")
  /\ UNCHANGED <<claimed, boundedAt, builtAt, expires>>

Next ==
  \/ Tick
  \/ OidcVerify
  \/ ValidateTimes
  \/ ValidateExpiryBounds
  \/ Enrich
  \/ BuildClaims
  \/ ValidateAndSign

Spec == Init /\ [][Next]_vars

-----------------------------------------------------------------------------
(***************************************************************************)
(* Properties.                                                             *)
(***************************************************************************)

\* Every variable has its type.
TypeOK ==
  /\ now \in Nat
  /\ set \in Setting
  /\ idToken \in [iat : Nat, exp : Nat]
  /\ stage \in Stages
  /\ claimed \in Nat /\ boundedAt \in Nat /\ builtAt \in Nat
  /\ expires \in Int
  /\ verdict \in {"none", "expired", "times", "too short", "too long"}

Signed == stage = "signed"

Untouched == set.rewrites = "no"

\* A signed user JWT never outlives the ID token nor the longest life NATS is
\* configured for, and does expire, whatever role binding, rbac and NATS bounds
\* say and however long each step took.
WithinGrant ==
  Signed /\ Untouched =>
    1 <= expires /\ expires <= idToken.exp /\ expires <= builtAt + set.natsMax

\* The longest life an IdP is allowed binds the user JWT too, counted from when
\* it was checked, although a role binding overrides it in the calculation.
IdpMaxHolds ==
  Signed /\ Untouched /\ set.idpMax > 0 => expires <= boundedAt + set.idpMax

\* A role binding's own expiry is the one that counts, up or down, as far as
\* the NATS bounds and the ID token let it.
BindingOverrides ==
  Signed /\ set.bindingMax > 0 =>
    expires = AtMost(AtMost(AtLeast(builtAt + set.bindingMax, builtAt + set.natsMin),
                            builtAt + set.natsMax),
                     claimed)

\* A user JWT lasts as long as NATS asks for at least, counted from when it was
\* made and not from when the ID token was checked, which may be long ago: only
\* the NATS maximum and the ID token's own end may cut it shorter.  Nothing looks
\* at the expiry again, so what runs out before it is signed is signed all the
\* same; that it was dead from birth can only be the ID token's doing.
LivesLongEnough ==
  Signed /\ Untouched =>
    expires >= AtMost(AtMost(builtAt + set.natsMin, builtAt + set.natsMax), idToken.exp)

\* "The broker never issues a NATS token that outlives the upstream IdP token"
\* (docs/site/configuration.qmd), with userinfo or a custom mapping in use.
NeverOutlivesIdpToken ==
  Signed => 1 <= expires /\ expires <= idToken.exp

=============================================================================
