-------------------------- MODULE TokenExpiryProofs --------------------------
(***************************************************************************)
(* The bounds on a user JWT's life hold for any durations and ID token.    *)
(***************************************************************************)
EXTENDS TokenExpiry, TLAPS

\* The stages after a check has passed.
Checked  == {"timely", "verified", "enriched", "built", "signed"}
Bound    == {"verified", "enriched", "built", "signed"}
Built    == {"built", "signed"}

\* The expiry claimed is the ID token's until the claims are enriched, and
\* ever after if nothing rewrites it; once the times are checked it is positive.
ClaimInv ==
  /\ stage \in {"genuine", "timely", "verified"} => claimed = idToken.exp
  /\ stage \in Checked /\ Untouched => claimed = idToken.exp
  /\ stage \in Checked => idToken.exp >= 1

\* The upper validation bound was met when it was checked.
BoundInv ==
  stage \in Bound /\ set.idpMax > 0 => idToken.exp <= boundedAt + set.idpMax

\* The expiry calculated stays as it was calculated.
BuiltInv == stage \in Built => expires = calculateExpiration(builtAt)

IInv == ClaimInv /\ BoundInv /\ BuiltInv

\* A setting's durations are numbers, and those with defaults are positive.
LEMMA SettingType ==
  ASSUME set \in Setting
  PROVE  /\ set.idpMin \in Nat /\ set.idpMax \in Nat
         /\ set.bindingMax \in Nat /\ set.rbacMax \in Nat
         /\ set.natsMin \in Nat /\ set.natsMin >= 1
         /\ set.natsMax \in Nat /\ set.natsMax >= 1
         /\ set.maxLifetime \in Nat /\ set.skew \in Nat
  BY DEF Setting

\* What calculateExpiration returns is below each ceiling, is above the floor
\* unless one of them is lower, and is the role binding's if there is one.
LEMMA Calculation ==
  ASSUME set \in Setting, claimed \in Nat, NEW at \in Nat
  PROVE  LET e == calculateExpiration(at) IN
         /\ e \in Int
         /\ e <= claimed
         /\ e <= at + set.natsMax
         /\ e >= AtMost(AtMost(at + set.natsMin, at + set.natsMax), claimed)
         /\ set.bindingMax > 0 =>
              e = AtMost(AtMost(AtLeast(at + set.bindingMax, at + set.natsMin),
                                at + set.natsMax), claimed)
<1> DEFINE wanted == Assigned(WithinIdp(claimed, at), at)
<1>1. wanted \in Int
  BY SettingType DEF Assigned, WithinIdp, AtLeast, AtMost
<1>2. set.bindingMax > 0 => wanted = at + set.bindingMax
  BY DEF Assigned
<1>3. calculateExpiration(at) =
        AtMost(AtMost(AtLeast(wanted, at + set.natsMin), at + set.natsMax), claimed)
  BY DEF calculateExpiration, WithinNats
<1> HIDE DEF wanted
<1>4. ASSUME NEW w \in Int
      PROVE  LET e == AtMost(AtMost(AtLeast(w, at + set.natsMin), at + set.natsMax), claimed)
             IN  /\ e \in Int /\ e <= claimed /\ e <= at + set.natsMax
                 /\ e >= AtMost(AtMost(at + set.natsMin, at + set.natsMax), claimed)
  BY SettingType DEF AtMost, AtLeast
<1> QED
  BY <1>1, <1>2, <1>3, <1>4

\* It depends on the settings and the claimed expiry only.
LEMMA SameCalculation ==
  ASSUME UNCHANGED <<set, claimed>>
  PROVE  \A at : calculateExpiration(at)' = calculateExpiration(at)
<1>1. \A t, at : WithinIdp(t, at)' = WithinIdp(t, at)
  BY DEF WithinIdp
<1>2. \A t, at : Assigned(t, at)' = Assigned(t, at)
  BY DEF Assigned
<1>3. \A t, at : WithinNats(t, at)' = WithinNats(t, at)
  BY DEF WithinNats
<1> QED
  BY <1>1, <1>2, <1>3 DEF calculateExpiration

\* The clock moves on.
LEMMA ClockStep ==
  ASSUME TypeOK, Tick
  PROVE  now' \in Nat
<1>1. now \in Nat /\ now' = now + 1
  BY DEF TypeOK, Tick
<1> QED
  BY <1>1

\* What is within the upper bound when it is checked ends by then.
LEMMA WithinBound ==
  ASSUME NEW c \in Nat, NEW n \in Nat, NEW m \in Nat, c - n <= m
  PROVE  c <= n + m
  OBVIOUS

\* Every variable has its type in every reachable state.
THEOREM TypeCorrect == Spec => []TypeOK
<1>1. Init => TypeOK
  BY TokenExpiryAssumption DEF Init, TypeOK, Stages
<1>2. TypeOK /\ [Next]_vars => TypeOK'
  <2> SUFFICES ASSUME TypeOK, [Next]_vars PROVE TypeOK'
    OBVIOUS
  <2> USE DEF TypeOK, Stages, Refuse, Reach
  <2>1. CASE Tick
    BY <2>1, ClockStep DEF Tick
  <2>2. CASE OidcVerify
    BY <2>2 DEF OidcVerify
  <2>3. CASE ValidateTimes
    BY <2>3 DEF ValidateTimes
  <2>4. CASE ValidateExpiryBounds
    BY <2>4 DEF ValidateExpiryBounds
  <2>5. CASE Enrich
    BY <2>5, TokenExpiryAssumption DEF Enrich
  <2>6. CASE BuildClaims
    BY <2>6, Calculation DEF BuildClaims
  <2>7. CASE ValidateAndSign
    BY <2>7 DEF ValidateAndSign
  <2>8. CASE UNCHANGED vars
    BY <2>8 DEF vars
  <2> QED
    BY <2>1, <2>2, <2>3, <2>4, <2>5, <2>6, <2>7, <2>8 DEF Next
<1> QED
  BY <1>1, <1>2, PTL DEF Spec

\* The invariant that links the stages of a request.
THEOREM Inductive == Spec => []IInv
<1>1. Init => IInv
  BY DEF Init, IInv, ClaimInv, BoundInv, BuiltInv, Checked, Bound, Built
<1>2. TypeOK /\ TypeOK' /\ IInv /\ [Next]_vars => IInv'
  <2> SUFFICES ASSUME TypeOK, TypeOK', IInv, [Next]_vars PROVE IInv'
    OBVIOUS
  <2>0. UNCHANGED <<set, claimed>> =>
          \A at : calculateExpiration(at)' = calculateExpiration(at)
    BY SameCalculation
  <2> USE DEF TypeOK, IInv, ClaimInv, BoundInv, Checked, Bound, Built, Untouched, Refuse, Reach
  <2>1. CASE Tick
    <3>1. UNCHANGED <<set, idToken, stage, claimed, boundedAt, builtAt, expires>>
      BY <2>1 DEF Tick
    <3>2. BuiltInv'
      BY <2>0, <3>1 DEF BuiltInv
    <3> QED
      BY <3>1, <3>2
  <2>2. CASE OidcVerify
    BY <2>2 DEF OidcVerify, BuiltInv
  <2>3. CASE ValidateTimes
    BY <2>3, SettingType DEF ValidateTimes, InTime, BuiltInv
  <2>4. CASE ValidateExpiryBounds
    <3>1. BuiltInv'
      BY <2>4 DEF ValidateExpiryBounds, BuiltInv
    <3>2. ASSUME stage' = "verified", set.idpMax > 0
          PROVE  idToken.exp <= now + set.idpMax
      <4>1. claimed - now <= set.idpMax /\ claimed = idToken.exp
        BY <2>4, <3>2 DEF ValidateExpiryBounds, Bounded
      <4>2. idToken.exp \in Nat /\ now \in Nat /\ set.idpMax \in Nat
        BY SettingType
      <4> HIDE DEF TypeOK, IInv, ClaimInv, BoundInv
      <4> QED
        BY <4>1, <4>2, WithinBound
    <3> QED
      BY <2>4, <3>1, <3>2 DEF ValidateExpiryBounds
  <2>5. CASE Enrich
    BY <2>5 DEF Enrich, BuiltInv
  <2>6. CASE BuildClaims
    <3>1. BuiltInv'
      BY <2>0, <2>6 DEF BuildClaims, BuiltInv
    <3> QED
      BY <2>6, <3>1 DEF BuildClaims
  <2>7. CASE ValidateAndSign
    <3>1. BuiltInv'
      BY <2>0, <2>7 DEF ValidateAndSign, BuiltInv
    <3> QED
      BY <2>7, <3>1 DEF ValidateAndSign
  <2>8. CASE UNCHANGED vars
    <3>1. BuiltInv'
      BY <2>0, <2>8 DEF vars, BuiltInv
    <3> QED
      BY <2>8, <3>1 DEF vars
  <2> QED
    BY <2>1, <2>2, <2>3, <2>4, <2>5, <2>6, <2>7, <2>8 DEF Next
<1> QED
  BY <1>1, <1>2, TypeCorrect, PTL DEF Spec

-----------------------------------------------------------------------------
(***************************************************************************)
(* What follows from it.                                                   *)
(***************************************************************************)

\* A signed JWT expires, no later than the ID token and the NATS maximum.
THEOREM WithinGrantAlways == Spec => []WithinGrant
<1>1. TypeOK /\ IInv => WithinGrant
  <2> SUFFICES ASSUME TypeOK, IInv, Signed, Untouched
               PROVE  1 <= expires /\ expires <= idToken.exp /\ expires <= builtAt + set.natsMax
    BY DEF WithinGrant
  <2>1. claimed = idToken.exp /\ idToken.exp >= 1 /\ expires = calculateExpiration(builtAt)
    BY DEF IInv, ClaimInv, BuiltInv, Checked, Built, Signed
  <2>2. idToken.exp \in Nat /\ builtAt \in Nat /\ claimed \in Nat /\ set \in Setting
    BY DEF TypeOK
  <2>3. LET e == calculateExpiration(builtAt)
        IN  /\ e \in Int /\ e <= claimed /\ e <= builtAt + set.natsMax
            /\ e >= AtMost(AtMost(builtAt + set.natsMin, builtAt + set.natsMax), claimed)
    BY <2>2, Calculation
  <2>4. 1 <= AtMost(AtMost(builtAt + set.natsMin, builtAt + set.natsMax), claimed)
    BY <2>1, <2>2, SettingType DEF AtMost
  <2>5. AtMost(AtMost(builtAt + set.natsMin, builtAt + set.natsMax), claimed) \in Int
    BY <2>2, SettingType DEF AtMost
  <2> QED
    BY <2>1, <2>2, <2>3, <2>4, <2>5
<1> QED
  BY <1>1, Inductive, TypeCorrect, PTL

\* A JWT from an IdP with a maximal lifetime keeps to it.
THEOREM IdpMaxAlwaysHolds == Spec => []IdpMaxHolds
<1>1. TypeOK /\ IInv => IdpMaxHolds
  <2> SUFFICES ASSUME TypeOK, IInv, Signed, Untouched, set.idpMax > 0
               PROVE  expires <= boundedAt + set.idpMax
    BY DEF IdpMaxHolds
  <2>1. claimed = idToken.exp /\ expires = calculateExpiration(builtAt)
    BY DEF IInv, ClaimInv, BuiltInv, Checked, Built, Signed
  <2>2. expires <= idToken.exp
    BY <2>1, Calculation DEF TypeOK
  <2>3. idToken.exp <= boundedAt + set.idpMax
    BY DEF IInv, BoundInv, Bound, Signed
  <2>4. expires \in Int /\ idToken.exp \in Nat /\ boundedAt \in Nat /\ set.idpMax \in Nat
    BY SettingType DEF TypeOK
  <2> QED
    BY <2>2, <2>3, <2>4
<1> QED
  BY <1>1, Inductive, TypeCorrect, PTL

\* A role binding's expiry counts, as far as NATS and the ID token let it.
THEOREM BindingAlwaysOverrides == Spec => []BindingOverrides
<1>1. TypeOK /\ IInv => BindingOverrides
  BY Calculation DEF TypeOK, IInv, BuiltInv, Built, Signed, BindingOverrides
<1> QED
  BY <1>1, Inductive, TypeCorrect, PTL

\* Only the NATS maximum and the ID token cut a JWT shorter than the NATS minimum.
THEOREM AlwaysLivesLongEnough == Spec => []LivesLongEnough
<1>1. TypeOK /\ IInv => LivesLongEnough
  BY Calculation DEF TypeOK, IInv, ClaimInv, BuiltInv, Checked, Built, Signed, LivesLongEnough
<1> QED
  BY <1>1, Inductive, TypeCorrect, PTL

=============================================================================
