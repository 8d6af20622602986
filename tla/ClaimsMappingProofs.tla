------------------------- MODULE ClaimsMappingProofs -------------------------
(***************************************************************************)
(* What becomes of a claim between the token and the context, for any      *)
(* claims, any mapping and any answer of the UserInfo endpoint.            *)
(***************************************************************************)
EXTENDS ClaimsMapping, TLAPS

\* The stages at which a request has claims that the client's are not merged into.
Held == {"verified", "valid", "enriched"}

\* The field that a set of claims gives to a standard claim.
FieldOf(m, k) == IF k \in DOMAIN m THEN Converted(k, m[k]) ELSE Zero(k)

Mapped(names) == {MappedName(k) : k \in names}

\* Nothing is in the fields before the ID token, and userinfo is asked once, after
\* the ID token was validated.
FreshInv ==
  /\ stage = "presented" => struct = [k \in Standard |-> Zero(k)]
  /\ stage \in {"presented", "verified", "valid"} => info = NoClaims

\* No text field holds null.
FieldInv == \A k \in Text : struct[k] # Null

\* A standard claim that no custom claim is mapped to is never a custom claim, and
\* its field is the one of the claims received last.
Unmapped == Standard \ {mapping[j] : j \in DOMAIN mapping \ Standard}

Latest == IF stage = "merged" THEN Over(client, Over(info, token)) ELSE Over(info, token)

StandInv ==
  stage \in Held \cup {"merged"} =>
    \A k \in Unmapped :
      /\ k \notin DOMAIN custom
      /\ struct[k] = FieldOf(Latest, k)
      /\ k \in Untyped \cap DOMAIN Latest => Latest[k] # Null

\* Under a flat mapping a custom claim keeps the name it was given, ...
NamesInv ==
  Flat =>
    /\ stage \in Held => \A n \in DOMAIN custom : MappedName(n) = n
    /\ stage = "merged" => DOMAIN custom \cap Standard = {}

\* ... it came from userinfo or else, as it is, from the ID token, ...
SourceInv ==
  Flat /\ stage \in Held =>
    \A n \in DOMAIN custom \ Mapped(DOMAIN info) :
      \E j \in DOMAIN token : MappedName(j) = n /\ custom[n] = token[j]

\* ... and a claim validation insisted on is still there or explained.
Lost(k) ==
  \/ k \in Mapped(DOMAIN info)
  \/ \E j \in DOMAIN token : MappedName(j) = k /\ token[j] \in Void

RequiredInv ==
  /\ Flat /\ stage \in {"valid", "enriched"} =>
       \A k \in required \ DOMAIN Context : Lost(k)
  /\ RequiredClaimsLast

\* What the documentation says the field of a standard claim is before the client's
\* claims are merged in: the one of userinfo, or else of the ID token, where a custom
\* claim mapped to it takes its place.
FieldFrom(m, k, field) ==
  IF \E j \in DOMAIN m \ Standard : MappedName(j) = k
    THEN \A j \in DOMAIN m \ Standard : MappedName(j) = k => field = Converted(k, m[j])
    ELSE field = FieldOf(m, k)

Told(answered, k, field) ==
  IF k \in Mapped(DOMAIN answered)
    THEN FieldFrom(answered, k, field)
    ELSE FieldFrom(token, k, field)

\* Under a flat mapping, and if no mapped claim is repeated, the custom claims that
\* do not take the place of standard ones are those documented ...
CustomInv ==
  Flat /\ ~ Repeats /\ stage \in Held \cup {"merged"} =>
    /\ DOMAIN custom \ Standard =
         Mapped((DOMAIN info \cup DOMAIN token) \ Standard) \ Standard
    /\ \A j \in DOMAIN info \ Standard :
         MappedName(j) \notin Standard => custom[MappedName(j)] = info[j]
    /\ \A j \in DOMAIN token \ Standard :
         MappedName(j) \notin Standard \cup Mapped(DOMAIN info) =>
           custom[MappedName(j)] = token[j]

\* ... and so are the standard ones: in the context, until the client's are merged
\* in, and in the fields from then on.  Whatever came is still there, since what
\* cannot be in a field ends the request.
StandardInv ==
  Flat /\ ~ Repeats =>
    /\ stage \in Held =>
         /\ \A k \in Standard : Told(info, k, FieldOf(Context, k))
         /\ Untyped \cap Mapped(DOMAIN info \cup DOMAIN token) \subseteq DOMAIN Context
    /\ stage = "merged" =>
         /\ \A k \in Standard \ DOMAIN client : Told(info, k, struct[k])
         /\ \A k \in DOMAIN client : struct[k] = Converted(k, client[k])
         /\ \A k \in Untyped \cap Mapped(DOMAIN info \cup DOMAIN token) : struct[k] # Null

-----------------------------------------------------------------------------
(***************************************************************************)
(* The conversions.                                                        *)
(***************************************************************************)

\* What one set of claims over another has.
LEMMA OverFacts ==
  ASSUME NEW f, NEW g
  PROVE  /\ \A k : k \in DOMAIN Over(f, g) <=> k \in DOMAIN f \/ k \in DOMAIN g
         /\ \A k \in DOMAIN f : Over(f, g)[k] = f[k]
         /\ \A k \in DOMAIN g \ DOMAIN f : Over(f, g)[k] = g[k]
  BY DEF Over

\* Values stay values.
LEMMA OverClaims ==
  ASSUME NEW f, NEW g, IsClaims(f), IsClaims(g)
  PROVE  IsClaims(Over(f, g))
  BY DEF Over, IsClaims

\* toMap: a claim is a custom claim, or a field that is not zero.
LEMMA toMapFacts ==
  ASSUME NEW s, NEW c, DOMAIN s = Standard
  PROVE  /\ \A k : k \in DOMAIN toMap(s, c) <=>
                     k \in DOMAIN c \/ (k \in Standard /\ s[k] # Zero(k))
         /\ \A k \in DOMAIN c : toMap(s, c)[k] = c[k]
         /\ \A k \in Standard \ DOMAIN c : s[k] # Zero(k) => toMap(s, c)[k] = s[k]
<1>1. /\ DOMAIN Fields(s) = {k \in Standard : s[k] # Zero(k)}
      /\ \A k \in Standard : s[k] # Zero(k) => Fields(s)[k] = s[k]
  BY DEF Fields, Only
<1> DEFINE fields == Fields(s)
<1>2. /\ \A k : k \in DOMAIN Over(c, fields) <=> k \in DOMAIN c \/ k \in DOMAIN fields
      /\ \A k \in DOMAIN c : Over(c, fields)[k] = c[k]
      /\ \A k \in DOMAIN fields \ DOMAIN c : Over(c, fields)[k] = fields[k]
  BY OverFacts
<1> HIDE DEF fields
<1>3. toMap(s, c) = Over(c, fields)
  BY DEF toMap, fields
<1> QED
  BY <1>1, <1>2, <1>3 DEF fields

\* What toMap returns are claims.
LEMMA toMapClaims ==
  ASSUME NEW s \in [Standard -> Values], NEW c, IsClaims(c)
  PROVE  IsClaims(toMap(s, c))
<1>1. IsClaims(Fields(s))
  BY DEF Fields, Only, IsClaims
<1> QED
  BY <1>1, OverClaims DEF toMap

\* A field that was converted once is not changed by converting it again, and it is
\* zero only if there is nothing in it.
LEMMA ConvertedFacts ==
  ASSUME NEW k \in Standard, NEW v
  PROVE  /\ Converted(k, Converted(k, v)) = Converted(k, v)
         /\ k \in Text => Converted(k, v) # Null /\ (Converted(k, v) = Zero(k) <=> v \in Void)
         /\ k \in Untyped => Converted(k, v) = v /\ Zero(k) = Null
         /\ Converted(k, Zero(k)) = Zero(k)
         /\ v \in Values => Converted(k, v) \in Values
  BY MappingAssumption DEF Converted, Zero, Void, Standard, Null, Empty

\* fromMap, when it does not panic.
LEMMA Converting ==
  ASSUME struct \in [Standard -> Values], NEW m, IsClaims(m), NEW next, FromMap(m, next),
         stage' # "panicked"
  PROVE  /\ stage' = next
         /\ \A k \in DOMAIN m \cap Untyped : m[k] # Null
         /\ struct' \in [Standard -> Values]
         /\ \A k \in Standard :
              struct'[k] = IF k \in DOMAIN m THEN Converted(k, m[k]) ELSE struct[k]
         /\ IsClaims(custom')
         /\ DOMAIN custom' = Mapped(DOMAIN m \ Standard)
         /\ \A n \in DOMAIN custom' :
              \E k \in DOMAIN m \ Standard : MappedName(k) = n /\ custom'[n] = m[k]
<1>1. /\ stage' = next /\ ~ SetPanics(m)
      /\ struct' = FieldsFrom(struct, m) /\ custom' \in CustomFrom(m)
  BY DEF FromMap
<1>2. \A k \in DOMAIN m \cap Untyped : m[k] # Null
  BY <1>1 DEF SetPanics
<1>3. \A k \in DOMAIN m : m[k] \in Values
  BY DEF IsClaims
<1>4. /\ struct' \in [Standard -> Values]
      /\ \A k \in Standard :
           struct'[k] = IF k \in DOMAIN m THEN Converted(k, m[k]) ELSE struct[k]
  BY <1>1, <1>3, ConvertedFacts DEF FieldsFrom
<1>5. /\ custom' \in [Mapped(DOMAIN m \ Standard) -> {m[k] : k \in DOMAIN m \ Standard}]
      /\ \A n \in DOMAIN custom' :
              \E k \in DOMAIN m \ Standard : MappedName(k) = n /\ custom'[n] = m[k]
  BY <1>1 DEF CustomFrom, Mapped
<1>6. IsClaims(custom')
  BY <1>3, <1>5 DEF IsClaims
<1> QED
  BY <1>1, <1>2, <1>4, <1>5, <1>6

\* The name a claim has keeps its standing.
LEMMA Names ==
  /\ \A k \in Standard : MappedName(k) = k
  /\ \A k : MappedName(k) \in Standard => k \in Standard \/ MappedName(k) \in
              {mapping[j] : j \in DOMAIN mapping \ Standard}
  BY DEF MappedName

-----------------------------------------------------------------------------
(***************************************************************************)
(* Types, and where every step starts from.                                *)
(***************************************************************************)

\* The types of what fromMap leaves, panicked or not.
LEMMA ConvertingType ==
  ASSUME TypeOK, NEW m, IsClaims(m), NEW next \in Stages, FromMap(m, next)
  PROVE  stage' \in Stages /\ struct' \in [Standard -> Values] /\ IsClaims(custom')
<1>1. CASE stage' = "panicked"
  <2>1. struct \in [Standard -> Values] /\ IsClaims(custom) /\ next \in Stages
    BY DEF TypeOK
  <2>2. CASE SetPanics(m)
    BY <1>1, <2>1, <2>2 DEF FromMap, Stages, IsClaims
  <2>3. CASE ~ SetPanics(m)
    <3>1. struct' = FieldsFrom(struct, m) /\ custom' \in CustomFrom(m)
      BY <2>3 DEF FromMap
    <3>2. struct' \in [Standard -> Values]
      BY <2>1, <3>1, ConvertedFacts DEF FieldsFrom, IsClaims
    <3>3. IsClaims(custom')
      BY <3>1 DEF CustomFrom, IsClaims
    <3> QED
      BY <1>1, <3>2, <3>3 DEF Stages
  <2> QED
    BY <2>2, <2>3
<1>2. CASE stage' # "panicked"
  <2>1. struct \in [Standard -> Values]
    BY DEF TypeOK
  <2>2. stage' = next /\ struct' \in [Standard -> Values] /\ IsClaims(custom')
    BY <1>2, <2>1, Converting
  <2> QED
    BY <2>2
<1> QED
  BY <1>1, <1>2

\* The claims of the context.
LEMMA ContextFacts ==
  ASSUME TypeOK
  PROVE  /\ \A k : k \in DOMAIN Context <=>
                     k \in DOMAIN custom \/ (k \in Standard /\ struct[k] # Zero(k))
         /\ \A k \in DOMAIN custom : Context[k] = custom[k]
         /\ \A k \in Standard \ DOMAIN custom : struct[k] # Zero(k) => Context[k] = struct[k]
         /\ IsClaims(Context)
<1>1. struct \in [Standard -> Values] /\ DOMAIN struct = Standard /\ IsClaims(custom)
  BY DEF TypeOK
<1>2. /\ \A k : k \in DOMAIN toMap(struct, custom) <=>
                  k \in DOMAIN custom \/ (k \in Standard /\ struct[k] # Zero(k))
      /\ \A k \in DOMAIN custom : toMap(struct, custom)[k] = custom[k]
      /\ \A k \in Standard \ DOMAIN custom :
           struct[k] # Zero(k) => toMap(struct, custom)[k] = struct[k]
  BY <1>1, toMapFacts
<1>3. IsClaims(toMap(struct, custom))
  BY <1>1, toMapClaims
<1> QED
  BY <1>2, <1>3 DEF Context

\* Every step keeps the types.
LEMMA TypeStep ==
  ASSUME TypeOK, [Next]_vars
  PROVE  TypeOK'
<1>1. IsClaims(Context)
  BY ContextFacts
<1>2. CASE verifyJWT
  <2>1. stage' \in Stages /\ struct' \in [Standard -> Values] /\ IsClaims(custom')
    BY <1>2, ConvertingType DEF verifyJWT, TypeOK, Stages
  <2> QED
    BY <1>2, <2>1 DEF verifyJWT, inputs, TypeOK, IsClaims
<1>3. CASE exists
  BY <1>3 DEF exists, inputs, TypeOK, Stages, IsClaims
<1>4. CASE EnrichNot
  BY <1>4 DEF EnrichNot, inputs, TypeOK, Stages, IsClaims
<1>5. ASSUME NEW answered \in UserInfos, EnrichFrom(answered, Over(answered, Context))
      PROVE  TypeOK'
  <2>1. IsClaims(answered)
    BY MappingAssumption
  <2>2. IsClaims(Over(answered, Context))
    BY <1>1, <2>1, OverClaims
  <2>3. stage' \in Stages /\ struct' \in [Standard -> Values] /\ IsClaims(custom')
    BY <1>5, <2>2, ConvertingType DEF EnrichFrom, Stages
  <2> QED
    BY <1>5, <2>1, <2>3 DEF EnrichFrom, inputs, TypeOK, IsClaims
<1>6. CASE handleAuthRequest
  <2>1. IsClaims(Over(client, Context))
    BY <1>1, OverClaims DEF TypeOK
  <2>2. stage' \in Stages /\ struct' \in [Standard -> Values] /\ IsClaims(custom')
    BY <1>6, <2>1, ConvertingType DEF handleAuthRequest, Stages
  <2> QED
    BY <1>6, <2>2 DEF handleAuthRequest, inputs, TypeOK, IsClaims
<1>7. CASE UNCHANGED vars
  BY <1>7 DEF vars, TypeOK, IsClaims
<1> QED
  BY <1>2, <1>3, <1>4, <1>5, <1>6, <1>7 DEF Next, verifyAndEnrich

\* The client's claims are text.
ClientInv == client \in Clients

\* Until userinfo is asked there is none of it.
LEMMA FreshStep ==
  ASSUME TypeOK, FreshInv, ClientInv, [Next]_vars
  PROVE  FreshInv' /\ ClientInv'
<1>1. verifyJWT \/ exists \/ EnrichNot \/ UNCHANGED vars => FreshInv' /\ ClientInv'
  BY DEF verifyJWT, exists, EnrichNot, vars, inputs, FromMap, FreshInv, ClientInv
<1>2. ASSUME NEW answered, NEW claims, EnrichFrom(answered, claims) PROVE FreshInv' /\ ClientInv'
  BY <1>2 DEF EnrichFrom, inputs, FromMap, FreshInv, ClientInv
<1>3. handleAuthRequest => FreshInv' /\ ClientInv'
  BY DEF handleAuthRequest, inputs, FromMap, FreshInv, ClientInv
<1> QED
  BY <1>1, <1>2, <1>3 DEF Next, verifyAndEnrich

\* A conversion leaves no null in a text field.
LEMMA FieldStep ==
  ASSUME TypeOK, FieldInv, [Next]_vars
  PROVE  FieldInv'
<1>1. ASSUME NEW m, NEW next, FromMap(m, next) PROVE FieldInv'
  <2>1. CASE UNCHANGED struct
    BY <2>1 DEF FieldInv
  <2>2. CASE struct' = FieldsFrom(struct, m)
    <3>1. \A k \in Text : k \in Standard
      BY DEF Standard
    <3> QED
      BY <2>2, <3>1, ConvertedFacts DEF FieldInv, FieldsFrom
  <2> QED
    BY <1>1, <2>1, <2>2 DEF FromMap
<1>2. exists \/ EnrichNot \/ UNCHANGED vars => FieldInv'
  BY DEF exists, EnrichNot, vars, FieldInv
<1> QED
  BY <1>1, <1>2 DEF Next, verifyJWT, verifyAndEnrich, EnrichFrom, handleAuthRequest

-----------------------------------------------------------------------------
(***************************************************************************)
(* Standard claims.                                                        *)
(***************************************************************************)

\* New claims over the context: a standard claim no mapping reaches is in its field
\* as the new claims have it, and as the old ones have it otherwise.
LEMMA StandMerge ==
  ASSUME TypeOK, NEW old, NEW new, IsClaims(new), NEW next,
         FromMap(Over(new, Context), next), stage' # "panicked",
         NEW k \in Unmapped, k \notin DOMAIN custom,
         struct[k] = FieldOf(old, k),
         k \in Untyped \cap DOMAIN old => old[k] # Null
  PROVE  /\ k \notin DOMAIN custom'
         /\ struct'[k] = FieldOf(Over(new, old), k)
         /\ k \in Untyped \cap DOMAIN Over(new, old) => Over(new, old)[k] # Null
<1> DEFINE m == Over(new, Context)
           latest == Over(new, old)
<1>1. k \in Standard /\ struct \in [Standard -> Values]
  BY DEF Unmapped, TypeOK
<1>2. IsClaims(m)
  BY ContextFacts, OverClaims
<1>3. /\ \A j : j \in DOMAIN m <=> j \in DOMAIN new \/ j \in DOMAIN Context
      /\ k \in DOMAIN new => m[k] = new[k]
      /\ k \in DOMAIN Context \ DOMAIN new => m[k] = Context[k]
  BY OverFacts
<1>4. /\ \A j : j \in DOMAIN latest <=> j \in DOMAIN new \/ j \in DOMAIN old
      /\ k \in DOMAIN new => latest[k] = new[k]
      /\ k \in DOMAIN old \ DOMAIN new => latest[k] = old[k]
  BY OverFacts
<1>5. /\ k \in DOMAIN Context <=> struct[k] # Zero(k)
      /\ k \in DOMAIN Context => Context[k] = struct[k]
  BY <1>1, ContextFacts
<1>6. Converted(k, struct[k]) = struct[k]
  BY <1>1, ConvertedFacts DEF FieldOf
<1> HIDE DEF m, latest
<1>7. /\ \A j \in DOMAIN m \cap Untyped : m[j] # Null
      /\ struct'[k] = IF k \in DOMAIN m THEN Converted(k, m[k]) ELSE struct[k]
      /\ DOMAIN custom' = Mapped(DOMAIN m \ Standard)
  BY <1>1, <1>2, Converting DEF m
<1>8. k \notin DOMAIN custom'
  <2>1. \A j : j \notin Standard => MappedName(j) # k
    BY <1>1, Names DEF Unmapped
  <2> QED
    BY <1>7, <2>1 DEF Mapped
<1>9. struct'[k] = FieldOf(latest, k)
  <2>1. CASE k \in DOMAIN new
    BY <1>3, <1>4, <1>7, <2>1 DEF FieldOf
  <2>2. CASE k \notin DOMAIN new
    <3>1. FieldOf(latest, k) = FieldOf(old, k)
      BY <1>4, <2>2 DEF FieldOf
    <3>2. struct'[k] = struct[k]
      BY <1>3, <1>5, <1>6, <1>7, <2>2
    <3> QED
      BY <3>1, <3>2
  <2> QED
    BY <2>1, <2>2
<1>10. k \in Untyped \cap DOMAIN latest => latest[k] # Null
  BY <1>3, <1>4, <1>7
<1> QED
  BY <1>8, <1>9, <1>10 DEF latest

\* Every step takes the standard claims along.
LEMMA StandStep ==
  ASSUME TypeOK, FreshInv, StandInv, [Next]_vars
  PROVE  StandInv'
<1>1. DOMAIN NoClaims = {}
  BY DEF NoClaims
<1>2. /\ \A k : k \in DOMAIN Over(NoClaims, token) <=> k \in DOMAIN token
      /\ \A k \in DOMAIN token : Over(NoClaims, token)[k] = token[k]
      /\ \A k : FieldOf(Over(NoClaims, token), k) = FieldOf(token, k)
  BY <1>1, OverFacts DEF FieldOf
<1>3. CASE verifyJWT
  <2>1. CASE stage' = "panicked"
    BY <2>1 DEF StandInv, Held
  <2>2. CASE stage' # "panicked"
    <3>1. /\ info' = NoClaims /\ struct = [k \in Standard |-> Zero(k)]
          /\ UNCHANGED <<mapping, token, client>>
      BY <1>3 DEF verifyJWT, inputs, FreshInv
    <3>2. /\ stage' = "verified"
          /\ \A k \in DOMAIN token \cap Untyped : token[k] # Null
          /\ \A k \in Standard :
               struct'[k] = IF k \in DOMAIN token THEN Converted(k, token[k]) ELSE struct[k]
          /\ DOMAIN custom' = Mapped(DOMAIN token \ Standard)
      BY <1>3, <2>2, Converting DEF verifyJWT, TypeOK
    <3>3. \A k \in Unmapped : k \notin DOMAIN custom' /\ struct'[k] = FieldOf(token, k)
      <4>1. \A k \in Unmapped : \A j : j \notin Standard => MappedName(j) # k
        BY Names DEF Unmapped
      <4> QED
        BY <3>1, <3>2, <4>1 DEF Mapped, FieldOf, Unmapped
    <3>4. Latest' = Over(NoClaims, token) /\ Unmapped' = Unmapped
      BY <3>1, <3>2 DEF Latest, Unmapped
    <3> QED
      BY <1>2, <3>2, <3>3, <3>4 DEF StandInv, FieldOf
  <2> QED
    BY <2>1, <2>2
<1>4. CASE exists \/ EnrichNot \/ UNCHANGED vars
  <2>1. /\ UNCHANGED <<mapping, token, client, info, struct, custom>>
        /\ stage' \in Held \cup {"merged"} => stage \in Held \cup {"merged"}
        /\ stage' = "merged" <=> stage = "merged"
    BY <1>4 DEF exists, EnrichNot, vars, inputs, Held
  <2>2. Latest' = Latest /\ Unmapped' = Unmapped
    BY <2>1 DEF Latest, Unmapped
  <2> QED
    BY <2>1, <2>2 DEF StandInv, FieldOf
<1>5. ASSUME NEW answered \in UserInfos, EnrichFrom(answered, Over(answered, Context))
      PROVE  StandInv'
  <2>1. CASE stage' = "panicked"
    BY <2>1 DEF StandInv, Held
  <2>2. CASE stage' # "panicked"
    <3>1. /\ stage = "valid" /\ info = NoClaims /\ info' = answered
          /\ FromMap(Over(answered, Context), "enriched")
          /\ UNCHANGED <<mapping, token, client>>
      BY <1>5 DEF EnrichFrom, inputs, FreshInv
    <3>2. IsClaims(answered)
      BY MappingAssumption
    <3>3. stage' = "enriched"
      BY <2>2, <3>1 DEF FromMap
    <3>4. \A k \in Unmapped :
            /\ k \notin DOMAIN custom
            /\ struct[k] = FieldOf(token, k)
            /\ k \in Untyped \cap DOMAIN token => token[k] # Null
      BY <1>2, <3>1 DEF StandInv, Latest, Held
    <3>5. \A k \in Unmapped :
            /\ k \notin DOMAIN custom'
            /\ struct'[k] = FieldOf(Over(answered, token), k)
            /\ k \in Untyped \cap DOMAIN Over(answered, token) => Over(answered, token)[k] # Null
      BY <2>2, <3>1, <3>2, <3>4, StandMerge
    <3>6. Latest' = Over(answered, token) /\ Unmapped' = Unmapped
      BY <3>1, <3>3 DEF Latest, Unmapped
    <3> QED
      BY <3>5, <3>6 DEF StandInv, FieldOf
  <2> QED
    BY <2>1, <2>2
<1>6. CASE handleAuthRequest
  <2>1. CASE stage' = "panicked"
    BY <2>1 DEF StandInv, Held
  <2>2. CASE stage' # "panicked"
    <3>1. /\ stage = "enriched" /\ FromMap(Over(client, Context), "merged")
          /\ UNCHANGED <<mapping, token, client, info>>
      BY <1>6 DEF handleAuthRequest, inputs
    <3>2. stage' = "merged" /\ IsClaims(client)
      BY <2>2, <3>1 DEF FromMap, TypeOK
    <3>3. \A k \in Unmapped :
            /\ k \notin DOMAIN custom
            /\ struct[k] = FieldOf(Latest, k)
            /\ k \in Untyped \cap DOMAIN Latest => Latest[k] # Null
      BY <3>1 DEF StandInv, Held
    <3>4. \A k \in Unmapped :
            /\ k \notin DOMAIN custom'
            /\ struct'[k] = FieldOf(Over(client, Latest), k)
            /\ k \in Untyped \cap DOMAIN Over(client, Latest) => Over(client, Latest)[k] # Null
      BY <2>2, <3>1, <3>2, <3>3, StandMerge
    <3>5. Latest' = Over(client, Latest) /\ Unmapped' = Unmapped
      BY <3>1, <3>2 DEF Latest, Unmapped
    <3> QED
      BY <3>4, <3>5 DEF StandInv, FieldOf
  <2> QED
    BY <2>1, <2>2
<1> QED
  BY <1>3, <1>4, <1>5, <1>6 DEF Next, verifyAndEnrich

-----------------------------------------------------------------------------
(***************************************************************************)
(* Custom claims under a flat mapping.                                     *)
(***************************************************************************)

\* The claims of the context after a step.
LEMMA ContextNext ==
  ASSUME TypeOK'
  PROVE  /\ \A k : k \in DOMAIN Context' <=>
                     k \in DOMAIN custom' \/ (k \in Standard /\ struct'[k] # Zero(k))
         /\ \A k \in DOMAIN custom' : Context'[k] = custom'[k]
         /\ \A k \in Standard \ DOMAIN custom' : struct'[k] # Zero(k) => Context'[k] = struct'[k]
<1>1. DOMAIN struct' = Standard
  BY DEF TypeOK
<1>2. /\ \A k : k \in DOMAIN toMap(struct', custom') <=>
                  k \in DOMAIN custom' \/ (k \in Standard /\ struct'[k] # Zero(k))
      /\ \A k \in DOMAIN custom' : toMap(struct', custom')[k] = custom'[k]
      /\ \A k \in Standard \ DOMAIN custom' :
           struct'[k] # Zero(k) => toMap(struct', custom')[k] = struct'[k]
  BY <1>1, toMapFacts
<1> QED
  BY <1>2 DEF Context

\* The mapping of the IdP stays the same, and so do the names, ...
LEMMA NamesStay ==
  ASSUME UNCHANGED mapping
  PROVE  /\ \A k : MappedName(k)' = MappedName(k)
         /\ Mapped(DOMAIN info)' = Mapped(DOMAIN info')
         /\ Mapped(DOMAIN token)' = Mapped(DOMAIN token')
<1>1. \A k : MappedName(k)' = MappedName(k)
  BY DEF MappedName
<1> QED
  BY <1>1 DEF Mapped

\* ... and a mapping that is flat for what userinfo adds was flat before.
LEMMA FlatStep ==
  ASSUME FreshInv, [Next]_vars, Flat'
  PROVE  /\ Flat
         /\ \A k \in DOMAIN token \cup DOMAIN info' :
              MappedName(MappedName(k)) = MappedName(k)
         /\ \A j, k \in (DOMAIN token \cup DOMAIN info') \ Standard :
              MappedName(j) = MappedName(k) => j = k
<1>1. UNCHANGED <<mapping, token>> /\ (info' = info \/ info = NoClaims)
  BY DEF Next, verifyJWT, exists, verifyAndEnrich, EnrichNot, EnrichFrom, handleAuthRequest,
         inputs, vars, FreshInv
<1>2. DOMAIN NoClaims = {}
  BY DEF NoClaims
<1>3. \A k : MappedName(k)' = MappedName(k)
  BY <1>1, NamesStay
<1>4. /\ \A k \in DOMAIN token \cup DOMAIN info' :
              MappedName(MappedName(k)) = MappedName(k)
      /\ \A j, k \in (DOMAIN token \cup DOMAIN info') \ Standard :
              MappedName(j) = MappedName(k) => j = k
  BY <1>1, <1>3 DEF Flat, Received, MappedName
<1> QED
  BY <1>1, <1>2, <1>4 DEF Flat, Received

\* What becomes of the claims when new ones are written over them, if the custom
\* claims keep their names.
NamesFixed == \A n \in DOMAIN custom : MappedName(n) = n

MergedOver(new) ==
  /\ DOMAIN custom' = Mapped(DOMAIN new \ Standard) \cup (DOMAIN custom \ Standard)
  /\ \A n \in DOMAIN custom' :
       \/ \E k \in DOMAIN new \ Standard : MappedName(k) = n /\ custom'[n] = new[k]
       \/ n \in DOMAIN custom \ (Standard \cup DOMAIN new) /\ custom'[n] = custom[n]
  /\ \A k \in Standard :
       struct'[k] = IF k \in DOMAIN new THEN Converted(k, new[k]) ELSE FieldOf(Context, k)
  /\ \A k \in Untyped \cap DOMAIN new : new[k] # Null
  /\ \A k \in (Untyped \cap DOMAIN Context) \ DOMAIN new : Context[k] # Null

\* What a merge by way of the JSON map leaves in the structure.
LEMMA Merging ==
  ASSUME TypeOK, NEW new, IsClaims(new), NEW next,
         FromMap(Over(new, Context), next), stage' # "panicked", NamesFixed
  PROVE  MergedOver(new)
<1> DEFINE m == Over(new, Context)
<1>1. struct \in [Standard -> Values] /\ IsClaims(m)
  BY ContextFacts, OverClaims DEF TypeOK
<1>2. /\ \A j : j \in DOMAIN m <=> j \in DOMAIN new \/ j \in DOMAIN Context
      /\ \A k \in DOMAIN new : m[k] = new[k]
      /\ \A k \in DOMAIN Context \ DOMAIN new : m[k] = Context[k]
  BY OverFacts
<1> HIDE DEF m
<1>3. /\ \A k \in DOMAIN m \cap Untyped : m[k] # Null
      /\ \A k \in Standard :
           struct'[k] = IF k \in DOMAIN m THEN Converted(k, m[k]) ELSE struct[k]
      /\ DOMAIN custom' = Mapped(DOMAIN m \ Standard)
      /\ \A n \in DOMAIN custom' :
           \E k \in DOMAIN m \ Standard : MappedName(k) = n /\ custom'[n] = m[k]
  BY <1>1, Converting DEF m
<1>4. /\ \A k : k \in DOMAIN Context \ Standard <=> k \in DOMAIN custom \ Standard
      /\ \A k \in DOMAIN custom : Context[k] = custom[k]
      /\ \A k \in Standard \ DOMAIN Context : struct[k] = Zero(k)
  BY ContextFacts
<1>5. DOMAIN custom' = Mapped(DOMAIN new \ Standard) \cup (DOMAIN custom \ Standard)
  <2>1. \A k : k \in DOMAIN m \ Standard <=>
                 k \in DOMAIN new \ Standard \/ k \in DOMAIN custom \ Standard
    BY <1>2, <1>4
  <2>2. \A n : n \in Mapped(DOMAIN m \ Standard) <=>
                 n \in Mapped(DOMAIN new \ Standard) \/ n \in DOMAIN custom \ Standard
    BY <2>1 DEF Mapped, NamesFixed
  <2> QED
    BY <1>3, <2>2
<1>6. ASSUME NEW n \in DOMAIN custom'
      PROVE  \/ \E k \in DOMAIN new \ Standard : MappedName(k) = n /\ custom'[n] = new[k]
             \/ n \in DOMAIN custom \ (Standard \cup DOMAIN new) /\ custom'[n] = custom[n]
  <2>1. PICK k \in DOMAIN m \ Standard : MappedName(k) = n /\ custom'[n] = m[k]
    BY <1>3
  <2>2. CASE k \in DOMAIN new
    BY <1>2, <2>1, <2>2
  <2>3. CASE k \notin DOMAIN new
    <3>1. k \in DOMAIN custom \ Standard /\ m[k] = custom[k]
      BY <1>2, <1>4, <2>1, <2>3
    <3>2. k = n
      BY <2>1, <3>1 DEF NamesFixed
    <3> QED
      BY <2>1, <2>3, <3>1, <3>2
  <2> QED
    BY <2>2, <2>3
<1>7. ASSUME NEW k \in Standard
      PROVE  struct'[k] = IF k \in DOMAIN new THEN Converted(k, new[k]) ELSE FieldOf(Context, k)
  BY <1>2, <1>3, <1>4 DEF FieldOf
<1>8. /\ \A k \in Untyped \cap DOMAIN new : new[k] # Null
      /\ \A k \in (Untyped \cap DOMAIN Context) \ DOMAIN new : Context[k] # Null
  BY <1>2, <1>3
<1> QED
  BY <1>5, <1>6, <1>7, <1>8 DEF MergedOver

\* Under a flat mapping names are given once, and with them a source.
LEMMA NamesStep ==
  ASSUME TypeOK, FreshInv, ClientInv, NamesInv, SourceInv, [Next]_vars
  PROVE  NamesInv' /\ SourceInv'
<1> SUFFICES ASSUME Flat'
             PROVE  NamesInv' /\ SourceInv'
  BY DEF NamesInv, SourceInv
<1>1. /\ Flat
      /\ \A k \in DOMAIN token \cup DOMAIN info' : MappedName(MappedName(k)) = MappedName(k)
  BY FlatStep
<1>2. UNCHANGED <<mapping, token, client>>
  BY DEF Next, verifyJWT, exists, verifyAndEnrich, EnrichNot, EnrichFrom, handleAuthRequest,
         inputs, vars
<1>3. /\ \A k : MappedName(k)' = MappedName(k)
      /\ Mapped(DOMAIN info)' = Mapped(DOMAIN info')
  BY <1>2, NamesStay
<1>4. CASE stage' \notin Held \cup {"merged"}
  BY <1>4 DEF NamesInv, SourceInv
<1>5. CASE verifyJWT /\ stage' # "panicked"
  <2>1. /\ stage' = "verified"
        /\ DOMAIN custom' = Mapped(DOMAIN token \ Standard)
        /\ \A n \in DOMAIN custom' :
              \E k \in DOMAIN token \ Standard : MappedName(k) = n /\ custom'[n] = token[k]
    BY <1>5, Converting DEF verifyJWT, TypeOK
  <2>2. \A n \in DOMAIN custom' : MappedName(n) = n
    BY <1>1, <2>1
  <2>3. NamesInv'
    BY <1>3, <2>1, <2>2 DEF NamesInv, MappedName
  <2> QED
    BY <1>2, <1>3, <2>1, <2>3 DEF SourceInv, MappedName
<1>6. CASE exists \/ EnrichNot \/ UNCHANGED vars
  <2>1. /\ UNCHANGED <<info, custom>>
        /\ stage' \in Held => stage \in Held
        /\ stage' = "merged" <=> stage = "merged"
    BY <1>6 DEF exists, EnrichNot, vars, inputs, Held
  <2>2. NamesInv'
    BY <1>1, <1>2, <2>1 DEF NamesInv, MappedName
  <2> QED
    BY <1>1, <1>2, <1>3, <2>1, <2>2 DEF SourceInv, MappedName
<1>7. ASSUME NEW answered \in UserInfos, EnrichFrom(answered, Over(answered, Context)),
             stage' # "panicked"
      PROVE  NamesInv' /\ SourceInv'
  <2>1. /\ stage = "valid" /\ info' = answered /\ info = NoClaims
        /\ FromMap(Over(answered, Context), "enriched") /\ IsClaims(answered)
    BY <1>7, MappingAssumption DEF EnrichFrom, FreshInv
  <2>2. stage' = "enriched" /\ NamesFixed
    BY <1>1, <1>7, <2>1 DEF FromMap, NamesInv, Held, NamesFixed
  <2>3. \A n \in DOMAIN custom' :
          \/ \E k \in DOMAIN answered \ Standard : MappedName(k) = n /\ custom'[n] = answered[k]
          \/ n \in DOMAIN custom \ (Standard \cup DOMAIN answered) /\ custom'[n] = custom[n]
    <3>1. MergedOver(answered)
      BY <1>7, <2>1, <2>2, Merging
    <3> QED
      BY <3>1 DEF MergedOver
  <2>4. \A n \in DOMAIN custom' : MappedName(n) = n
    BY <1>1, <2>1, <2>2, <2>3 DEF NamesFixed
  <2>5. NamesInv'
    BY <1>3, <2>2, <2>4 DEF NamesInv, MappedName
  <2>6. \A n \in DOMAIN custom : \E j \in DOMAIN token : MappedName(j) = n /\ custom[n] = token[j]
    <3>1. Mapped(DOMAIN info) = {}
      BY <2>1 DEF Mapped, NoClaims
    <3> QED
      BY <1>1, <2>1, <3>1 DEF SourceInv, Held
  <2>7. \A n \in DOMAIN custom' \ Mapped(DOMAIN answered) :
          \E j \in DOMAIN token : MappedName(j) = n /\ custom'[n] = token[j]
    BY <2>3, <2>6 DEF Mapped
  <2>8. SourceInv'
    BY <1>2, <1>3, <2>1, <2>2, <2>7 DEF SourceInv, MappedName
  <2> QED
    BY <2>5, <2>8
<1>8. CASE handleAuthRequest /\ stage' # "panicked"
  <2>1. stage = "enriched" /\ FromMap(Over(client, Context), "merged") /\ IsClaims(client)
    BY <1>8 DEF handleAuthRequest, TypeOK
  <2>2. stage' = "merged" /\ NamesFixed
    BY <1>1, <1>8, <2>1 DEF FromMap, NamesInv, Held, NamesFixed
  <2>3. DOMAIN custom' = Mapped(DOMAIN client \ Standard) \cup (DOMAIN custom \ Standard)
    <3>1. MergedOver(client)
      BY <1>8, <2>1, <2>2, Merging
    <3> QED
      BY <3>1 DEF MergedOver
  <2>4. DOMAIN client \subseteq Standard
    BY MappingAssumption DEF ClientInv, Standard
  <2>5. DOMAIN custom' \cap Standard = {}
    BY <2>3, <2>4 DEF Mapped
  <2> QED
    BY <2>2, <2>5 DEF NamesInv, SourceInv, Held
<1> QED
  BY <1>4, <1>5, <1>6, <1>7, <1>8 DEF Next, verifyAndEnrich, Held

-----------------------------------------------------------------------------
(***************************************************************************)
(* The claims validation insisted on.                                      *)
(***************************************************************************)

\* A claim of the context is lost only when nothing is put in its place, or when it
\* is a custom claim that takes the place of a field with nothing in it.
LEMMA Carried ==
  ASSUME TypeOK, TypeOK', FieldInv, NEW new, MergedOver(new), NEW k \in DOMAIN Context
  PROVE  \/ k \in DOMAIN Context'
         \/ k \in DOMAIN new /\ new[k] \in Void
         \/ k \in DOMAIN custom /\ custom[k] \in Void
<1>1. /\ k \in DOMAIN custom' => k \in DOMAIN Context'
      /\ k \in Standard /\ struct'[k] # Zero(k) => k \in DOMAIN Context'
  BY ContextNext
<1>2. CASE k \notin Standard
  <2>1. k \in DOMAIN custom
    BY <1>2, ContextFacts
  <2> QED
    BY <1>1, <1>2, <2>1 DEF MergedOver
<1>3. CASE k \in Standard /\ k \in DOMAIN new
  <2>1. struct'[k] = Converted(k, new[k]) /\ (k \in Untyped => new[k] # Null)
    BY <1>3 DEF MergedOver
  <2> QED
    BY <1>1, <1>3, <2>1, ConvertedFacts DEF Standard
<1>4. CASE k \in Standard /\ k \notin DOMAIN new
  <2>1. struct'[k] = Converted(k, Context[k]) /\ (k \in Untyped => Context[k] # Null)
    BY <1>4 DEF MergedOver, FieldOf
  <2>2. CASE k \in DOMAIN custom
    <3>1. Context[k] = custom[k]
      BY <2>2, ContextFacts
    <3> QED
      BY <1>1, <1>4, <2>1, <2>2, <3>1, ConvertedFacts DEF Standard
  <2>3. CASE k \notin DOMAIN custom
    <3>1. Context[k] = struct[k] /\ struct[k] # Zero(k)
      BY <1>4, <2>3, ContextFacts
    <3>2. k \in Text => struct[k] \notin Void
      BY <3>1 DEF FieldInv, Zero, Void
    <3> QED
      BY <1>1, <1>4, <2>1, <3>1, <3>2, ConvertedFacts DEF Standard
  <2> QED
    BY <2>2, <2>3
<1> QED
  BY <1>2, <1>3, <1>4

\* What is missing in the end was explained when it went missing.
LEMMA RequiredStep ==
  ASSUME TypeOK, FreshInv, FieldInv, NamesInv, SourceInv, RequiredInv, [Next]_vars
  PROVE  RequiredInv'
<1>1. TypeOK'
  BY TypeStep
<1> SUFFICES ASSUME Flat'
             PROVE  RequiredInv'
  BY DEF RequiredInv, RequiredClaimsLast
<1>2. Flat
  BY FlatStep
<1>3. UNCHANGED <<mapping, token, client, required>>
  BY DEF Next, verifyJWT, exists, verifyAndEnrich, EnrichNot, EnrichFrom, handleAuthRequest,
         inputs, vars
<1>4. \A k : MappedName(k)' = MappedName(k)
  BY <1>3, NamesStay
<1>5. ASSUME NEW k, Lost(k), info' = info \/ info = NoClaims PROVE Lost(k)'
  BY <1>3, <1>5 DEF Lost, Mapped, MappedName, NoClaims
<1>6. CASE stage' \notin {"valid", "enriched", "merged"}
  BY <1>6 DEF RequiredInv, RequiredClaimsLast
<1>7. CASE exists /\ stage' = "valid"
  <2>1. required \subseteq DOMAIN Context /\ UNCHANGED <<struct, custom>>
    BY <1>7 DEF exists
  <2>2. Context' = Context
    BY <2>1 DEF Context
  <2> QED
    BY <1>3, <1>7, <2>1, <2>2 DEF RequiredInv, RequiredClaimsLast
<1>8. CASE EnrichNot
  <2>1. /\ stage = "valid" /\ stage' = "enriched" /\ UNCHANGED <<info, struct, custom>>
    BY <1>8 DEF EnrichNot
  <2>2. Context' = Context
    BY <2>1 DEF Context
  <2>3. \A k \in required' \ DOMAIN Context' : Lost(k)'
    BY <1>2, <1>3, <1>5, <2>1, <2>2 DEF RequiredInv
  <2> QED
    BY <2>1, <2>3 DEF RequiredInv, RequiredClaimsLast
<1>9. CASE UNCHANGED vars
  <2>1. Context' = Context /\ UNCHANGED <<stage, info>>
    BY <1>9 DEF vars, Context
  <2>2. stage \in {"valid", "enriched"} =>
          \A k \in required' \ DOMAIN Context' : Lost(k)'
    BY <1>2, <1>3, <1>5, <2>1 DEF RequiredInv
  <2>3. RequiredClaimsLast'
    BY <1>2, <1>3, <2>1 DEF RequiredInv, RequiredClaimsLast, MappedName
  <2> QED
    BY <2>1, <2>2, <2>3 DEF RequiredInv
<1>10. ASSUME NEW answered \in UserInfos, EnrichFrom(answered, Over(answered, Context)),
              stage' = "enriched"
       PROVE  RequiredInv'
  <2>1. /\ stage = "valid" /\ info' = answered /\ info = NoClaims
        /\ FromMap(Over(answered, Context), "enriched") /\ IsClaims(answered)
    BY <1>10, MappingAssumption DEF EnrichFrom, FreshInv
  <2>2. NamesFixed
    BY <1>2, <2>1 DEF NamesInv, Held, NamesFixed
  <2>3. MergedOver(answered)
    BY <1>10, <2>1, <2>2, Merging
  <2>4. ASSUME NEW k \in required' \ DOMAIN Context'
        PROVE  Lost(k)'
    <3>1. CASE k \notin DOMAIN Context
      BY <1>2, <1>3, <1>5, <2>1, <2>4, <3>1 DEF RequiredInv
    <3>2. CASE k \in DOMAIN Context /\ k \in DOMAIN answered
      <4>1. MappedName(k) = k
        BY <2>2, <3>2, ContextFacts, Names DEF NamesFixed
      <4> QED
        BY <1>4, <2>1, <3>2, <4>1 DEF Lost, Mapped, MappedName
    <3>3. CASE k \in DOMAIN Context /\ k \notin DOMAIN answered
      <4>1. k \in DOMAIN custom /\ custom[k] \in Void
        BY <1>1, <2>3, <2>4, <3>3, Carried
      <4>2. Mapped(DOMAIN info) = {}
        BY <2>1 DEF Mapped, NoClaims
      <4>3. PICK j \in DOMAIN token : MappedName(j) = k /\ custom[k] = token[j]
        BY <1>2, <2>1, <4>1, <4>2 DEF SourceInv, Held
      <4>4. Lost(k)
        BY <4>1, <4>3 DEF Lost
      <4> QED
        BY <1>5, <2>1, <4>4
    <3> QED
      BY <3>1, <3>2, <3>3
  <2> QED
    BY <1>10, <2>4 DEF RequiredInv, RequiredClaimsLast
<1>11. CASE handleAuthRequest /\ stage' = "merged"
  <2>1. /\ stage = "enriched" /\ FromMap(Over(client, Context), "merged")
        /\ IsClaims(client) /\ UNCHANGED info
    BY <1>11 DEF handleAuthRequest, TypeOK
  <2>2. NamesFixed
    BY <1>2, <2>1 DEF NamesInv, Held, NamesFixed
  <2>3. MergedOver(client)
    BY <1>11, <2>1, <2>2, Merging
  <2>4. ASSUME NEW k \in required \ DOMAIN Context'
        PROVE  Lost(k) \/ (k \in DOMAIN client /\ client[k] \in Void)
    <3>1. CASE k \notin DOMAIN Context
      BY <1>2, <2>1, <2>4, <3>1 DEF RequiredInv
    <3>2. CASE k \in DOMAIN custom /\ custom[k] \in Void
      <4>1. CASE k \in Mapped(DOMAIN info)
        BY <4>1 DEF Lost
      <4>2. CASE k \notin Mapped(DOMAIN info)
        <5>1. PICK j \in DOMAIN token : MappedName(j) = k /\ custom[k] = token[j]
          BY <1>2, <2>1, <3>2, <4>2 DEF SourceInv, Held
        <5> QED
          BY <3>2, <5>1 DEF Lost
      <4> QED
        BY <4>1, <4>2
    <3> QED
      BY <1>1, <2>3, <2>4, <3>1, <3>2, Carried
  <2>5. RequiredClaimsLast'
    BY <1>3, <2>1, <2>4 DEF RequiredClaimsLast, Lost, Mapped, MappedName
  <2> QED
    BY <1>11, <2>5 DEF RequiredInv
<1>12. CASE exists /\ stage' = "denied"
  BY <1>12 DEF RequiredInv, RequiredClaimsLast
<1> QED
  <2>1. verifyJWT => stage' \in {"verified", "panicked"}
    BY DEF verifyJWT, FromMap
  <2>2. exists => stage' \in {"valid", "denied"}
    BY DEF exists
  <2>3. handleAuthRequest => stage' \in {"merged", "panicked"}
    BY DEF handleAuthRequest, FromMap
  <2>4. \A answered : EnrichFrom(answered, Over(answered, Context)) => stage' \in {"enriched", "panicked"}
    BY DEF EnrichFrom, FromMap
  <2> QED
    BY <1>6, <1>7, <1>8, <1>9, <1>10, <1>11, <1>12, <2>1, <2>2, <2>3, <2>4
       DEF Next, verifyAndEnrich

-----------------------------------------------------------------------------
(***************************************************************************)
(* What the documentation says, as long as no mapped claim is repeated.    *)
(***************************************************************************)

\* The field a standard claim has in the next context.
LEMMA FieldNext ==
  ASSUME TypeOK', FieldInv', NEW k \in Standard
  PROVE  FieldOf(Context', k) =
           IF k \in DOMAIN custom' THEN Converted(k, custom'[k]) ELSE struct'[k]
<1>1. /\ k \in DOMAIN Context' <=> k \in DOMAIN custom' \/ struct'[k] # Zero(k)
      /\ k \in DOMAIN custom' => Context'[k] = custom'[k]
      /\ k \notin DOMAIN custom' /\ struct'[k] # Zero(k) => Context'[k] = struct'[k]
  BY ContextNext
<1>2. Converted(k, struct'[k]) = struct'[k]
  BY DEF FieldInv, Converted
<1> QED
  BY <1>1, <1>2 DEF FieldOf

\* A claim repeated by userinfo was not repeated before.
LEMMA RepeatStep ==
  ASSUME FreshInv, [Next]_vars, ~ Repeats'
  PROVE  /\ ~ Repeats
         /\ \A k \in DOMAIN token \cap DOMAIN info' : MappedName(k) = k
<1>1. UNCHANGED <<mapping, token>> /\ (info' = info \/ info = NoClaims)
  BY DEF Next, verifyJWT, exists, verifyAndEnrich, EnrichNot, EnrichFrom, handleAuthRequest,
         inputs, vars, FreshInv
<1>2. \A k : MappedName(k)' = MappedName(k)
  BY <1>1, NamesStay
<1>3. \A k \in DOMAIN token \cap DOMAIN info' : MappedName(k) = k
  BY <1>1, <1>2 DEF Repeats, MappedName
<1> QED
  BY <1>1, <1>3 DEF Repeats, NoClaims

\* The invariants for what the claims are after a step, in terms of the names before it.
CustomAs(answered) ==
  /\ DOMAIN custom' \ Standard =
       Mapped((DOMAIN answered \cup DOMAIN token) \ Standard) \ Standard
  /\ \A j \in DOMAIN answered \ Standard :
       MappedName(j) \notin Standard => custom'[MappedName(j)] = answered[j]
  /\ \A j \in DOMAIN token \ Standard :
       MappedName(j) \notin Standard \cup Mapped(DOMAIN answered) =>
         custom'[MappedName(j)] = token[j]

\* A step keeps the invariant on the custom claims if it does so with the old names.
LEMMA CustomNext ==
  ASSUME UNCHANGED <<mapping, token>>, CustomAs(info')
  PROVE  CustomInv'
<1>1. /\ \A k : MappedName(k)' = MappedName(k)
      /\ Mapped(DOMAIN info)' = Mapped(DOMAIN info')
  BY NamesStay
<1>2. Mapped((DOMAIN info \cup DOMAIN token) \ Standard)' =
        Mapped((DOMAIN info' \cup DOMAIN token) \ Standard)
  BY <1>1 DEF Mapped, MappedName
<1> QED
  BY <1>1, <1>2 DEF CustomInv, CustomAs, MappedName

\* Custom claims are those documented.
LEMMA CustomStep ==
  ASSUME TypeOK, FreshInv, ClientInv, NamesInv, CustomInv, [Next]_vars
  PROVE  CustomInv'
<1> SUFFICES ASSUME Flat', ~ Repeats', stage' \in Held \cup {"merged"}
             PROVE  CustomInv'
  BY DEF CustomInv
<1>1. /\ Flat
      /\ \A j, k \in (DOMAIN token \cup DOMAIN info') \ Standard :
           MappedName(j) = MappedName(k) => j = k
  BY FlatStep
<1>2. ~ Repeats /\ \A k \in DOMAIN token \cap DOMAIN info' : MappedName(k) = k
  BY RepeatStep
<1>3. UNCHANGED <<mapping, token>> /\ stage' # "panicked"
  BY DEF Next, verifyJWT, exists, verifyAndEnrich, EnrichNot, EnrichFrom, handleAuthRequest,
         inputs, vars, Held
<1>4. CASE verifyJWT
  <2>1. /\ DOMAIN custom' = Mapped(DOMAIN token \ Standard)
        /\ \A n \in DOMAIN custom' :
              \E k \in DOMAIN token \ Standard : MappedName(k) = n /\ custom'[n] = token[k]
    BY <1>3, <1>4, Converting DEF verifyJWT, TypeOK
  <2>2. DOMAIN info' = {}
    BY <1>4 DEF verifyJWT, FreshInv, NoClaims
  <2>3. \A j \in DOMAIN token \ Standard : custom'[MappedName(j)] = token[j]
    BY <1>1, <2>1 DEF Mapped
  <2>4. CustomAs(info')
    BY <2>1, <2>2, <2>3 DEF CustomAs, Mapped
  <2> QED
    BY <1>3, <2>4, CustomNext
<1>5. CASE exists \/ EnrichNot \/ UNCHANGED vars
  <2>1. UNCHANGED <<info, custom>> /\ stage \in Held \cup {"merged"}
    BY <1>5 DEF exists, EnrichNot, vars, inputs, Held
  <2>2. CustomAs(info')
    BY <1>1, <1>2, <2>1 DEF CustomInv, CustomAs
  <2> QED
    BY <1>3, <2>2, CustomNext
<1>6. ASSUME NEW answered \in UserInfos, EnrichFrom(answered, Over(answered, Context))
      PROVE  CustomInv'
  <2>1. /\ stage = "valid" /\ info' = answered /\ info = NoClaims /\ DOMAIN info = {}
        /\ FromMap(Over(answered, Context), "enriched") /\ IsClaims(answered)
    BY <1>6, MappingAssumption DEF EnrichFrom, FreshInv, NoClaims
  <2>2. NamesFixed
    BY <1>1, <2>1 DEF NamesInv, Held, NamesFixed
  <2>3. MergedOver(answered)
    BY <1>3, <2>1, <2>2, Merging
  <2>4. /\ DOMAIN custom \ Standard = Mapped(DOMAIN token \ Standard) \ Standard
        /\ \A j \in DOMAIN token \ Standard :
             MappedName(j) \notin Standard => custom[MappedName(j)] = token[j]
    BY <1>1, <1>2, <2>1 DEF CustomInv, Held, Mapped
  <2>5. DOMAIN custom' \ Standard =
          Mapped((DOMAIN answered \cup DOMAIN token) \ Standard) \ Standard
    BY <2>3, <2>4 DEF MergedOver, Mapped
  <2>6. ASSUME NEW j \in DOMAIN answered \ Standard, MappedName(j) \notin Standard
        PROVE  custom'[MappedName(j)] = answered[j]
    <3> DEFINE n == MappedName(j)
    <3>1. n \in DOMAIN custom'
      BY <2>5, <2>6 DEF Mapped
    <3>2. CASE \E k \in DOMAIN answered \ Standard :
                 MappedName(k) = n /\ custom'[n] = answered[k]
      BY <1>1, <2>1, <2>6, <3>2
    <3>3. ~ (n \in DOMAIN custom \ (Standard \cup DOMAIN answered))
      <4>1. SUFFICES ASSUME n \in DOMAIN custom \ Standard
                     PROVE  n \in DOMAIN answered
        OBVIOUS
      <4>2. PICK t \in DOMAIN token \ Standard : MappedName(t) = n
        BY <2>4, <4>1 DEF Mapped
      <4>3. t = j
        BY <1>1, <2>1, <2>6, <4>2
      <4> QED
        BY <1>2, <2>1, <2>6, <4>2, <4>3
    <3> QED
      BY <2>3, <3>1, <3>2, <3>3 DEF MergedOver
  <2>7. ASSUME NEW j \in DOMAIN token \ Standard,
               MappedName(j) \notin Standard \cup Mapped(DOMAIN answered)
        PROVE  custom'[MappedName(j)] = token[j]
    <3> DEFINE n == MappedName(j)
    <3>1. n \in DOMAIN custom'
      BY <2>5, <2>7 DEF Mapped
    <3>2. ~ \E k \in DOMAIN answered \ Standard : MappedName(k) = n
      BY <2>7 DEF Mapped
    <3>3. custom'[n] = custom[n]
      BY <2>3, <3>1, <3>2 DEF MergedOver
    <3> QED
      BY <2>4, <2>7, <3>3
  <2>8. CustomAs(info')
    BY <2>1, <2>5, <2>6, <2>7 DEF CustomAs
  <2> QED
    BY <1>3, <2>8, CustomNext
<1>7. CASE handleAuthRequest
  <2>1. /\ stage = "enriched" /\ FromMap(Over(client, Context), "merged")
        /\ IsClaims(client) /\ UNCHANGED info
    BY <1>7 DEF handleAuthRequest, TypeOK
  <2>2. NamesFixed
    BY <1>1, <2>1 DEF NamesInv, Held, NamesFixed
  <2>3. MergedOver(client)
    BY <1>3, <2>1, <2>2, Merging
  <2>4. DOMAIN client \subseteq Standard
    BY MappingAssumption DEF ClientInv, Standard
  <2>5. /\ DOMAIN custom' \ Standard = DOMAIN custom \ Standard
        /\ \A n \in DOMAIN custom \ Standard : custom'[n] = custom[n]
    BY <2>3, <2>4 DEF MergedOver, Mapped
  <2>6. CustomAs(info)
    <3>1. /\ DOMAIN custom \ Standard =
               Mapped((DOMAIN info \cup DOMAIN token) \ Standard) \ Standard
          /\ \A j \in DOMAIN info \ Standard :
               MappedName(j) \notin Standard => custom[MappedName(j)] = info[j]
          /\ \A j \in DOMAIN token \ Standard :
               MappedName(j) \notin Standard \cup Mapped(DOMAIN info) =>
                 custom[MappedName(j)] = token[j]
      BY <1>1, <1>2, <2>1 DEF CustomInv, Held
    <3>2. \A j \in (DOMAIN info \cup DOMAIN token) \ Standard :
            MappedName(j) \notin Standard => MappedName(j) \in DOMAIN custom \ Standard
      BY <3>1 DEF Mapped
    <3> QED
      BY <2>5, <3>1, <3>2 DEF CustomAs
  <2> QED
    BY <1>3, <2>1, <2>6, CustomNext
<1> QED
  BY <1>4, <1>5, <1>6, <1>7 DEF Next, verifyAndEnrich

\* The same for the standard claims.
StandardAs(answered) ==
  /\ stage' \in Held =>
       /\ \A k \in Standard : Told(answered, k, FieldOf(Context', k))
       /\ Untyped \cap Mapped(DOMAIN answered \cup DOMAIN token) \subseteq DOMAIN Context'
  /\ stage' = "merged" =>
       /\ \A k \in Standard \ DOMAIN client : Told(answered, k, struct'[k])
       /\ \A k \in DOMAIN client : struct'[k] = Converted(k, client[k])
       /\ \A k \in Untyped \cap Mapped(DOMAIN answered \cup DOMAIN token) : struct'[k] # Null

\* And the one on the standard claims.
LEMMA StandardNext ==
  ASSUME UNCHANGED <<mapping, token, client>>, StandardAs(info')
  PROVE  StandardInv'
<1>1. \A k : MappedName(k)' = MappedName(k)
  BY NamesStay
<1>2. ASSUME NEW k, NEW field, Told(info', k, field)
      PROVE  /\ field = FieldOf(Context, k)' => Told(info, k, FieldOf(Context, k))'
             /\ field = struct'[k] => Told(info, k, struct[k])'
  BY <1>1, <1>2 DEF Told, FieldFrom, FieldOf, Mapped, MappedName
<1>3. Mapped(DOMAIN info \cup DOMAIN token)' = Mapped(DOMAIN info' \cup DOMAIN token)
  BY <1>1 DEF Mapped, MappedName
<1>4. \A k : FieldOf(Context, k)' = FieldOf(Context', k)
  BY DEF FieldOf
<1> QED
  BY <1>2, <1>3, <1>4 DEF StandardInv, StandardAs

\* Standard claims are those documented.
LEMMA StandardStep ==
  ASSUME TypeOK, FreshInv, ClientInv, FieldInv, NamesInv, StandardInv, [Next]_vars
  PROVE  StandardInv'
<1>1. TypeOK' /\ FieldInv'
  BY TypeStep, FieldStep
<1> SUFFICES ASSUME Flat', ~ Repeats', stage' \in Held \cup {"merged"}
             PROVE  StandardInv'
  BY DEF StandardInv
<1>2. /\ Flat
      /\ \A j, k \in (DOMAIN token \cup DOMAIN info') \ Standard :
           MappedName(j) = MappedName(k) => j = k
  BY FlatStep
<1>3. ~ Repeats
  BY RepeatStep
<1>4. UNCHANGED <<mapping, token, client>> /\ stage' # "panicked"
  BY DEF Next, verifyJWT, exists, verifyAndEnrich, EnrichNot, EnrichFrom, handleAuthRequest,
         inputs, vars, Held
<1>5. CASE verifyJWT
  <2>1. /\ stage' = "verified"
        /\ \A k \in DOMAIN token \cap Untyped : token[k] # Null
        /\ \A k \in Standard :
             struct'[k] = IF k \in DOMAIN token THEN Converted(k, token[k]) ELSE struct[k]
        /\ DOMAIN custom' = Mapped(DOMAIN token \ Standard)
        /\ \A n \in DOMAIN custom' :
              \E k \in DOMAIN token \ Standard : MappedName(k) = n /\ custom'[n] = token[k]
    BY <1>4, <1>5, Converting DEF verifyJWT, TypeOK
  <2>2. DOMAIN info' = {} /\ \A k \in Standard : struct[k] = Zero(k)
    BY <1>5 DEF verifyJWT, FreshInv, NoClaims
  <2>3. ASSUME NEW k \in Standard
        PROVE  FieldFrom(token, k, FieldOf(Context', k))
    <3>1. CASE k \in DOMAIN custom'
      <4>1. FieldOf(Context', k) = Converted(k, custom'[k])
        BY <1>1, <3>1, FieldNext
      <4>2. \A j \in DOMAIN token \ Standard : MappedName(j) = k => custom'[k] = token[j]
        BY <1>2, <2>1, <3>1
      <4>3. \E j \in DOMAIN token \ Standard : MappedName(j) = k
        BY <2>1, <3>1
      <4> QED
        BY <4>1, <4>2, <4>3 DEF FieldFrom
    <3>2. CASE k \notin DOMAIN custom'
      <4>1. FieldOf(Context', k) = struct'[k]
        BY <1>1, <3>2, FieldNext
      <4>2. ~ \E j \in DOMAIN token \ Standard : MappedName(j) = k
        BY <2>1, <3>2 DEF Mapped
      <4>3. struct'[k] = FieldOf(token, k)
        BY <2>1, <2>2 DEF FieldOf
      <4> QED
        BY <4>1, <4>2, <4>3 DEF FieldFrom
    <3> QED
      BY <3>1, <3>2
  <2>4. ASSUME NEW k \in Untyped \cap Mapped(DOMAIN token)
        PROVE  k \in DOMAIN Context'
    <3>1. PICK j \in DOMAIN token : MappedName(j) = k
      BY DEF Mapped
    <3>2. CASE j \in Standard
      <4>1. k \in DOMAIN token /\ k \in Standard
        BY <3>1, <3>2, Names
      <4>2. struct'[k] # Zero(k)
        BY <2>1, <4>1, ConvertedFacts
      <4> QED
        BY <1>1, <4>1, <4>2, ContextNext
    <3>3. CASE j \notin Standard
      <4>1. k \in DOMAIN custom'
        BY <2>1, <3>1, <3>3 DEF Mapped
      <4> QED
        BY <1>1, <4>1, ContextNext
    <3> QED
      BY <3>2, <3>3
  <2>5. StandardAs(info')
    BY <2>1, <2>2, <2>3, <2>4 DEF StandardAs, Told, Mapped
  <2> QED
    BY <1>4, <2>5, StandardNext
<1>6. CASE exists \/ EnrichNot \/ UNCHANGED vars
  <2>1. /\ UNCHANGED <<info, struct, custom>> /\ (stage' \in Held => stage \in Held)
        /\ stage' = "merged" => stage = "merged"
    BY <1>6 DEF exists, EnrichNot, vars, inputs, Held
  <2>2. Context' = Context
    BY <2>1 DEF Context
  <2>3. StandardAs(info')
    BY <1>2, <1>3, <2>1, <2>2 DEF StandardInv, StandardAs
  <2> QED
    BY <1>4, <2>3, StandardNext
<1>7. ASSUME NEW answered \in UserInfos, EnrichFrom(answered, Over(answered, Context))
      PROVE  StandardInv'
  <2>1. /\ stage = "valid" /\ info' = answered /\ info = NoClaims /\ DOMAIN info = {}
        /\ FromMap(Over(answered, Context), "enriched") /\ IsClaims(answered)
        /\ stage' = "enriched"
    BY <1>4, <1>7, MappingAssumption DEF EnrichFrom, FreshInv, NoClaims, FromMap
  <2>2. NamesFixed
    BY <1>2, <2>1 DEF NamesInv, Held, NamesFixed
  <2>3. MergedOver(answered)
    BY <1>4, <2>1, <2>2, Merging
  <2>4. /\ \A k \in Standard : FieldFrom(token, k, FieldOf(Context, k))
        /\ Untyped \cap Mapped(DOMAIN token) \subseteq DOMAIN Context
    BY <1>2, <1>3, <2>1 DEF StandardInv, Told, Held, Mapped
  <2>5. \A k \in Standard : k \in DOMAIN custom' <=> k \in Mapped(DOMAIN answered \ Standard)
    BY <2>3 DEF MergedOver
  <2>6. ASSUME NEW k \in Standard
        PROVE  Told(answered, k, FieldOf(Context', k))
    <3>1. CASE k \in DOMAIN custom'
      <4>1. FieldOf(Context', k) = Converted(k, custom'[k])
        BY <1>1, <3>1, FieldNext
      <4>2. PICK j \in DOMAIN answered \ Standard : MappedName(j) = k /\ custom'[k] = answered[j]
        BY <2>3, <3>1 DEF MergedOver
      <4>3. \A i \in DOMAIN answered \ Standard : MappedName(i) = k => i = j
        BY <1>2, <2>1, <4>2
      <4>4. k \in Mapped(DOMAIN answered)
        BY <4>2 DEF Mapped
      <4> QED
        BY <4>1, <4>2, <4>3, <4>4 DEF Told, FieldFrom
    <3>2. CASE k \notin DOMAIN custom'
      <4>1. FieldOf(Context', k) = struct'[k]
        BY <1>1, <3>2, FieldNext
      <4>2. ~ \E j \in DOMAIN answered \ Standard : MappedName(j) = k
        BY <2>5, <3>2 DEF Mapped
      <4>3. k \in Mapped(DOMAIN answered) <=> k \in DOMAIN answered
        BY <4>2, Names DEF Mapped
      <4>4. struct'[k] = IF k \in DOMAIN answered THEN Converted(k, answered[k])
                         ELSE FieldOf(Context, k)
        BY <2>3 DEF MergedOver
      <4>5. CASE k \in DOMAIN answered
        BY <4>1, <4>2, <4>3, <4>4, <4>5 DEF Told, FieldFrom, FieldOf
      <4>6. CASE k \notin DOMAIN answered
        BY <2>4, <4>1, <4>3, <4>4, <4>6 DEF Told
      <4> QED
        BY <4>5, <4>6
    <3> QED
      BY <3>1, <3>2
  <2>7. ASSUME NEW k \in Untyped \cap Mapped(DOMAIN answered \cup DOMAIN token)
        PROVE  k \in DOMAIN Context'
    <3>1. k \in Standard
      BY DEF Standard
    <3>2. CASE k \in DOMAIN answered
      <4>1. struct'[k] # Zero(k)
        BY <2>3, <3>1, <3>2, ConvertedFacts DEF MergedOver
      <4> QED
        BY <1>1, <3>1, <4>1, ContextNext
    <3>3. CASE k \in Mapped(DOMAIN answered \ Standard)
      BY <1>1, <2>5, <3>1, <3>3, ContextNext
    <3>4. CASE k \in Mapped(DOMAIN token) /\ k \notin DOMAIN answered
      <4>1. k \in DOMAIN Context /\ Context[k] # Null
        BY <2>3, <2>4, <3>4 DEF MergedOver
      <4>2. struct'[k] # Zero(k)
        BY <2>3, <3>1, <3>4, <4>1, ConvertedFacts DEF MergedOver, FieldOf
      <4> QED
        BY <1>1, <3>1, <4>2, ContextNext
    <3>5. \/ k \in Mapped(DOMAIN token) \/ k \in DOMAIN answered
          \/ k \in Mapped(DOMAIN answered \ Standard)
      BY Names DEF Mapped
    <3> QED
      BY <3>2, <3>3, <3>4, <3>5
  <2>8. StandardAs(info')
    BY <2>1, <2>6, <2>7 DEF StandardAs
  <2> QED
    BY <1>4, <2>8, StandardNext
<1>8. CASE handleAuthRequest
  <2>1. /\ stage = "enriched" /\ FromMap(Over(client, Context), "merged")
        /\ IsClaims(client) /\ UNCHANGED info /\ stage' = "merged"
    BY <1>4, <1>8 DEF handleAuthRequest, TypeOK, FromMap
  <2>2. NamesFixed
    BY <1>2, <2>1 DEF NamesInv, Held, NamesFixed
  <2>3. MergedOver(client)
    BY <1>4, <2>1, <2>2, Merging
  <2>4. DOMAIN client \subseteq Standard /\ DOMAIN client \cap Untyped = {}
    BY MappingAssumption DEF ClientInv, Standard
  <2>5. /\ \A k \in Standard : Told(info, k, FieldOf(Context, k))
        /\ Untyped \cap Mapped(DOMAIN info \cup DOMAIN token) \subseteq DOMAIN Context
    BY <1>2, <1>3, <2>1 DEF StandardInv, Held
  <2>6. \A k \in Standard \ DOMAIN client : Told(info, k, struct'[k])
    BY <2>3, <2>5 DEF MergedOver
  <2>7. \A k \in DOMAIN client : struct'[k] = Converted(k, client[k])
    BY <2>3, <2>4 DEF MergedOver
  <2>8. ASSUME NEW k \in Untyped \cap Mapped(DOMAIN info \cup DOMAIN token)
        PROVE  struct'[k] # Null
    <3>1. k \in Standard /\ k \notin DOMAIN client /\ k \in DOMAIN Context
      BY <2>4, <2>5 DEF Standard
    <3>2. Context[k] # Null /\ struct'[k] = FieldOf(Context, k)
      BY <2>3, <3>1 DEF MergedOver
    <3> QED
      BY <3>1, <3>2, ConvertedFacts DEF FieldOf
  <2>9. StandardAs(info')
    BY <2>1, <2>6, <2>7, <2>8 DEF StandardAs, Held
  <2> QED
    BY <1>4, <2>9, StandardNext
<1> QED
  BY <1>5, <1>6, <1>7, <1>8 DEF Next, verifyAndEnrich

-----------------------------------------------------------------------------
(***************************************************************************)
(* The theorems.                                                           *)
(***************************************************************************)

\* The inductive invariant.
IInv ==
  /\ TypeOK
  /\ FreshInv
  /\ ClientInv
  /\ FieldInv
  /\ StandInv
  /\ NamesInv
  /\ SourceInv
  /\ RequiredInv
  /\ CustomInv
  /\ StandardInv

\* Every reachable state satisfies the inductive invariant.
THEOREM Inductive == Spec => []IInv
<1>1. Init => IInv
  <2> SUFFICES ASSUME Init PROVE IInv
    OBVIOUS
  <2>1. TypeOK
    <3>1. IsClaims(NoClaims)
      BY DEF NoClaims, IsClaims
    <3>2. struct \in [Standard -> Values]
      BY MappingAssumption DEF Init, Zero
    <3> QED
      BY <3>1, <3>2, MappingAssumption DEF Init, TypeOK, Stages
  <2>2. FieldInv
    BY DEF Init, FieldInv, Zero, Standard, Null, Empty
  <2>3. FreshInv /\ ClientInv
    BY DEF Init, FreshInv, ClientInv
  <2>4. StandInv /\ NamesInv /\ SourceInv /\ RequiredInv /\ CustomInv /\ StandardInv
    BY DEF Init, Held, StandInv, NamesInv, SourceInv, RequiredInv, RequiredClaimsLast,
           CustomInv, StandardInv
  <2> QED
    BY <2>1, <2>2, <2>3, <2>4 DEF IInv
<1>2. IInv /\ [Next]_vars => IInv'
  BY TypeStep, FreshStep, FieldStep, StandStep, NamesStep, RequiredStep, CustomStep,
     StandardStep DEF IInv
<1> QED
  BY <1>1, <1>2, PTL DEF Spec

\* Every variable has its type, and only a standard claim has a field.
THEOREM TypeCorrect == Spec => []TypeOK
<1>1. IInv => TypeOK
  BY DEF IInv
<1> QED
  BY <1>1, Inductive, PTL

\* A claim validation insisted on is still there at the end, or it is explained.
THEOREM RequiredAlwaysLast == Spec => []RequiredClaimsLast
<1>1. IInv => RequiredClaimsLast
  BY DEF IInv, RequiredInv
<1> QED
  BY <1>1, Inductive, PTL

\* Under a flat mapping the struct and the map say the same of the user.
THEOREM StructAlwaysAgrees == Spec => []StructAgrees
<1>1. IInv => StructAgrees
  <2> SUFFICES ASSUME IInv, stage = "merged", Flat, NEW k \in Standard
               PROVE  struct[k] = IF k \in DOMAIN Context THEN Context[k] ELSE Zero(k)
    BY DEF StructAgrees
  <2>1. k \notin DOMAIN custom
    BY DEF IInv, NamesInv
  <2> QED
    BY <2>1, ContextFacts DEF IInv
<1> QED
  BY <1>1, Inductive, PTL

\* Whatever the mapping, a standard claim that no custom claim is mapped to is the one
\* received last.
THEOREM StandardClaimsAlwaysStand == Spec => []StandardClaimsStand
<1>1. IInv => StandardClaimsStand
  <2> SUFFICES ASSUME IInv, stage = "merged", NEW k \in Unmapped
               PROVE  Only(Context, {k}) = Present(Only(Latest, {k}))
    BY DEF StandardClaimsStand, Unmapped, Latest
  <2>1. /\ k \in Standard /\ k \notin DOMAIN custom
        /\ struct[k] = FieldOf(Latest, k)
        /\ k \in Untyped \cap DOMAIN Latest => Latest[k] # Null
    BY DEF IInv, StandInv, Unmapped
  <2>2. /\ k \in DOMAIN Context <=> struct[k] # Zero(k)
        /\ k \in DOMAIN Context => Context[k] = struct[k]
    BY <2>1, ContextFacts DEF IInv
  <2>3. k \in DOMAIN Context <=>
          k \in DOMAIN Latest /\ (k \in Text => Latest[k] \notin Void)
    BY <2>1, <2>2, ConvertedFacts DEF FieldOf, Standard
  <2>4. k \in DOMAIN Context => Context[k] = Latest[k]
    BY <2>1, <2>2, <2>3 DEF FieldOf, Converted, Void
  <2>5. /\ DOMAIN Only(Latest, {k}) = DOMAIN Latest \cap {k}
        /\ k \in DOMAIN Latest => Only(Latest, {k})[k] = Latest[k]
    BY DEF Only
  <2>6. DOMAIN Only(Context, {k}) = DOMAIN Present(Only(Latest, {k}))
    BY <2>3, <2>5 DEF Only, Present
  <2>7. \A n \in DOMAIN Only(Context, {k}) : Only(Context, {k})[n] = Present(Only(Latest, {k}))[n]
    BY <2>3, <2>4, <2>5 DEF Only, Present
  <2> QED
    BY <2>6, <2>7 DEF Only, Present
<1> QED
  BY <1>1, Inductive, PTL

\* The claims under their mapped names.
LEMMA NamedFacts ==
  ASSUME NEW m,
         \A j, k \in DOMAIN m \ Standard : MappedName(j) = MappedName(k) => j = k
  PROVE  /\ \A n : n \in DOMAIN Named(m) <=> n \in Mapped(DOMAIN m)
         /\ \A j \in DOMAIN m \ Standard : Named(m)[MappedName(j)] = m[j]
         /\ \A k \in DOMAIN m \cap Standard :
              (~ \E j \in DOMAIN m \ Standard : MappedName(j) = k) => Named(m)[k] = m[k]
<1> DEFINE others == DOMAIN m \ Standard
           f == [name \in {MappedName(k) : k \in others} |->
                   m[CHOOSE k \in others : MappedName(k) = name]]
           g == Only(m, Standard)
<1>1. Named(m) = Over(f, g)
  BY DEF Named
<1>2. DOMAIN f = {MappedName(k) : k \in others}
  OBVIOUS
<1>3. ASSUME NEW j \in others PROVE f[MappedName(j)] = m[j]
  <2>1. (CHOOSE k \in others : MappedName(k) = MappedName(j)) = j
    OBVIOUS
  <2> QED
    BY <2>1
<1>4. DOMAIN g = DOMAIN m \cap Standard /\ \A k \in DOMAIN m \cap Standard : g[k] = m[k]
  BY DEF Only
<1> HIDE DEF f, g
<1>5. /\ \A n : n \in DOMAIN Over(f, g) <=> n \in DOMAIN f \/ n \in DOMAIN g
      /\ \A k \in DOMAIN f : Over(f, g)[k] = f[k]
      /\ \A k \in DOMAIN g \ DOMAIN f : Over(f, g)[k] = g[k]
  BY OverFacts
<1>6. \A n : n \in DOMAIN Named(m) <=> n \in Mapped(DOMAIN m)
  BY <1>1, <1>2, <1>4, <1>5, Names DEF Mapped
<1>7. \A j \in others : Named(m)[MappedName(j)] = m[j]
  BY <1>1, <1>2, <1>3, <1>5
<1>8. \A k \in DOMAIN m \cap Standard :
        (~ \E j \in others : MappedName(j) = k) => Named(m)[k] = m[k]
  BY <1>1, <1>2, <1>4, <1>5
<1> QED
  BY <1>6, <1>7, <1>8

\* Under a flat mapping all that was received has one name each.
Want == Over(Named(info), Named(token))

\* What the documents promise, name by name.
LEMMA WantFacts ==
  ASSUME Flat
  PROVE  /\ \A n : n \in DOMAIN Want <=> n \in Mapped(DOMAIN info \cup DOMAIN token)
         /\ \A j \in DOMAIN info \ Standard : Want[MappedName(j)] = info[j]
         /\ \A j \in DOMAIN token \ Standard :
              MappedName(j) \notin Mapped(DOMAIN info) => Want[MappedName(j)] = token[j]
         /\ \A k \in Standard : \A field : Told(info, k, field) => field = FieldOf(Want, k)
<1>1. \A j, k \in (DOMAIN info \cup DOMAIN token) \ Standard :
        MappedName(j) = MappedName(k) => j = k
  BY DEF Flat, Received
<1> DEFINE a == Named(info)
           t == Named(token)
<1>2. /\ \A n : n \in DOMAIN a <=> n \in Mapped(DOMAIN info)
      /\ \A j \in DOMAIN info \ Standard : a[MappedName(j)] = info[j]
      /\ \A k \in DOMAIN info \cap Standard :
           (~ \E j \in DOMAIN info \ Standard : MappedName(j) = k) => a[k] = info[k]
  BY <1>1, NamedFacts
<1>3. /\ \A n : n \in DOMAIN t <=> n \in Mapped(DOMAIN token)
      /\ \A j \in DOMAIN token \ Standard : t[MappedName(j)] = token[j]
      /\ \A k \in DOMAIN token \cap Standard :
           (~ \E j \in DOMAIN token \ Standard : MappedName(j) = k) => t[k] = token[k]
  BY <1>1, NamedFacts
<1> HIDE DEF a, t
<1>4. /\ \A n : n \in DOMAIN Over(a, t) <=> n \in DOMAIN a \/ n \in DOMAIN t
      /\ \A k \in DOMAIN a : Over(a, t)[k] = a[k]
      /\ \A k \in DOMAIN t \ DOMAIN a : Over(a, t)[k] = t[k]
  BY OverFacts
<1>5. Want = Over(a, t)
  BY DEF Want, a, t
<1>6. \A n : n \in DOMAIN Want <=> n \in Mapped(DOMAIN info \cup DOMAIN token)
  BY <1>2, <1>3, <1>4, <1>5 DEF Mapped
<1>7. \A j \in DOMAIN info \ Standard : Want[MappedName(j)] = info[j]
  BY <1>2, <1>4, <1>5 DEF Mapped
<1>8. \A j \in DOMAIN token \ Standard :
        MappedName(j) \notin Mapped(DOMAIN info) => Want[MappedName(j)] = token[j]
  BY <1>2, <1>3, <1>4, <1>5 DEF Mapped
<1>9. ASSUME NEW k \in Standard, NEW field, Told(info, k, field)
      PROVE  field = FieldOf(Want, k)
  <2>1. CASE k \in Mapped(DOMAIN info)
    <3>1. FieldFrom(info, k, field) /\ k \in DOMAIN Want /\ Want[k] = a[k]
      BY <1>2, <1>4, <1>5, <1>9, <2>1 DEF Told
    <3>2. CASE \E j \in DOMAIN info \ Standard : MappedName(j) = k
      BY <1>2, <3>1, <3>2 DEF FieldFrom, FieldOf
    <3>3. CASE ~ \E j \in DOMAIN info \ Standard : MappedName(j) = k
      <4>1. k \in DOMAIN info
        BY <2>1, <3>3, Names DEF Mapped
      <4> QED
        BY <1>2, <3>1, <3>3, <4>1 DEF FieldFrom, FieldOf
    <3> QED
      BY <3>2, <3>3
  <2>2. CASE k \notin Mapped(DOMAIN info)
    <3>1. /\ FieldFrom(token, k, field)
          /\ k \in DOMAIN Want <=> k \in Mapped(DOMAIN token)
          /\ k \in DOMAIN Want => Want[k] = t[k]
      BY <1>2, <1>3, <1>4, <1>5, <1>9, <2>2 DEF Told
    <3>2. CASE \E j \in DOMAIN token \ Standard : MappedName(j) = k
      BY <1>3, <3>1, <3>2 DEF FieldFrom, FieldOf, Mapped
    <3>3. CASE ~ \E j \in DOMAIN token \ Standard : MappedName(j) = k
      <4>1. k \in Mapped(DOMAIN token) <=> k \in DOMAIN token
        BY <3>3, Names DEF Mapped
      <4> QED
        BY <1>3, <3>1, <3>3, <4>1 DEF FieldFrom, FieldOf
    <3> QED
      BY <3>2, <3>3
  <2> QED
    BY <2>1, <2>2
<1> QED
  BY <1>6, <1>7, <1>8, <1>9

\* Under a flat mapping the context is the one documented, however often the mapping
\* was applied.
THEOREM ContextAlwaysAsDocumented == Spec => []ContextAsDocumented
<1>1. IInv => ContextAsDocumented
  <2> SUFFICES ASSUME IInv, stage = "merged", Flat, ~ Repeats
               PROVE  Context = Present(Over(client, Want))
    BY DEF ContextAsDocumented, Want
  <2> DEFINE all == Over(client, Want)
  <2>1. /\ \A n : n \in DOMAIN all <=> n \in DOMAIN client \/ n \in DOMAIN Want
        /\ \A k \in DOMAIN client : all[k] = client[k]
        /\ \A k \in DOMAIN Want \ DOMAIN client : all[k] = Want[k]
    BY OverFacts
  <2> HIDE DEF all
  <2>2. /\ \A n : n \in DOMAIN Context <=>
                    n \in DOMAIN custom \/ (n \in Standard /\ struct[n] # Zero(n))
        /\ \A n \in DOMAIN custom : Context[n] = custom[n]
        /\ \A k \in Standard \ DOMAIN custom : struct[k] # Zero(k) => Context[k] = struct[k]
    BY ContextFacts DEF IInv
  <2>3. DOMAIN client \subseteq Text /\ Text \cap Untyped = {} /\ Standard = Text \cup Untyped
    BY MappingAssumption DEF IInv, ClientInv, Standard
  <2>4. DOMAIN custom \cap Standard = {}
    BY DEF IInv, NamesInv
  <2>5. ASSUME NEW n, n \notin Standard
        PROVE  /\ n \in DOMAIN Context <=> n \in DOMAIN all
               /\ n \in DOMAIN Context => Context[n] = all[n]
    <3>1. /\ n \in DOMAIN Context <=> n \in DOMAIN custom
          /\ n \in DOMAIN custom => Context[n] = custom[n]
          /\ n \in DOMAIN all <=> n \in DOMAIN Want
          /\ n \in DOMAIN Want => all[n] = Want[n]
      BY <2>1, <2>2, <2>3, <2>5
    <3>2. n \in DOMAIN custom <=> n \in Mapped((DOMAIN info \cup DOMAIN token) \ Standard)
      BY <2>5 DEF IInv, CustomInv
    <3>3. n \in DOMAIN Want <=> n \in Mapped((DOMAIN info \cup DOMAIN token) \ Standard)
      BY <2>5, WantFacts, Names DEF Mapped
    <3>4. ASSUME n \in DOMAIN custom
          PROVE  custom[n] = Want[n]
      <4>1. PICK j \in (DOMAIN info \cup DOMAIN token) \ Standard : MappedName(j) = n
        BY <3>2, <3>4 DEF Mapped
      <4>2. CASE n \in Mapped(DOMAIN info)
        <5>1. PICK k \in DOMAIN info \ Standard : MappedName(k) = n
          BY <2>5, <4>2, Names DEF Mapped
        <5> QED
          BY <2>5, <5>1, WantFacts DEF IInv, CustomInv
      <4>3. CASE n \notin Mapped(DOMAIN info)
        <5>1. j \in DOMAIN token \ Standard
          BY <4>1, <4>3 DEF Mapped
        <5> QED
          BY <2>5, <4>1, <4>3, <5>1, WantFacts DEF IInv, CustomInv
      <4> QED
        BY <4>2, <4>3
    <3> QED
      BY <3>1, <3>2, <3>3, <3>4
  <2>6. ASSUME NEW k \in Standard
        PROVE  struct[k] = FieldOf(all, k)
    <3>1. CASE k \in DOMAIN client
      BY <2>1, <3>1 DEF IInv, StandardInv, FieldOf
    <3>2. CASE k \notin DOMAIN client
      <4>1. struct[k] = FieldOf(Want, k)
        BY <3>2, WantFacts DEF IInv, StandardInv
      <4> QED
        BY <2>1, <3>2, <4>1 DEF FieldOf
    <3> QED
      BY <3>1, <3>2
  <2>7. ASSUME NEW k \in Standard
        PROVE  /\ k \in DOMAIN Context <=>
                    k \in DOMAIN all /\ (k \in Text => all[k] \notin Void)
               /\ k \in DOMAIN Context => Context[k] = all[k]
    <3>1. /\ k \in DOMAIN Context <=> struct[k] # Zero(k)
          /\ k \in DOMAIN Context => Context[k] = struct[k]
      BY <2>2, <2>4
    <3>2. k \in Untyped /\ k \in DOMAIN all => struct[k] # Zero(k)
      <4>1. k \in Untyped /\ k \in DOMAIN all =>
              k \in Mapped(DOMAIN info \cup DOMAIN token)
        BY <2>1, <2>3, WantFacts
      <4> QED
        BY <4>1, ConvertedFacts DEF IInv, StandardInv
    <3>3. k \in DOMAIN Context <=> k \in DOMAIN all /\ (k \in Text => all[k] \notin Void)
      BY <2>3, <2>6, <3>1, <3>2, ConvertedFacts DEF FieldOf
    <3>4. k \in DOMAIN Context => Context[k] = all[k]
      BY <2>3, <2>6, <3>1, <3>3 DEF FieldOf, Converted, Void
    <3> QED
      BY <3>3, <3>4
  <2>8. /\ \A n : n \in DOMAIN Present(all) <=>
                    n \in DOMAIN all /\ (n \in Text => all[n] \notin Void)
        /\ \A n \in DOMAIN Present(all) : Present(all)[n] = all[n]
    BY DEF Present, Only
  <2>9. DOMAIN Context = DOMAIN Present(all)
    BY <2>3, <2>5, <2>7, <2>8
  <2>10. \A n \in DOMAIN Context : Context[n] = Present(all)[n]
    BY <2>5, <2>7, <2>8, <2>9
  <2>11. /\ Context = [n \in DOMAIN Context |-> Context[n]]
         /\ Present(all) = [n \in DOMAIN Present(all) |-> Present(all)[n]]
    BY DEF Context, toMap, Over, Present, Only
  <2>12. Context = Present(all)
    BY <2>9, <2>10, <2>11
  <2> QED
    BY <2>12 DEF all
<1> QED
  BY <1>1, Inductive, PTL

=============================================================================
