---------------------------- MODULE ClaimsMapping ----------------------------
(***************************************************************************)
(* The claims of one request, from the verified ID token to the context    *)
(* that role bindings and templates see: fromMap, toMap and exists of      *)
(* internal/broker/idp_jwt_claim.go as verifyJWT, verifyAndEnrich and      *)
(* handleAuthRequest call them.                                            *)
(*                                                                         *)
(* A set of claims is a function from names to values.  Between the steps  *)
(* the claims are kept in two places: a struct with a field for each       *)
(* standard claim, and a map of all others, whose names the custom mapping *)
(* has changed.  Every step writes both into one map and reads them back,  *)
(* so the mapping is applied two or three times.                           *)
(***************************************************************************)
CONSTANTS
  Text,      \* the standard claims kept in typed fields, Empty their zero value
  Untyped,   \* the standard claims kept as they come: groups and roles
  Values,    \* the values of claims, Null and Empty among them
  Mappings,  \* the custom mappings that may be configured
  Demands,   \* the sets of claims validation may insist on
  Tokens,    \* the claims of an ID token
  UserInfos, \* what the UserInfo endpoint answers
  Clients    \* what the request says of the client

Null  == "null"   \* the JSON null
Empty == "empty"

Standard == Text \cup Untyped

NoClaims == [k \in {} |-> Null]

IsClaims(m) == m \in [DOMAIN m -> Values]

ASSUME MappingAssumption ==
  /\ Text \cap Untyped = {}
  /\ {Null, Empty} \subseteq Values
  /\ \A m \in Tokens \cup UserInfos \cup Clients : IsClaims(m)
  /\ \A c \in Clients : DOMAIN c \subseteq Text

VARIABLES
  mapping,   \* the custom mapping of the IdP
  required,  \* the claims its validation insists on
  token,     \* the claims of the ID token
  info,      \* the claims userinfo answered, none if it was not fetched
  client,    \* the client's own
  stage,     \* how far the request is
  struct,    \* the fields of IdpJwtClaims
  custom     \* its CustomClaims

vars == <<mapping, required, token, info, client, stage, struct, custom>>

inputs == <<mapping, required, token, client>>

\* f, and g where f says nothing.
Over(f, g) ==
  [k \in DOMAIN f \cup DOMAIN g |-> IF k \in DOMAIN f THEN f[k] ELSE g[k]]

Only(m, names) == [k \in DOMAIN m \cap names |-> m[k]]

(***************************************************************************)
(* toMap: fields with a zero value are omitted, custom claims come last.   *)
(***************************************************************************)
Zero(k) == IF k \in Text THEN Empty ELSE Null

Fields(s) == Only(s, {k \in Standard : s[k] # Zero(k)})

\* Fault: the fields of the struct come last.
toMapFieldsLast(s, c) == Over(Fields(s), c)

toMap(s, c) == Over(c, Fields(s))

(***************************************************************************)
(* fromMap: standard claims go to their fields, a field without a claim    *)
(* stays, all others go to a new CustomClaims under their mapped names.    *)
(* Go ranges over a map in any order, so of two claims with one name any   *)
(* may stay.                                                               *)
(***************************************************************************)
Converted(k, v) == IF k \in Text /\ v = Null THEN Empty ELSE v

\* Fault: every claim becomes a field.
FieldsFromAll(s, m) == Over([k \in DOMAIN m |-> Converted(k, m[k])], s)

FieldsFrom(s, m) ==
  [k \in Standard |-> IF k \in DOMAIN m THEN Converted(k, m[k]) ELSE s[k]]

MappedName(k) ==
  IF k \in DOMAIN mapping \ Standard THEN mapping[k] ELSE k

CustomFrom(m) ==
  LET others == DOMAIN m \ Standard
  IN {c \in [{MappedName(k) : k \in others} -> {m[k] : k \in others}] :
        \A name \in DOMAIN c : \E k \in others : MappedName(k) = name /\ c[name] = m[k]}

\* reflect.Value.Set panics when groups or roles is null.
SetPanics(m) == \E k \in DOMAIN m \cap Untyped : m[k] = Null

FromMap(m, next) ==
  IF SetPanics(m)
    THEN stage' = "panicked" /\ UNCHANGED <<struct, custom>>
    ELSE /\ stage' = next
         /\ struct' = FieldsFrom(struct, m)
         /\ custom' \in CustomFrom(m)

Context == toMap(struct, custom)

(***************************************************************************)
(* The steps of a request.                                                 *)
(***************************************************************************)
verifyJWT ==
  /\ stage = "presented"
  /\ FromMap(token, "verified")
  /\ UNCHANGED <<inputs, info>>

\* exists, of validateAgainstSpec.
exists ==
  /\ stage = "verified"
  /\ stage' = IF required \subseteq DOMAIN Context THEN "valid" ELSE "denied"
  /\ UNCHANGED <<inputs, info, struct, custom>>

\* Userinfo, where it is enabled, there is an access token, and the IdP answers.
EnrichFrom(answered, claims) ==
  /\ stage = "valid"
  /\ info' = answered
  /\ FromMap(claims, "enriched")
  /\ UNCHANGED inputs

EnrichNot ==
  /\ stage = "valid"
  /\ stage' = "enriched"
  /\ UNCHANGED <<inputs, info, struct, custom>>

\* Fault: userinfo does not replace what is already there.
verifyAndEnrichTimidly ==
  \/ EnrichNot
  \/ \E answered \in UserInfos : EnrichFrom(answered, Over(Context, answered))

\* Fault: userinfo replaces all there is.
verifyAndEnrichReplaces ==
  \/ EnrichNot
  \/ \E answered \in UserInfos : EnrichFrom(answered, answered)

verifyAndEnrich ==
  \/ EnrichNot
  \/ \E answered \in UserInfos : EnrichFrom(answered, Over(answered, Context))

\* Fault: the client's fields are set, and custom claims left as they are.
handleAuthRequestFieldsOnly ==
  /\ stage = "enriched"
  /\ stage' = "merged"
  /\ struct' = FieldsFrom(struct, client)
  /\ UNCHANGED <<inputs, info, custom>>

\* The client's claims are merged in.
handleAuthRequest ==
  /\ stage = "enriched"
  /\ FromMap(Over(client, Context), "merged")
  /\ UNCHANGED <<inputs, info>>

Init ==
  /\ mapping \in Mappings
  /\ required \in Demands
  /\ token \in Tokens
  /\ client \in Clients
  /\ info = NoClaims
  /\ stage = "presented"
  /\ struct = [k \in Standard |-> Zero(k)]
  /\ custom = NoClaims

Next == verifyJWT \/ exists \/ verifyAndEnrich \/ handleAuthRequest

Spec == Init /\ [][Next]_vars

-----------------------------------------------------------------------------
(***************************************************************************)
(* Properties.                                                             *)
(***************************************************************************)
Stages == {"presented", "verified", "valid", "enriched", "merged", "denied", "panicked"}

\* Every variable has its type, and only a standard claim has a field.
TypeOK ==
  /\ mapping \in Mappings
  /\ required \in Demands
  /\ IsClaims(token) /\ IsClaims(info) /\ IsClaims(client)
  /\ stage \in Stages
  /\ struct \in [Standard -> Values]
  /\ IsClaims(custom)

\* A mapping is flat for this request when no claim is given a name that the
\* mapping changes again, or that another claim has; and a request repeats a
\* mapped claim when userinfo has it like the ID token.
Received == DOMAIN token \cup DOMAIN info

Flat ==
  /\ \A k \in Received : MappedName(MappedName(k)) = MappedName(k)
  /\ \A j, k \in Received \ Standard : MappedName(j) = MappedName(k) => j = k

Repeats == \E k \in DOMAIN token \cap DOMAIN info : MappedName(k) # k

\* One set of claims under its mapped names; a custom claim that is given the
\* name of a standard one takes its place.
Named(m) ==
  LET others == DOMAIN m \ Standard
  IN Over([name \in {MappedName(k) : k \in others} |->
             m[CHOOSE k \in others : MappedName(k) = name]],
          Only(m, Standard))

Void == {Null, Empty}

Present(m) == Only(m, {k \in DOMAIN m : k \in Text => m[k] \notin Void})

\* Under a flat mapping the context is what claims.qmd describes: every claim
\* under its mapped name, that of userinfo before that of the ID token, and the
\* client's before either, however often the mapping was applied, whether or not
\* userinfo was fetched, unless it repeats a mapped claim.
ContextAsDocumented ==
  stage = "merged" /\ Flat /\ ~ Repeats =>
    Context = Present(Over(client, Over(Named(info), Named(token))))

\* The email and name in the tags and the audit event, and the expiry, are read
\* from the struct, the bindings are evaluated on the map: under a flat mapping
\* both say the same of the same user.
StructAgrees ==
  stage = "merged" /\ Flat =>
    \A k \in Standard :
      struct[k] = IF k \in DOMAIN Context THEN Context[k] ELSE Zero(k)

\* "Standard claims cannot be mapped" (docs/site/custom-claims.qmd): whatever
\* the mapping, chained, circular or colliding, a standard claim that no custom
\* claim is mapped to is the one received last.
StandardClaimsStand ==
  stage = "merged" =>
    \A k \in Standard \ {mapping[j] : j \in DOMAIN mapping \ Standard} :
      LET received == Present(Only(Over(client, Over(info, token)), {k}))
      IN Only(Context, {k}) = received

\* Validation looks at the ID token alone.  Under a flat mapping a claim it
\* insists on is still there when the bindings are evaluated, unless userinfo
\* answered with the claim, the ID token had nothing in it, or the client says
\* nothing in a claim of its own.
RequiredClaimsLast ==
  stage = "merged" /\ Flat =>
    \A k \in required \ DOMAIN Context :
      \/ k \in {MappedName(j) : j \in DOMAIN info}
      \/ \E j \in DOMAIN token : MappedName(j) = k /\ token[j] \in Void
      \/ k \in DOMAIN client /\ client[k] \in Void

\* "The broker calls the OIDC UserInfo endpoint and merges all returned fields
\* into the context" (docs/site/claims.qmd), where a mapped claim is found under
\* its mapped name: a claim userinfo returned has userinfo's value.
UserInfoIsMerged ==
  stage = "merged" /\ Flat =>
    \A k \in DOMAIN info \ Standard :
      MappedName(k) \in DOMAIN Context \ Standard => Context[MappedName(k)] = info[k]

=============================================================================
