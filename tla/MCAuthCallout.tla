---------------------------- MODULE MCAuthCallout ----------------------------
(***************************************************************************)
(* Configurations that differ in everything a reload may change while a    *)
(* request is under way: the IdPs and their order, the accounts bound to,  *)
(* the accounts' keys, and the service keys, which must not change.        *)
(***************************************************************************)
EXTENDS AuthCallout

C(idps, one, two, keyA, keyB, serviceKey, xkey) ==
  [idps |-> idps,
   binding |-> [u \in Users |-> IF u = "u1" THEN one ELSE two],
   key |-> [a \in Accounts |-> IF a = "A" THEN keyA ELSE keyB],
   serviceKey |-> serviceKey, xkey |-> xkey]

MCContent ==
  [c1 |-> C(<<"p", "q">>, "A", "B",      "good",     "foreign", TRUE,  TRUE),
   c2 |-> C(<<"q", "p">>, "B", "nobody", "good",     "good",    TRUE,  FALSE),
   c3 |-> C(<<"p">>,      "A", "unset",  "unparsed", "absent",  FALSE, TRUE)]

R(xkey, legible, token, issuers, users) ==
  [xkey |-> xkey, legible |-> legible, token |-> token,
   issuers |-> issuers, users |-> users]

\* A sealed request whose ID token two verifiers may take, an open one whose
\* claims depend on userinfo, and requests without a token and without sense.
MCAbout ==
  <<R(TRUE,  TRUE,  TRUE,  {"p", "q"}, {"u1"}),
    R(FALSE, TRUE,  TRUE,  {"p"},      {"u1", "u2"}),
    R(TRUE,  TRUE,  FALSE, {},         {"u2"}),
    R(FALSE, FALSE, TRUE,  {"q"},      {"u2"})>>

=============================================================================
