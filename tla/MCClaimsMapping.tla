--------------------------- MODULE MCClaimsMapping ---------------------------
(***************************************************************************)
(* Two standard claims the client does not set, one that it does, and two  *)
(* custom ones.  Every value says where it comes from, so that             *)
(* a claim under a wrong name or from a wrong source shows.                *)
(***************************************************************************)
EXTENDS ClaimsMapping

Maps(names, value) ==
  UNION {{m \in [n -> Values] : \A k \in n : m[k] \in value[k]} : n \in SUBSET names}

MCValues ==
  {Null, Empty, "t email", "t groups", "t client", "t x", "t y", "i email", "i groups", "i x", "i y", "client"}

MCTokens ==
  Maps({"email", "groups", "client_id", "x", "y"},
       [email |-> {"t email", Empty}, groups |-> {"t groups", Null},
        client_id |-> {"t client"}, x |-> {"t x", Null, Empty}, y |-> {"t y"}])

MCUserInfos ==
  Maps({"email", "groups", "x", "y"},
       [email |-> {"i email", Null}, groups |-> {"i groups"},
        x |-> {"i x", Null}, y |-> {"i y"}])

MCClients == {[client_id |-> "client"], [client_id |-> Empty]}

MCMappings ==
  {[k \in {} |-> k], [x |-> "z"], [x |-> "email"], [x |-> "groups"],
   [x |-> "email", y |-> "groups"], [x |-> "y"], [x |-> "y", y |-> "z"],
   [x |-> "y", y |-> "x"], [x |-> "z", y |-> "z"], [email |-> "z"]}

=============================================================================
