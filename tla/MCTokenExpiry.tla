---------------------------- MODULE MCTokenExpiry ----------------------------
(***************************************************************************)
(* Every combination of set and unset durations, with lifetimes shorter    *)
(* and longer than what the clock can spend between two steps, ID tokens   *)
(* without times, from the future, too long-lived and about to expire.     *)
(***************************************************************************)
EXTENDS TokenExpiry

MCSettings ==
  [idpMin : {0, 2}, idpMax : {0, 3}, bindingMax : {0, 1, 4}, rbacMax : {0, 2},
   natsMin : {1, 3}, natsMax : {2, 4}, maxLifetime : {4}, skew : {1},
   rewrites : {"no", "yes"}]

MCIdTokens == [iat : {0, 1, 4}, exp : {0, 2, 4, 5, 7}]

MCRewrites == {0, 3, 9}

=============================================================================
