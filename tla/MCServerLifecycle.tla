-------------------------- MODULE MCServerLifecycle --------------------------
(***************************************************************************)
(* One watched configuration file whose second content cannot be read.     *)
(* In the run about the healing of the system the first IdP is required    *)
(* and the second may be left out; in the run about readiness none is.     *)
(***************************************************************************)
EXTENDS ServerLifecycle

MCWatched == {1}
MCBroken  == {<<1, 1>>}
MCValid   == {d \in [MCWatched -> 0 .. MaxVersion] : d[1] # 1}

=============================================================================
