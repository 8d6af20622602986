---------------------------- MODULE MCRoleBinding ----------------------------
(***************************************************************************)
(* Up to three bindings out of a pool that mixes the kinds of criteria,    *)
(* single and double ones, catch-alls, roles that add up, and a role that  *)
(* is not declared.  "owner" stands for an expression such as              *)
(* name == "svc" || tier == "gold", which only compiles where every claim  *)
(* it names is present but, once compiled, is true by its first half.      *)
(***************************************************************************)
EXTENDS RoleBinding

CONSTANTS Strategies, MaxBindings

Crit(kind, claim, value) == [kind |-> kind, claim |-> claim, value |-> value]

Svc   == Crit("claim", "name", "svc")
Team  == Crit("claim", "groups", "dev")
Write == Crit("permission", "", "write")
Owner == Crit("expr", "", "owner")

MCMatches == {<<>>, <<Svc>>, <<Owner>>, <<Team, Write>>, <<Owner, Team>>}
MCRoleLists == {<<"reader">>, <<"writer", "reader">>, <<"ghost">>}

MCBindings == [match : MCMatches, roles : MCRoleLists]

MCRoles == <<
  [name |-> "reader", allow |-> {"r"}, deny |-> {"w"}, src |-> {}, maxMsgs |-> 0, subs |-> 0],
  [name |-> "writer", allow |-> {"w"}, deny |-> {}, src |-> {"lan"}, maxMsgs |-> 3, subs |-> 9],
  [name |-> "reader", allow |-> {"x"}, deny |-> {}, src |-> {}, maxMsgs |-> 7, subs |-> 5] >>

MCSetups ==
  {[strategy |-> s, bindings |-> bs, roles |-> MCRoles] :
     s \in Strategies, bs \in UNION {[1 .. n -> MCBindings] : n \in 0 .. MaxBindings}}

Val(type, items) == [type |-> type, items |-> items]

Gold   == [name |-> Val("string", {"ann"}), tier |-> Val("string", {"gold"}),
           permissions |-> Val("list", {"read", "write"}), groups |-> Val("list", {"dev"})]
Robot  == [name |-> Val("string", {"svc"}), permissions |-> Val("string", {"write"}),
           groups |-> Val("map", {"dev"})]
Nobody == [name |-> Val("other", {}), tier |-> Val("string", {"none"}),
           permissions |-> Val("map", {"write"}), groups |-> Val("list", {"dev"})]

MCRequests == {Gold, Robot, Nobody}
MCExprs    == {"owner"}
MCCompiles == {<<"owner", Gold>>, <<"owner", Nobody>>}
MCHolds    == {<<"owner", Gold>>, <<"owner", Robot>>}

=============================================================================
