--------------------------- MODULE MCConfigWatcher ---------------------------
(***************************************************************************)
(* A base file and an overlay, both watched, and the key directory, which  *)
(* is not.  The last base no longer has the service name, which the first  *)
(* overlay does not have yet: the two together are not valid.  The second  *)
(* overlay turns the key directory off.  Each YAML file is unreadable at   *)
(* one of its versions; one IdP is required and one may be left out.       *)
(***************************************************************************)
EXTENDS DocumentTrees

Account(name, key) == [name |-> name, key |-> key]

Service(name) == [name |-> Scalar(name)]

Rbac(accounts) == [user_accounts |-> List(accounts)]

RbacWithDir(accounts, dir) ==
  [user_accounts |-> List(accounts), auto_accounts_dir |-> Scalar(dir)]

EmptyTree == [k \in {} |-> Map]
Gone      == EmptyTree

MCTree ==
  << [v \in 0 .. 2 |->
        CASE v = 0 -> [service |-> Subtree(Service("one")),
                       rbac    |-> Subtree(RbacWithDir(<<Account("A", "a0")>>, "keys"))]
          [] v = 1 -> Gone
          [] v = 2 -> [rbac    |-> Subtree(Rbac(<<Account("A", Garbled), Account("B", "b2")>>))]],
     [v \in 0 .. 2 |->
        CASE v = 0 -> [rbac    |-> Subtree(Rbac(<<Account("B", "b0")>>))]
          [] v = 1 -> [service |-> Subtree(Service("two")),
                       rbac    |-> Subtree(RbacWithDir(<<Account("B", "b1"), Account("A", "a1")>>, ""))]
          [] v = 2 -> Gone] >>

\* A key file cannot be read for a while; after that one is missing, and another
\* cannot be parsed.
MCKeyDir ==
  [v \in 0 .. 2 |->
     CASE v = 0 -> <<Account("B", "dir0"), Account("C", "dir0")>>
       [] v = 1 -> <<Account("A", "dir1"), Account("C", Unreadable)>>
       [] v = 2 -> <<Account("A", NoKey), Account("B", "dir2"), Account("C", Garbled)>>]

MCTreeFragments ==
  {EmptyTree} \cup
  {[rbac |-> n] :
     n \in {Scalar("s"), List(<<Account("C", "c")>>), Subtree(EmptyTree),
            Subtree([auto_accounts_dir |-> Subtree(Service("x"))]),
            Subtree([user_accounts |-> Scalar("s")]),
            Subtree(Rbac(<<Account("C", "c")>>))}}

MCPaths ==
  {<<"service">>, <<"service", "name">>, <<"rbac">>, <<"rbac", "user_accounts">>,
   <<"rbac", "auto_accounts_dir">>, <<"rbac", "auto_accounts_dir", "name">>}

MCDocument  == << [v \in 0 .. 2 |-> Flat(MCTree[1][v])], [v \in 0 .. 2 |-> Flat(MCTree[2][v])] >>
MCFragments == {Flat(t) : t \in MCTreeFragments}
MCItem      == [name : STRING, key : STRING]

MCWatched == {1, 2}
MCValid   == ValidContents
MCBroken  == {<<1, 1>>, <<2, 2>>}

=============================================================================
