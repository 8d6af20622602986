---------------------------- MODULE Configuration ----------------------------
(***************************************************************************)
(* What the broker makes of the files it is given, internal/broker/        *)
(* config.go and discoverAccounts of config_rbac.go: the merge of the YAML *)
(* files, the verdict on the result, and the user accounts it ends up      *)
(* with, declared ones and those whose key files lie in auto_accounts_dir. *)
(*                                                                         *)
(* A document is a function from paths to nodes.  The path of a node is    *)
(* the sequence of the keys that lead to it; the node is a scalar, a list, *)
(* or a map, whose entries are the nodes one key further down.  Of the     *)
(* settings only those the verdict and the accounts depend on are kept.    *)
(***************************************************************************)
EXTENDS Integers, Sequences, FiniteSetsExt

CONSTANT Item   \* what lists may hold, accounts among them

Scalar(v) == [kind |-> "scalar", value |-> v]
List(s)   == [kind |-> "list", items |-> s]
Map       == [kind |-> "map"]

EmptyDocument == [path \in {} |-> Map]

IsNode(n) ==
  /\ n.kind \in {"scalar", "list", "map"}
  /\ n.kind = "list" => n = List(n.items) /\ n.items \in Seq(Item)
  /\ n.kind = "map" => n = Map

\* The nodes that hold the node of a path.
Above(path) == {SubSeq(path, 1, n) : n \in 1 .. Len(path) - 1}

IsDocument(doc) ==
  \A path \in DOMAIN doc :
    /\ path \in Seq(STRING) \ {<<>>}
    /\ IsNode(doc[path])
    /\ \A up \in Above(path) : up \in DOMAIN doc /\ doc[up] = Map

(***************************************************************************)
(* deepMerge and mergeConfigurationFiles.  deepMerge goes down as long as  *)
(* both sides have a map; a node of another kind in the overlay replaces   *)
(* the whole subtree.                                                      *)
(***************************************************************************)
Kept(base, overlay) ==
  {path \in DOMAIN base :
     \A up \in Above(path) : up \in DOMAIN overlay => overlay[up] = Map}

\* Fault: lists are replaced, as many tools do.
DeepMergeReplaces(base, overlay) ==
  [path \in DOMAIN overlay \cup Kept(base, overlay) |->
     IF path \in DOMAIN overlay THEN overlay[path] ELSE base[path]]

DeepMerge(base, overlay) ==
  [path \in DOMAIN overlay \cup Kept(base, overlay) |->
     IF path \notin DOMAIN overlay THEN base[path]
     ELSE IF path \in DOMAIN base /\ base[path].kind = "list" /\ overlay[path].kind = "list"
       THEN List(base[path].items \o overlay[path].items)
     ELSE overlay[path]]

\* The files in order, each over what came before.
MergeFiles(documents) ==
  LET merged[n \in 0 .. Len(documents)] ==
        IF n = 0 THEN EmptyDocument ELSE DeepMerge(merged[n - 1], documents[n])
  IN merged[Len(documents)]

(***************************************************************************)
(* NewConfigManager and GetConfig: a document must fit the structs it is   *)
(* decoded into, without unknown fields, and have the required ones.       *)
(***************************************************************************)
ServiceName     == <<"service", "name">>
UserAccounts    == <<"rbac", "user_accounts">>
AutoAccountsDir == <<"rbac", "auto_accounts_dir">>

Schema ==
  {<< <<"service">>, "map">>, <<ServiceName, "scalar">>,
   << <<"rbac">>, "map">>, <<UserAccounts, "list">>, <<AutoAccountsDir, "scalar">>}

Loads(doc) ==
  /\ \A path \in DOMAIN doc : <<path, doc[path].kind>> \in Schema
  /\ ServiceName \in DOMAIN doc
  /\ doc[ServiceName].value # ""

(***************************************************************************)
(* The accounts, each a name with the seed of its signing key.  A key      *)
(* directory is a sequence of file pairs in the order of their names; key  *)
(* is NoKey where the signing key file is missing, and Unreadable where    *)
(* reading one of the two fails.                                           *)
(***************************************************************************)
NoKey      == "none"
Unreadable == "unreadable"

\* NKey.UnmarshalText warns of a seed that does not parse, and leaves a nil key
\* pair; it never fails.
Garbled == "garbled"
NilKey  == "nil"

UnmarshalText(seed) == IF seed = Garbled THEN NilKey ELSE seed

UserAccountInfo(account) ==
  [name |-> account.name, key |-> UnmarshalText(account.key)]

Decoded(accounts) == [i \in DOMAIN accounts |-> UserAccountInfo(accounts[i])]

Declared(doc) ==
  IF UserAccounts \in DOMAIN doc THEN Decoded(doc[UserAccounts].items) ELSE <<>>

Discovers(doc) ==
  AutoAccountsDir \in DOMAIN doc /\ doc[AutoAccountsDir].value # ""

\* One file that cannot be read fails the discovery, and the configuration with
\* it; one that cannot be parsed does not.
Discoverable(doc, dir) ==
  Discovers(doc) => \A i \in DOMAIN dir : dir[i].key # Unreadable

Names(accounts) == {accounts[i].name : i \in DOMAIN accounts}

\* Fault: the discovered accounts come before the declared ones.
AccountsDiscoveredFirst(doc, dir) ==
  LET discovered[n \in 0 .. Len(dir)] ==
        IF n = 0 THEN <<>>
        ELSE IF dir[n].key = NoKey THEN discovered[n - 1]
        ELSE Append(discovered[n - 1], UserAccountInfo(dir[n]))
  IN IF Discovers(doc) THEN discovered[Len(dir)] \o Declared(doc) ELSE Declared(doc)

\* A pair without its key is passed over, and so is a name already declared.
Accounts(doc, dir) ==
  LET existing == Names(Declared(doc))
      accounts[n \in 0 .. Len(dir)] ==
        IF n = 0 THEN Declared(doc)
        ELSE IF dir[n].key = NoKey \/ dir[n].name \in existing THEN accounts[n - 1]
        ELSE Append(accounts[n - 1], UserAccountInfo(dir[n]))
  IN IF Discovers(doc) THEN accounts[Len(dir)] ELSE Declared(doc)

\* The first account of that name.
lookupAccountInfo(accounts, name) ==
  IF name \in Names(accounts)
    THEN accounts[Min({i \in DOMAIN accounts : accounts[i].name = name})].key
    ELSE NoKey

-----------------------------------------------------------------------------
(***************************************************************************)
(* What docs/site/configuration.qmd says of a merge, setting by setting    *)
(* instead of file by file.                                                *)
(***************************************************************************)
\* The documents that count for a setting: those that have it and after which
\* none puts a scalar or a node of another kind there or above.
Counting(documents, path) ==
  {i \in DOMAIN documents :
     /\ path \in DOMAIN documents[i]
     /\ \A j \in DOMAIN documents, at \in Above(path) \cup {path} :
          j > i /\ at \in DOMAIN documents[j] =>
            /\ documents[j][at].kind = documents[i][at].kind
            /\ documents[j][at].kind # "scalar"}

\* The lists those documents have there, one after the other.
Joined(documents, among, path) ==
  LET joined[n \in 0 .. Len(documents)] ==
        IF n = 0 THEN <<>>
        ELSE IF n \in among THEN joined[n - 1] \o documents[n][path].items
        ELSE joined[n - 1]
  IN joined[Len(documents)]

\* The node the setting should have, as a set of at most one.
Documented(documents, path) ==
  LET counting == Counting(documents, path)
  IN {IF documents[i][path].kind = "list"
        THEN List(Joined(documents, counting, path)) ELSE documents[i][path] :
      i \in counting}

Agrees(documents, path) ==
  LET merged == MergeFiles(documents)
  IN Documented(documents, path) = {merged[at] : at \in DOMAIN merged \cap {path}}

=============================================================================
