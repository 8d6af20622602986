----------------------------- MODULE DocumentTrees -----------------------------
(***************************************************************************)
(* Documents as yaml.Unmarshal makes them, maps of maps, and deepMerge of  *)
(* internal/broker/config.go as the recursion it is.  Configuration has    *)
(* the same documents path by path; this module compares the two.          *)
(***************************************************************************)
EXTENDS WatchedConfiguration

CONSTANTS
  Tree,           \* the content of each version of each YAML file, as a tree
  TreeFragments   \* trees the merge is tried with before those read

Subtree(entries) == [kind |-> "map", entries |-> entries]

(***************************************************************************)
(* The paths of a tree, and what it has there.                             *)
(***************************************************************************)
RECURSIVE PathsOf(_)
PathsOf(tree) ==
  {<<k>> : k \in DOMAIN tree} \cup
  UNION {{<<k>> \o path : path \in PathsOf(tree[k].entries)} :
           k \in {l \in DOMAIN tree : tree[l].kind = "map"}}

RECURSIVE NodeAt(_, _)
NodeAt(tree, path) ==
  LET node == tree[Head(path)] IN
  IF Len(path) > 1 THEN NodeAt(node.entries, Tail(path))
  ELSE IF node.kind = "map" THEN Map
  ELSE node

Flat(tree) == [path \in PathsOf(tree) |-> NodeAt(tree, path)]

(***************************************************************************)
(* deepMerge.                                                              *)
(***************************************************************************)
\* Fault: maps are replaced below the first level.
deepMergeShallow(base, overlay) ==
  [k \in DOMAIN base \cup DOMAIN overlay |->
     IF k \notin DOMAIN overlay THEN base[k]
     ELSE IF k \in DOMAIN base /\ base[k].kind = "list" /\ overlay[k].kind = "list"
       THEN List(base[k].items \o overlay[k].items)
     ELSE overlay[k]]

RECURSIVE deepMerge(_, _)
deepMerge(base, overlay) ==
  [k \in DOMAIN base \cup DOMAIN overlay |->
     IF k \notin DOMAIN overlay THEN base[k]
     ELSE IF k \notin DOMAIN base THEN overlay[k]
     ELSE IF base[k].kind = "map" /\ overlay[k].kind = "map"
       THEN Subtree(deepMerge(base[k].entries, overlay[k].entries))
     ELSE IF base[k].kind = "list" /\ overlay[k].kind = "list"
       THEN List(base[k].items \o overlay[k].items)
     ELSE overlay[k]]

MergeTrees(versions, first) ==
  LET merged[n \in 0 .. NumFiles - 1] ==
        IF n = 0 THEN first ELSE deepMerge(merged[n - 1], Tree[n][versions[n]])
  IN merged[NumFiles - 1]

ASSUME TreesAssumption ==
  /\ \A f \in YamlFiles, v \in 0 .. MaxVersion : Document[f][v] = Flat(Tree[f][v])
  /\ Fragments = {Flat(t) : t \in TreeFragments}

-----------------------------------------------------------------------------
\* Going down the maps and going through the settings come to the same: what a
\* reload has read, after any fragment, has the nodes deepMerge leaves in the
\* maps, at the paths they have there, and no others.
MergedAlike ==
  UNION {IF \A t \in TreeFragments :
              Flat(MergeTrees(v, t)) = MergeFiles(<<Flat(t)>> \o Contents(v))
           THEN {v} ELSE {} : v \in Versions}

TreesMergeAlike == read \in MergedAlike

=============================================================================
