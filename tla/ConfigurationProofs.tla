------------------------- MODULE ConfigurationProofs -------------------------
(***************************************************************************)
(* Merging any number of documents of any shape gives every setting the    *)
(* node the documentation promises, and an account that is declared wins   *)
(* over one of the key directory, in lists of any length.                  *)
(***************************************************************************)
EXTENDS Configuration, WellFoundedInduction, TLAPS

\* A non-empty set of naturals has a least element.
LEMMA LeastNumber ==
  ASSUME NEW S, S \subseteq Nat, S # {}
  PROVE  Min(S) \in S /\ \A k \in S : Min(S) <= k
<1> DEFINE R == OpToRel(<, Nat)
<1>1. IsWellFoundedOn(R, Nat)
  BY NatLessThanWellFounded
<1>2. \A k, m \in Nat : k < m => <<k, m>> \in R
  BY DEF OpToRel
<1> HIDE DEF R
<1>3. PICK m \in S : \A k \in S : ~ (<<k, m>> \in R)
  BY <1>1, WFMin
<1>4. \A k \in S : ~ (k < m)
  BY <1>2, <1>3
<1>5. \A k \in S : m <= k
  BY <1>4
<1>6. \E x \in S : \A y \in S : x <= y
  BY <1>5
<1> QED
  BY <1>6, Zenon DEF Min

\* Induction up to a bound, over the set of numbers a statement is true of.
LEMMA UpTo ==
  ASSUME NEW L \in Nat, NEW P, 0 \in P, \A n \in 1 .. L : n - 1 \in P => n \in P
  PROVE  0 .. L \subseteq P
<1> DEFINE Not == (0 .. L) \ P
<1> SUFFICES ASSUME Not # {} PROVE FALSE
  OBVIOUS
<1>1. Min(Not) \in Not /\ \A k \in Not : Min(Not) <= k
  BY LeastNumber
<1>2. PICK m \in 0 .. L : m \in Not /\ \A k \in Not : m <= k
  BY <1>1
<1>3. m # 0
  BY <1>2
<1>4. m \in 1 .. L /\ m - 1 \in 0 .. L /\ ~ (m <= m - 1)
  BY <1>2, <1>3
<1>5. m - 1 \in P
  BY <1>2, <1>4
<1> QED
  BY <1>2, <1>4, <1>5

-----------------------------------------------------------------------------
(***************************************************************************)
(* The runs of the three loops: merging, joining, collecting accounts.     *)
(***************************************************************************)
\* What is merged after each document.
IsMergeRun(documents, m) ==
  m = [n \in 0 .. Len(documents) |->
         IF n = 0 THEN EmptyDocument ELSE DeepMerge(m[n - 1], documents[n])]

\* The merge of mergeConfigurationFiles has a run, for any number of documents.
LEMMA MergeRun ==
  ASSUME NEW documents, Len(documents) \in Nat
  PROVE  \E m : IsMergeRun(documents, m) /\ MergeFiles(documents) = m[Len(documents)]
<1> DEFINE L == Len(documents)
           Starts(k, f) ==
             f = [n \in 0 .. k |->
                    IF n = 0 THEN EmptyDocument ELSE DeepMerge(f[n - 1], documents[n])]
           Started == {k \in Nat : \E f : Starts(k, f)}
<1>1. Starts(0, [n \in 0 .. 0 |-> EmptyDocument])
  OBVIOUS
<1>2. ASSUME NEW k \in Nat, NEW f, Starts(k, f)
      PROVE  \E g : Starts(k + 1, g)
  <2> DEFINE g == [n \in 0 .. k + 1 |->
                     IF n = k + 1 THEN DeepMerge(f[k], documents[k + 1]) ELSE f[n]]
  <2>1. \A n \in 0 .. k : g[n] = f[n]
    OBVIOUS
  <2>2. \A n \in 0 .. k : f[n] = IF n = 0 THEN EmptyDocument
                                 ELSE DeepMerge(f[n - 1], documents[n])
    BY <1>2
  <2>3. g[k + 1] = DeepMerge(f[k], documents[k + 1])
    OBVIOUS
  <2>4. g = [n \in 0 .. k + 1 |-> g[n]]
    OBVIOUS
  <2> HIDE DEF g
  <2>5. \A n \in 0 .. k + 1 :
          g[n] = IF n = 0 THEN EmptyDocument ELSE DeepMerge(g[n - 1], documents[n])
    <3> TAKE n \in 0 .. k + 1
    <3>1. CASE n = k + 1
      BY <2>1, <2>3, <3>1
    <3>2. CASE n = 0
      BY <2>1, <2>2, <3>2
    <3>3. CASE n \in 1 .. k
      <4>1. n \in 0 .. k /\ n - 1 \in 0 .. k /\ n # 0
        BY <3>3
      <4> QED
        BY <2>1, <2>2, <4>1
    <3> QED
      BY <3>1, <3>2, <3>3
  <2>6. Starts(k + 1, g)
    BY <2>4, <2>5
  <2> QED
    BY <2>6
<1> HIDE DEF Starts
<1>3. 0 .. L \subseteq Started
  <2>1. ASSUME NEW n \in 1 .. L, n - 1 \in Started PROVE n \in Started
    <3>1. n - 1 \in Nat /\ (n - 1) + 1 = n
      OBVIOUS
    <3> QED
      BY <1>2, <2>1, <3>1
  <2>2. 0 \in Started
    BY <1>1
  <2> QED
    BY <2>1, <2>2, UpTo
<1>4. \E f : IsMergeRun(documents, f)
  BY <1>3 DEF IsMergeRun, Starts
<1>5. MergeFiles(documents) = (CHOOSE m : IsMergeRun(documents, m))[L]
  BY DEF MergeFiles, IsMergeRun
<1> QED
  BY <1>4, <1>5

\* The values of a loop that makes each of the one before.
IsLoop(f, L, S, start, Step) ==
  f \in [0 .. L -> S] /\ f[0] = start /\ \A n \in 1 .. L : f[n] = Step[n][f[n - 1]]

\* A loop has a run.
LEMMA LoopRun ==
  ASSUME NEW L \in Nat, NEW S, NEW start \in S, NEW Step \in [1 .. L -> [S -> S]]
  PROVE  \E f : IsLoop(f, L, S, start, Step)
<1> DEFINE Starts(k, f) == IsLoop(f, k, S, start, Step)
           Started == {k \in 0 .. L : \E f : Starts(k, f)}
<1>1. \E f : Starts(0, f)
  <2>1. Starts(0, [n \in 0 .. 0 |-> start])
    BY DEF IsLoop
  <2> QED
    BY <2>1
<1>2. ASSUME NEW k \in Nat, k < L, NEW f, Starts(k, f)
      PROVE  \E g : Starts(k + 1, g)
  <2> DEFINE g == [n \in 0 .. k + 1 |-> IF n = k + 1 THEN Step[k + 1][f[k]] ELSE f[n]]
  <2>1. \A n \in 0 .. k : g[n] = f[n] /\ f[n] \in S
    BY <1>2 DEF IsLoop
  <2>2. k \in 0 .. k /\ k + 1 \in 1 .. L
    BY <1>2
  <2>3. g[k + 1] = Step[k + 1][f[k]] /\ Step[k + 1][f[k]] \in S
    BY <2>1, <2>2
  <2>4. g \in [0 .. k + 1 -> S]
    <3>1. \A n \in 0 .. k + 1 : n = k + 1 \/ n \in 0 .. k
      OBVIOUS
    <3>2. \A n \in 0 .. k + 1 : g[n] \in S
      BY <2>1, <2>3, <3>1
    <3> QED
      BY <3>2
  <2> HIDE DEF g
  <2>5. \A n \in 1 .. k + 1 : g[n] = Step[n][g[n - 1]]
    <3> TAKE n \in 1 .. k + 1
    <3>1. CASE n = k + 1
      BY <2>1, <2>2, <2>3, <3>1
    <3>2. CASE n \in 1 .. k
      <4>1. n \in 0 .. k /\ n - 1 \in 0 .. k
        BY <3>2
      <4> QED
        BY <1>2, <2>1, <3>2, <4>1 DEF IsLoop
    <3> QED
      BY <3>1, <3>2
  <2>6. g[0] = start
    BY <1>2, <2>1 DEF IsLoop
  <2>7. Starts(k + 1, g)
    BY <2>4, <2>5, <2>6 DEF IsLoop
  <2> QED
    BY <2>7
<1> HIDE DEF Starts
<1>3. 0 .. L \subseteq Started
  <2>1. ASSUME NEW n \in 1 .. L, n - 1 \in Started PROVE n \in Started
    <3>1. n - 1 \in Nat /\ (n - 1) + 1 = n /\ n - 1 < L
      OBVIOUS
    <3> QED
      BY <1>2, <2>1, <3>1
  <2>2. 0 \in Started
    BY <1>1
  <2> QED
    BY <2>1, <2>2, UpTo
<1>4. PICK f : Starts(L, f)
  BY <1>3
<1> QED
  BY <1>4 DEF Starts

\* What is joined after each document.
IsJoinRun(documents, among, path, j) ==
  /\ j \in [0 .. Len(documents) -> Seq(Item)]
  /\ j[0] = <<>>
  /\ \A n \in 1 .. Len(documents) :
       j[n] = IF n \in among THEN j[n - 1] \o documents[n][path].items ELSE j[n - 1]

\* Joining has a run if it is lists that are joined.
LEMMA JoinRun ==
  ASSUME NEW documents, Len(documents) \in Nat, NEW path,
         NEW among, \A i \in among : documents[i][path].items \in Seq(Item)
  PROVE  \E j : IsJoinRun(documents, among, path, j) /\
                Joined(documents, among, path) = j[Len(documents)]
<1> DEFINE L == Len(documents)
           Step == [n \in 1 .. L |-> [s \in Seq(Item) |->
                      IF n \in among THEN s \o documents[n][path].items ELSE s]]
           Is(j) == j = [n \in 0 .. L |->
                           IF n = 0 THEN <<>>
                           ELSE IF n \in among THEN j[n - 1] \o documents[n][path].items
                           ELSE j[n - 1]]
           run == CHOOSE j : Is(j)
<1>1. Step \in [1 .. L -> [Seq(Item) -> Seq(Item)]]
  OBVIOUS
<1>2. PICK f \in [0 .. L -> Seq(Item)] :
        f[0] = <<>> /\ \A n \in 1 .. L : f[n] = Step[n][f[n - 1]]
  <2> DEFINE S == Seq(Item)
  <2>1. L \in Nat /\ <<>> \in S /\ Step \in [1 .. L -> [S -> S]]
    BY <1>1
  <2> HIDE DEF L, S, Step
  <2>2. \E f : IsLoop(f, L, S, <<>>, Step)
    BY <2>1, LoopRun
  <2> QED
    BY <2>2 DEF IsLoop, S
<1>3. Is(f)
  <2>1. f = [n \in 0 .. L |-> f[n]]
    OBVIOUS
  <2>2. ASSUME NEW n \in 1 .. L
        PROVE  f[n] = IF n \in among THEN f[n - 1] \o documents[n][path].items
                      ELSE f[n - 1]
    <3>1. n - 1 \in 0 .. L
      OBVIOUS
    <3> QED
      BY <1>2, <3>1, Zenon
  <2>3. \A n \in 0 .. L : n = 0 \/ n \in 1 .. L
    OBVIOUS
  <2> QED
    BY <1>2, <2>1, <2>2, <2>3
<1>4. Is(run)
  BY <1>3, Zenon
<1>5. Joined(documents, among, path) = run[L]
  BY DEF Joined
<1> HIDE DEF run
<1>6. run[0] = <<>> /\ DOMAIN run = 0 .. L
  BY <1>4
<1>7. ASSUME NEW n \in 1 .. L
      PROVE  run[n] = IF n \in among THEN run[n - 1] \o documents[n][path].items
                      ELSE run[n - 1]
  <2>1. n \in 0 .. L /\ n # 0
    OBVIOUS
  <2> QED
    BY <1>4, <2>1
<1>8. \A n \in 0 .. L : run[n] \in Seq(Item)
  <2> DEFINE P == {n \in 0 .. L : run[n] \in Seq(Item)}
  <2>1. 0 \in P
    BY <1>6
  <2>2. ASSUME NEW n \in 1 .. L, n - 1 \in P PROVE n \in P
    <3>1. CASE n \in among
      <4>1. run[n - 1] \in Seq(Item) /\ documents[n][path].items \in Seq(Item)
        BY <2>2, <3>1
      <4>2. run[n] = run[n - 1] \o documents[n][path].items
        BY <1>7, <3>1
      <4>3. run[n] \in Seq(Item)
        BY <4>1, <4>2
      <4> QED
        BY <4>3
    <3>2. CASE n \notin among
      BY <1>7, <2>2, <3>2
    <3> QED
      BY <3>1, <3>2
  <2> HIDE DEF P
  <2>3. 0 .. L \subseteq P
    BY <2>1, <2>2, UpTo
  <2> QED
    BY <2>3 DEF P
<1>9. run = [n \in 0 .. L |-> run[n]]
  BY <1>4
<1>10. run \in [0 .. L -> Seq(Item)]
  BY <1>8, <1>9
<1>11. IsJoinRun(documents, among, path, run)
  BY <1>6, <1>7, <1>10 DEF IsJoinRun
<1> QED
  BY <1>5, <1>11

\* What is joined only depends on the documents so far.
LEMMA SameJoin ==
  ASSUME NEW documents, NEW n \in 0 .. Len(documents), Len(documents) \in Nat,
         NEW path, NEW S, NEW T, \A i \in 1 .. n : i \in S <=> i \in T,
         NEW j, IsJoinRun(documents, S, path, j),
         NEW k, IsJoinRun(documents, T, path, k)
  PROVE  j[n] = k[n]
<1> DEFINE P == {m \in 0 .. n : j[m] = k[m]}
<1>1. 0 \in P
  BY DEF IsJoinRun
<1>2. ASSUME NEW m \in 1 .. n, m - 1 \in P PROVE m \in P
  <2>1. m \in 1 .. Len(documents)
    OBVIOUS
  <2> QED
    BY <1>2, <2>1 DEF IsJoinRun
<1> HIDE DEF P
<1>3. 0 .. n \subseteq P
  <2>1. n \in Nat
    OBVIOUS
  <2> QED
    BY <1>1, <1>2, <2>1, UpTo
<1> QED
  BY <1>3 DEF P

\* Nothing is joined before the first document.
LEMMA EmptyJoin ==
  ASSUME NEW documents, NEW n \in 0 .. Len(documents), Len(documents) \in Nat,
         NEW path, NEW S, \A i \in 1 .. n : i \notin S,
         NEW j, IsJoinRun(documents, S, path, j)
  PROVE  j[n] = <<>>
<1> DEFINE P == {m \in 0 .. n : j[m] = <<>>}
<1>1. 0 \in P
  BY DEF IsJoinRun
<1>2. ASSUME NEW m \in 1 .. n, m - 1 \in P PROVE m \in P
  <2>1. m \in 1 .. Len(documents)
    OBVIOUS
  <2> QED
    BY <1>2, <2>1 DEF IsJoinRun
<1> HIDE DEF P
<1>3. 0 .. n \subseteq P
  <2>1. n \in Nat
    OBVIOUS
  <2> QED
    BY <1>1, <1>2, <2>1, UpTo
<1> QED
  BY <1>3 DEF P

-----------------------------------------------------------------------------
(***************************************************************************)
(* The merge.                                                              *)
(***************************************************************************)
WellFormed(documents) ==
  /\ Len(documents) \in Nat
  /\ DOMAIN documents = 1 .. Len(documents)
  /\ \A i \in 1 .. Len(documents) : IsDocument(documents[i])

\* The documents that count for a setting when there are only the first n.
Among(documents, n, path) ==
  {i \in 1 .. n :
     /\ path \in DOMAIN documents[i]
     /\ \A j \in 1 .. n, at \in Above(path) \cup {path} :
          j > i /\ at \in DOMAIN documents[j] =>
            /\ documents[j][at].kind = documents[i][at].kind
            /\ documents[j][at].kind # "scalar"}

\* A node above the setting is a map in all that count.
LEMMA MapsAbove ==
  ASSUME NEW documents, WellFormed(documents), NEW i \in 1 .. Len(documents),
         NEW path \in DOMAIN documents[i], NEW up \in Above(path)
  PROVE  up \in DOMAIN documents[i] /\ documents[i][up] = Map /\ Map.kind = "map"
  BY DEF WellFormed, IsDocument, Map

\* Documents that count for the same setting have nodes of the same kind there.
LEMMA SameKind ==
  ASSUME NEW documents, NEW n \in Nat, NEW path,
         NEW i \in Among(documents, n, path), NEW j \in Among(documents, n, path)
  PROVE  /\ documents[i][path].kind = documents[j][path].kind
         /\ documents[i][path].kind = "scalar" => i = j
<1>1. CASE i < j
  BY <1>1 DEF Among
<1>2. CASE j < i
  BY <1>2 DEF Among
<1>3. CASE i = j
  BY <1>3
<1> QED
  BY <1>1, <1>2, <1>3 DEF Among

\* A document without the setting leaves those that count, or makes them count
\* no more by what it has above.
LEMMA AmongWithout ==
  ASSUME NEW documents, WellFormed(documents), NEW n \in 1 .. Len(documents),
         NEW path, path \notin DOMAIN documents[n]
  PROVE  Among(documents, n, path) =
           IF \A up \in Above(path) : up \in DOMAIN documents[n] => documents[n][up] = Map
             THEN Among(documents, n - 1, path) ELSE {}
<1> DEFINE d == documents[n]
           Clear == \A up \in Above(path) : up \in DOMAIN d => d[up] = Map
<1>1. n \in Nat /\ n - 1 \in Nat /\ Len(documents) \in Nat
  BY DEF WellFormed
<1>2. n \notin Among(documents, n, path)
  BY DEF Among
<1>3. ASSUME NEW i \in Among(documents, n, path)
      PROVE  i \in Among(documents, n - 1, path) /\ Clear
  <2>1. i \in 1 .. n - 1 /\ i \in 1 .. Len(documents) /\ n > i /\ n \in 1 .. n
    BY <1>1, <1>2, <1>3 DEF Among
  <2>2. i \in Among(documents, n - 1, path)
    BY <1>1, <1>3, <2>1 DEF Among
  <2>3. ASSUME NEW up \in Above(path), up \in DOMAIN d PROVE d[up] = Map
    <3>1. d[up].kind = documents[i][up].kind
      BY <1>3, <2>1, <2>3 DEF Among
    <3>2. documents[i][up].kind = "map"
      BY <1>3, <2>1, MapsAbove DEF Among
    <3>3. IsNode(d[up])
      BY <2>3 DEF WellFormed, IsDocument
    <3> QED
      BY <3>1, <3>2, <3>3 DEF IsNode
  <2> QED
    BY <2>2, <2>3
<1>4. ASSUME NEW i \in Among(documents, n - 1, path), Clear
      PROVE  i \in Among(documents, n, path)
  <2>1. i \in 1 .. n /\ i \in 1 .. Len(documents) /\ path \in DOMAIN documents[i]
    BY <1>1, <1>4 DEF Among
  <2>2. ASSUME NEW at \in Above(path) \cup {path}, at \in DOMAIN d
        PROVE  d[at].kind = documents[i][at].kind /\ d[at].kind # "scalar"
    <3>1. at \in Above(path)
      BY <2>2
    <3>2. documents[i][at].kind = "map"
      BY <2>1, <3>1, MapsAbove
    <3>3. d[at].kind = "map"
      BY <1>4, <2>2, <3>1 DEF Map
    <3> QED
      BY <3>2, <3>3
  <2>3. \A j \in 1 .. n : j = n \/ j \in 1 .. n - 1
    BY <1>1
  <2> QED
    BY <1>4, <2>1, <2>2, <2>3 DEF Among
<1> QED
  BY <1>3, <1>4

\* A document with the setting counts, and those before it that have the same
\* kind of node there go on counting, unless it is a scalar.
LEMMA AmongWith ==
  ASSUME NEW documents, WellFormed(documents), NEW n \in 1 .. Len(documents),
         NEW path \in DOMAIN documents[n]
  PROVE  Among(documents, n, path) =
           {n} \cup {i \in Among(documents, n - 1, path) :
                       /\ documents[n][path].kind = documents[i][path].kind
                       /\ documents[n][path].kind # "scalar"}
<1> DEFINE d == documents[n]
           Same(i) == d[path].kind = documents[i][path].kind /\ d[path].kind # "scalar"
<1>1. n \in Nat /\ n - 1 \in Nat /\ Len(documents) \in Nat
  BY DEF WellFormed
<1>2. n \in Among(documents, n, path)
  BY <1>1 DEF Among
<1>3. ASSUME NEW i \in Among(documents, n, path), i # n
      PROVE  i \in Among(documents, n - 1, path) /\ Same(i)
  <2>1. i \in 1 .. n - 1 /\ n > i /\ n \in 1 .. n
    BY <1>1, <1>3 DEF Among
  <2>2. i \in Among(documents, n - 1, path)
    BY <1>1, <1>3, <2>1 DEF Among
  <2> QED
    BY <1>3, <2>1, <2>2 DEF Among
<1>4. ASSUME NEW i \in Among(documents, n - 1, path), Same(i)
      PROVE  i \in Among(documents, n, path)
  <2>1. i \in 1 .. n /\ i \in 1 .. Len(documents) /\ path \in DOMAIN documents[i]
    BY <1>1, <1>4 DEF Among
  <2>2. ASSUME NEW at \in Above(path) \cup {path}, at \in DOMAIN d
        PROVE  d[at].kind = documents[i][at].kind /\ d[at].kind # "scalar"
    <3>1. CASE at = path
      BY <1>4, <3>1
    <3>2. CASE at \in Above(path)
      BY <2>1, <3>2, MapsAbove
    <3> QED
      BY <2>2, <3>1, <3>2
  <2>3. \A j \in 1 .. n : j = n \/ j \in 1 .. n - 1
    BY <1>1
  <2> QED
    BY <1>4, <2>1, <2>2, <2>3 DEF Among
<1> QED
  BY <1>2, <1>3, <1>4

\* What the merge of the first n documents has to be.
MergedRight(documents, n, doc) ==
  \A path :
    /\ path \in DOMAIN doc <=> Among(documents, n, path) # {}
    /\ \A i \in Among(documents, n, path) :
         /\ documents[i][path].kind # "list" => doc[path] = documents[i][path]
         /\ documents[i][path].kind = "list" =>
              \A j : IsJoinRun(documents, Among(documents, n, path), path, j) =>
                doc[path] = List(j[n])

\* The lists that count have a joining.
LEMMA AmongJoin ==
  ASSUME NEW documents, WellFormed(documents), NEW n \in 0 .. Len(documents), NEW path,
         NEW i \in Among(documents, n, path), documents[i][path].kind = "list"
  PROVE  \E j : IsJoinRun(documents, Among(documents, n, path), path, j) /\
                Joined(documents, Among(documents, n, path), path) = j[Len(documents)]
<1>1. n \in Nat /\ Len(documents) \in Nat /\ 1 .. n \subseteq 1 .. Len(documents)
  BY DEF WellFormed
<1>2. ASSUME NEW k \in Among(documents, n, path)
      PROVE  documents[k][path].items \in Seq(Item)
  <2>1. documents[k][path].kind = "list"
    BY <1>1, SameKind
  <2>2. k \in 1 .. Len(documents) /\ path \in DOMAIN documents[k]
    BY <1>1 DEF Among
  <2> QED
    BY <2>1, <2>2 DEF WellFormed, IsDocument, IsNode
<1> QED
  BY <1>1, <1>2, JoinRun

\* The node merged so far is of the kind that counts.
LEMMA KindSoFar ==
  ASSUME NEW documents, WellFormed(documents), NEW n \in 0 .. Len(documents), NEW path,
         NEW base, MergedRight(documents, n, base), NEW i \in Among(documents, n, path)
  PROVE  base[path].kind = documents[i][path].kind
<1>1. CASE documents[i][path].kind = "list"
  <2>1. PICK j : IsJoinRun(documents, Among(documents, n, path), path, j)
    BY <1>1, AmongJoin
  <2>2. base[path] = List(j[n])
    BY <1>1, <2>1 DEF MergedRight
  <2> QED
    BY <1>1, <2>2 DEF List
<1>2. CASE documents[i][path].kind # "list"
  BY <1>2 DEF MergedRight
<1> QED
  BY <1>1, <1>2

\* One more document.
LEMMA MergeStep ==
  ASSUME NEW documents, WellFormed(documents), NEW n \in 1 .. Len(documents),
         NEW base, MergedRight(documents, n - 1, base)
  PROVE  MergedRight(documents, n, DeepMerge(base, documents[n]))
<1> DEFINE d == documents[n]
           m == DeepMerge(base, d)
<1>0. n - 1 \in 0 .. Len(documents) /\ Len(documents) \in Nat /\ n \in Nat /\ n - 1 \in Nat
  BY DEF WellFormed
<1>1. DOMAIN m = DOMAIN d \cup Kept(base, d)
  BY DEF DeepMerge
<1> SUFFICES ASSUME NEW path
             PROVE  /\ path \in DOMAIN m <=> Among(documents, n, path) # {}
                    /\ \A i \in Among(documents, n, path) :
                         /\ documents[i][path].kind # "list" => m[path] = documents[i][path]
                         /\ documents[i][path].kind = "list" =>
                              \A j : IsJoinRun(documents, Among(documents, n, path), path, j) =>
                                m[path] = List(j[n])
  BY Zenon DEF MergedRight
<1> DEFINE Was == Among(documents, n - 1, path)
           Now == Among(documents, n, path)
<1>2. path \in DOMAIN base <=> Was # {}
  BY DEF MergedRight
<1>3. CASE path \notin DOMAIN d
  <2> DEFINE Clear == \A up \in Above(path) : up \in DOMAIN d => d[up] = Map
  <2>1. Now = IF Clear THEN Was ELSE {}
    BY <1>3, AmongWithout
  <2>2. path \in DOMAIN m <=> path \in DOMAIN base /\ Clear
    BY <1>1, <1>3 DEF Kept
  <2>3. path \in DOMAIN m => m[path] = base[path]
    BY <1>1, <1>3 DEF DeepMerge
  <2> HIDE DEF m, Clear
  <2>4. path \in DOMAIN m <=> Now # {}
    BY <1>2, <2>1, <2>2
  <2>5. ASSUME NEW i \in Now, documents[i][path].kind # "list"
        PROVE  m[path] = documents[i][path]
    <3>1. i \in Was /\ m[path] = base[path]
      BY <2>1, <2>3, <2>4
    <3> QED
      BY <2>5, <3>1 DEF MergedRight
  <2>6. ASSUME NEW i \in Now, documents[i][path].kind = "list",
               NEW j, IsJoinRun(documents, Now, path, j)
        PROVE  m[path] = List(j[n])
    <3>1. i \in Was /\ m[path] = base[path] /\ Now = Was
      BY <2>1, <2>3, <2>4
    <3>2. n \notin Now
      BY <1>3 DEF Among
    <3>3. j[n] = j[n - 1]
      BY <2>6, <3>2 DEF IsJoinRun
    <3>4. IsJoinRun(documents, Was, path, j)
      BY <2>6, <3>1
    <3>5. base[path] = List(j[n - 1])
      BY <2>6, <3>1, <3>4 DEF MergedRight
    <3> QED
      BY <3>1, <3>3, <3>5
  <2> QED
    BY <2>4, <2>5, <2>6
<1>4. CASE path \in DOMAIN d
  <2>1. Now = {n} \cup {i \in Was : d[path].kind = documents[i][path].kind /\
                                    d[path].kind # "scalar"}
    BY <1>4, AmongWith
  <2>2. n \in Now /\ path \in DOMAIN m /\ IsNode(d[path])
    BY <1>1, <1>4, <2>1 DEF WellFormed, IsDocument
  <2>3. m[path] = IF path \in DOMAIN base /\ base[path].kind = "list" /\ d[path].kind = "list"
                    THEN List(base[path].items \o d[path].items) ELSE d[path]
    BY <1>1, <1>4 DEF DeepMerge
  <2>4. \A i \in Now : documents[i][path].kind = d[path].kind
    BY <1>0, <2>2, SameKind
  <2> HIDE DEF m
  <2>5. ASSUME NEW i \in Now, documents[i][path].kind # "list"
        PROVE  m[path] = documents[i][path]
    <3>1. m[path] = d[path]
      BY <2>3, <2>4, <2>5
    <3>2. CASE d[path].kind = "scalar"
      BY <1>0, <2>2, <3>1, <3>2, SameKind
    <3>3. CASE d[path].kind = "map"
      <4>1. IsNode(documents[i][path])
        BY <1>0 DEF Among, WellFormed, IsDocument
      <4> QED
        BY <2>2, <2>4, <3>1, <3>3, <4>1 DEF IsNode
    <3> QED
      BY <2>2, <2>4, <2>5, <3>2, <3>3 DEF IsNode
  <2>6. ASSUME NEW i \in Now, documents[i][path].kind = "list",
               NEW j, IsJoinRun(documents, Now, path, j)
        PROVE  m[path] = List(j[n])
    <3>1. d[path].kind = "list" /\ d[path] = List(d[path].items) /\ d[path].items \in Seq(Item)
      BY <2>2, <2>4, <2>6 DEF IsNode
    <3>2. j[n] = j[n - 1] \o d[path].items /\ j[n - 1] \in Seq(Item)
      BY <1>0, <2>2, <2>6 DEF IsJoinRun
    <3>3. CASE path \in DOMAIN base /\ base[path].kind = "list"
      <4>1. PICK k \in Was : TRUE
        BY <1>2, <3>3
      <4>2. documents[k][path].kind = "list"
        BY <1>0, <3>3, KindSoFar
      <4>3. PICK l : IsJoinRun(documents, Was, path, l)
        BY <1>0, <4>2, AmongJoin
      <4>4. base[path] = List(l[n - 1])
        BY <4>2, <4>3 DEF MergedRight
      <4>5. \A x \in Was : documents[x][path].kind = "list"
        BY <1>0, <4>2, SameKind
      <4>6. \A x \in 1 .. n - 1 : x \in Now <=> x \in Was
        BY <2>1, <3>1, <4>5
      <4>7. j[n - 1] = l[n - 1]
        BY <1>0, <2>6, <4>3, <4>6, SameJoin
      <4>8. base[path].items = l[n - 1]
        BY <4>4 DEF List
      <4> QED
        BY <2>3, <3>1, <3>2, <3>3, <4>7, <4>8
    <3>4. CASE ~ (path \in DOMAIN base /\ base[path].kind = "list")
      <4>1. \A x \in Was : documents[x][path].kind # "list"
        BY <1>0, <1>2, <3>4, KindSoFar
      <4>2. \A x \in 1 .. n - 1 : x \notin Now
        BY <1>0, <2>1, <3>1, <4>1
      <4>3. j[n - 1] = <<>>
        BY <1>0, <2>6, <4>2, EmptyJoin
      <4>4. <<>> \o d[path].items = d[path].items
        BY <3>1
      <4> QED
        BY <2>3, <3>1, <3>2, <3>4, <4>3, <4>4
    <3> QED
      BY <3>3, <3>4
  <2> QED
    BY <2>2, <2>5, <2>6
<1> QED
  BY <1>3, <1>4

\* All documents.
LEMMA MergeRight ==
  ASSUME NEW documents, WellFormed(documents)
  PROVE  MergedRight(documents, Len(documents), MergeFiles(documents))
<1> DEFINE L == Len(documents)
<1>0. L \in Nat
  BY DEF WellFormed
<1>1. PICK m : IsMergeRun(documents, m) /\ MergeFiles(documents) = m[L]
  BY <1>0, MergeRun
<1>2. m[0] = EmptyDocument /\ \A n \in 1 .. L : m[n] = DeepMerge(m[n - 1], documents[n])
  BY <1>0, <1>1 DEF IsMergeRun
<1> DEFINE P == {n \in 0 .. L : MergedRight(documents, n, m[n])}
<1>3. 0 \in P
  <2>1. \A path : Among(documents, 0, path) = {}
    BY DEF Among
  <2>2. \A path : path \notin DOMAIN EmptyDocument
    BY DEF EmptyDocument
  <2> QED
    BY <1>0, <1>2, <2>1, <2>2 DEF MergedRight
<1>4. ASSUME NEW n \in 1 .. L, n - 1 \in P PROVE n \in P
  <2>1. MergedRight(documents, n, DeepMerge(m[n - 1], documents[n]))
    BY <1>4, MergeStep
  <2> QED
    BY <1>0, <1>2, <2>1
<1> HIDE DEF P
<1>5. 0 .. L \subseteq P
  BY <1>0, <1>3, <1>4, UpTo
<1> QED
  BY <1>0, <1>1, <1>5 DEF P

\* With all documents, Among says what Counting says.
LEMMA AllCount ==
  ASSUME NEW documents, WellFormed(documents), NEW path
  PROVE  Counting(documents, path) = Among(documents, Len(documents), path)
  BY DEF WellFormed, Counting, Among

\* However many documents there are, and whatever their shapes, mergeConfigurationFiles
\* gives each setting what the documentation of the merge promises it.
THEOREM MergeIsDocumented ==
  ASSUME NEW documents, WellFormed(documents), NEW path
  PROVE  Agrees(documents, path)
<1> DEFINE L == Len(documents)
           counting == Counting(documents, path)
           merged == MergeFiles(documents)
           node(i) == IF documents[i][path].kind = "list"
                        THEN List(Joined(documents, counting, path)) ELSE documents[i][path]
<1>1. MergedRight(documents, L, merged) /\ counting = Among(documents, L, path)
  BY MergeRight, AllCount
<1>2. L \in 0 .. Len(documents)
  BY DEF WellFormed
<1>3. ASSUME NEW i \in counting PROVE merged[path] = node(i)
  <2>1. CASE documents[i][path].kind = "list"
    <3>1. PICK j : IsJoinRun(documents, counting, path, j) /\
                   Joined(documents, counting, path) = j[L]
      BY <1>1, <1>2, <1>3, <2>1, AmongJoin
    <3>2. merged[path] = List(j[L])
      BY <1>1, <2>1, <3>1 DEF MergedRight
    <3> QED
      BY <2>1, <3>1, <3>2
  <2>2. CASE documents[i][path].kind # "list"
    BY <1>1, <2>2 DEF MergedRight
  <2> QED
    BY <2>1, <2>2
<1>4. path \in DOMAIN merged <=> counting # {}
  BY <1>1 DEF MergedRight
<1>5. Documented(documents, path) = {node(i) : i \in counting}
  BY DEF Documented
<1> HIDE DEF node, merged, counting
<1>6. {node(i) : i \in counting} = {merged[at] : at \in DOMAIN merged \cap {path}}
  <2>1. CASE counting = {}
    BY <1>4, <2>1
  <2>2. CASE counting # {}
    <3>1. {node(i) : i \in counting} = {merged[path]}
      BY <1>3, <2>2
    <3>2. DOMAIN merged \cap {path} = {path}
      BY <1>4, <2>2
    <3> QED
      BY <3>1, <3>2
  <2> QED
    BY <2>1, <2>2
<1> QED
  BY <1>5, <1>6 DEF Agrees, merged

-----------------------------------------------------------------------------
(***************************************************************************)
(* The accounts.                                                           *)
(***************************************************************************)
\* A number of a set that no other is below is its minimum.
LEMMA MinIs ==
  ASSUME NEW S, S \subseteq Nat, NEW m \in S, \A k \in S : m <= k
  PROVE  Min(S) = m
<1>1. Min(S) \in S /\ Min(S) <= m
  BY LeastNumber
<1>2. m <= Min(S) /\ m \in Nat /\ Min(S) \in Nat
  BY <1>1
<1> QED
  BY <1>1, <1>2

\* A lookup returns the key of the first account of the name.
LEMMA LookupFirst ==
  ASSUME NEW U, NEW s \in Seq(U), NEW name, NEW i \in 1 .. Len(s), s[i].name = name,
         \A k \in 1 .. i - 1 : s[k].name # name
  PROVE  name \in Names(s) /\ lookupAccountInfo(s, name) = s[i].key
<1> DEFINE S == {k \in DOMAIN s : s[k].name = name}
<1>1. DOMAIN s = 1 .. Len(s) /\ Len(s) \in Nat
  OBVIOUS
<1>2. i \in S /\ S \subseteq Nat /\ name \in Names(s)
  BY <1>1 DEF Names
<1>3. \A k \in S : i <= k
  BY <1>1
<1> HIDE DEF S
<1>4. Min(S) = i
  BY <1>2, <1>3, MinIs
<1> QED
  BY <1>2, <1>4 DEF lookupAccountInfo, S

\* Every name of a list has a first account.
LEMMA HasFirst ==
  ASSUME NEW U, NEW s \in Seq(U), NEW name \in Names(s)
  PROVE  \E i \in 1 .. Len(s) : s[i].name = name /\ \A k \in 1 .. i - 1 : s[k].name # name
<1> DEFINE S == {k \in 1 .. Len(s) : s[k].name = name}
<1>1. Len(s) \in Nat /\ S # {} /\ S \subseteq Nat
  BY DEF Names
<1>2. Min(S) \in S /\ \A k \in S : Min(S) <= k
  BY <1>1, LeastNumber
<1>3. PICK i \in 1 .. Len(s) : i \in S /\ \A k \in S : i <= k
  BY <1>2
<1>4. \A k \in 1 .. i - 1 : k \in 1 .. Len(s) /\ ~ (i <= k)
  BY <1>1
<1>5. \A k \in 1 .. i - 1 : s[k].name # name
  BY <1>3, <1>4
<1> QED
  BY <1>3, <1>5

\* Of two lists one after the other, the first has its way.
LEMMA LookupConcat ==
  ASSUME NEW U, NEW s \in Seq(U), NEW t \in Seq(U), NEW name
  PROVE  /\ Names(s \o t) = Names(s) \cup Names(t)
         /\ lookupAccountInfo(s \o t, name) =
              IF name \in Names(s) THEN lookupAccountInfo(s, name)
              ELSE lookupAccountInfo(t, name)
<1> DEFINE st == s \o t
<1>1. /\ st \in Seq(U)
      /\ Len(s) \in Nat /\ Len(t) \in Nat /\ Len(st) = Len(s) + Len(t)
      /\ DOMAIN s = 1 .. Len(s) /\ DOMAIN t = 1 .. Len(t) /\ DOMAIN st = 1 .. Len(st)
      /\ \A i \in 1 .. Len(s) : st[i] = s[i]
      /\ \A i \in 1 .. Len(t) : st[Len(s) + i] = t[i]
  OBVIOUS
<1> HIDE DEF st
<1>2. \A i \in 1 .. Len(st) : i \in 1 .. Len(s) \/ i - Len(s) \in 1 .. Len(t)
  BY <1>1
<1>3. Names(st) = Names(s) \cup Names(t)
  <2>1. Names(st) \subseteq Names(s) \cup Names(t)
    <3> SUFFICES ASSUME NEW i \in 1 .. Len(st) PROVE st[i].name \in Names(s) \cup Names(t)
      BY <1>1 DEF Names
    <3>1. CASE i \in 1 .. Len(s)
      BY <1>1, <3>1 DEF Names
    <3>2. CASE i - Len(s) \in 1 .. Len(t)
      <4>1. st[i] = t[i - Len(s)]
        BY <1>1, <3>2
      <4> QED
        BY <1>1, <3>2, <4>1 DEF Names
    <3> QED
      BY <1>2, <3>1, <3>2
  <2>2. Names(s) \subseteq Names(st)
    BY <1>1 DEF Names
  <2>3. Names(t) \subseteq Names(st)
    <3> SUFFICES ASSUME NEW i \in 1 .. Len(t) PROVE t[i].name \in Names(st)
      BY <1>1 DEF Names
    <3>1. Len(s) + i \in 1 .. Len(st) /\ st[Len(s) + i] = t[i]
      BY <1>1
    <3> QED
      BY <1>1, <3>1 DEF Names
  <2> QED
    BY <2>1, <2>2, <2>3
<1>4. CASE name \in Names(s)
  <2>1. PICK i \in 1 .. Len(s) : s[i].name = name /\ \A k \in 1 .. i - 1 : s[k].name # name
    BY <1>4, HasFirst
  <2>2. i \in 1 .. Len(st) /\ st[i] = s[i] /\ \A k \in 1 .. i - 1 : st[k] = s[k]
    BY <1>1
  <2>3. lookupAccountInfo(s, name) = s[i].key
    BY <2>1, LookupFirst
  <2>4. lookupAccountInfo(st, name) = st[i].key
    <3>1. st[i].name = name /\ \A k \in 1 .. i - 1 : st[k].name # name
      BY <2>1, <2>2
    <3>2. st \in Seq(U) /\ i \in 1 .. Len(st)
      BY <1>1, <2>2
    <3> QED
      BY <3>1, <3>2, LookupFirst
  <2> QED
    BY <1>3, <1>4, <2>2, <2>3, <2>4 DEF st
<1>5. CASE name \notin Names(s) /\ name \in Names(t)
  <2>1. PICK i \in 1 .. Len(t) : t[i].name = name /\ \A k \in 1 .. i - 1 : t[k].name # name
    BY <1>5, HasFirst
  <2> DEFINE p == Len(s) + i
  <2>2. p \in 1 .. Len(st) /\ st[p] = t[i]
    BY <1>1
  <2>3. ASSUME NEW k \in 1 .. p - 1 PROVE st[k].name # name
    <3>1. k \in 1 .. Len(s) \/ k - Len(s) \in 1 .. i - 1
      BY <1>1
    <3>2. CASE k \in 1 .. Len(s)
      BY <1>1, <1>5, <3>2 DEF Names
    <3>3. CASE k - Len(s) \in 1 .. i - 1
      <4>1. st[k] = t[k - Len(s)]
        BY <1>1, <3>3
      <4> QED
        BY <2>1, <3>3, <4>1
    <3> QED
      BY <3>1, <3>2, <3>3
  <2> HIDE DEF p
  <2>4. lookupAccountInfo(t, name) = t[i].key
    BY <2>1, LookupFirst
  <2>5. lookupAccountInfo(st, name) = st[p].key
    <3>1. st \in Seq(U) /\ st[p].name = name
      BY <1>1, <2>1, <2>2
    <3> QED
      BY <2>2, <2>3, <3>1, LookupFirst
  <2> QED
    BY <1>3, <1>5, <2>2, <2>4, <2>5 DEF st
<1>6. CASE name \notin Names(s) /\ name \notin Names(t)
  BY <1>3, <1>6 DEF lookupAccountInfo, st
<1> QED
  BY <1>4, <1>5, <1>6

\* Among the first n documents, those whose list there has the name.
Declaring(documents, among, n, path, name) ==
  {i \in among \cap (1 .. n) : name \in Names(documents[i][path].items)}

\* A lookup in lists that were joined is one in the first list with the name.
LEMMA JoinedLookup ==
  ASSUME NEW documents, Len(documents) \in Nat, NEW path, NEW among,
         \A i \in among : documents[i][path].items \in Seq(Item),
         NEW j, IsJoinRun(documents, among, path, j), NEW name, NEW n \in 0 .. Len(documents)
  PROVE  /\ name \in Names(j[n]) <=> Declaring(documents, among, n, path, name) # {}
         /\ Declaring(documents, among, n, path, name) # {} =>
              lookupAccountInfo(j[n], name) =
                lookupAccountInfo(
                  documents[Min(Declaring(documents, among, n, path, name))][path].items, name)
<1> DEFINE L == Len(documents)
           D(m) == Declaring(documents, among, m, path, name)
           Right(m) ==
             /\ name \in Names(j[m]) <=> D(m) # {}
             /\ D(m) # {} => lookupAccountInfo(j[m], name) =
                               lookupAccountInfo(documents[Min(D(m))][path].items, name)
           P == {m \in 0 .. L : Right(m)}
<1>1. 0 \in P
  <2>1. D(0) = {}
    BY DEF Declaring
  <2>2. j[0] = <<>>
    BY DEF IsJoinRun
  <2>3. Names(<<>>) = {}
    BY DEF Names
  <2> QED
    BY <2>1, <2>2, <2>3
<1>2. ASSUME NEW m \in 1 .. L, Right(m - 1) PROVE Right(m)
  <2>0. m \in Nat /\ m - 1 \in 0 .. L /\ m \in 1 .. m
    OBVIOUS
  <2>1. CASE m \notin among
    <3>1. j[m] = j[m - 1]
      BY <2>1 DEF IsJoinRun
    <3>2. D(m) = D(m - 1)
      BY <2>0, <2>1 DEF Declaring
    <3> HIDE DEF D
    <3> QED
      BY <1>2, <3>1, <3>2
  <2>2. CASE m \in among
    <3> DEFINE t == documents[m][path].items
    <3>1. t \in Seq(Item) /\ j[m - 1] \in Seq(Item) /\ j[m] = j[m - 1] \o t
      BY <2>0, <2>2 DEF IsJoinRun
    <3>2. /\ Names(j[m]) = Names(j[m - 1]) \cup Names(t)
          /\ lookupAccountInfo(j[m], name) =
               IF name \in Names(j[m - 1]) THEN lookupAccountInfo(j[m - 1], name)
               ELSE lookupAccountInfo(t, name)
      BY <3>1, LookupConcat
    <3>3. D(m) = D(m - 1) \cup IF name \in Names(t) THEN {m} ELSE {}
      BY <2>0, <2>2 DEF Declaring
    <3>4. \A k \in D(m - 1) : k \in Nat /\ k <= m
      BY <2>0 DEF Declaring
    <3> HIDE DEF D
    <3>5. CASE D(m - 1) # {}
      <4>1. PICK k \in D(m - 1) : Min(D(m - 1)) = k /\ \A l \in D(m - 1) : k <= l
        BY <3>4, <3>5, LeastNumber
      <4>2. k \in D(m) /\ D(m) \subseteq Nat /\ \A l \in D(m) : k <= l
        BY <2>0, <3>3, <3>4, <4>1
      <4>3. Min(D(m)) = k
        BY <4>2, MinIs
      <4> QED
        BY <1>2, <3>2, <3>5, <4>1, <4>2, <4>3
    <3>6. CASE D(m - 1) = {} /\ name \in Names(t)
      <4>1. D(m) = {m}
        BY <3>3, <3>6
      <4>2. Min(D(m)) = m
        BY <2>0, <4>1, MinIs
      <4> QED
        BY <1>2, <3>2, <3>6, <4>1, <4>2
    <3>7. CASE D(m - 1) = {} /\ name \notin Names(t)
      BY <1>2, <3>2, <3>3, <3>7
    <3> QED
      BY <3>5, <3>6, <3>7
  <2> QED
    BY <2>1, <2>2
<1> HIDE DEF Right
<1>3. ASSUME NEW m \in 1 .. L, m - 1 \in P PROVE m \in P
  BY <1>2, <1>3
<1> HIDE DEF P
<1>4. 0 .. L \subseteq P
  BY <1>1, <1>3, UpTo
<1>5. Right(n)
  BY <1>4 DEF P
<1> QED
  BY <1>5 DEF Right

\* Decoding accounts keeps their names and their order: a lookup finds the key made
\* of the seed it would have found before.
LEMMA DecodedLookup ==
  ASSUME NEW U, NEW s \in Seq(U), NEW name
  PROVE  /\ Decoded(s) \in Seq({UserAccountInfo(e) : e \in U})
         /\ Names(Decoded(s)) = Names(s)
         /\ lookupAccountInfo(Decoded(s), name) = UnmarshalText(lookupAccountInfo(s, name))
<1> DEFINE V == {UserAccountInfo(e) : e \in U}
           t == Decoded(s)
<1>1. DOMAIN s = 1 .. Len(s) /\ Len(s) \in Nat /\ \A i \in 1 .. Len(s) : s[i] \in U
  OBVIOUS
<1>2. t = [i \in 1 .. Len(s) |-> UserAccountInfo(s[i])]
  BY <1>1 DEF Decoded
<1>3. t \in [1 .. Len(s) -> V]
  BY <1>1, <1>2
<1> HIDE DEF V
<1>4. t \in Seq(V) /\ Len(t) = Len(s)
  BY <1>1, <1>3
<1>5. /\ DOMAIN t = 1 .. Len(s)
      /\ \A i \in 1 .. Len(s) : t[i].name = s[i].name /\ t[i].key = UnmarshalText(s[i].key)
  BY <1>2 DEF UserAccountInfo
<1> HIDE DEF t
<1>6. Names(t) = Names(s)
  BY <1>1, <1>5 DEF Names
<1>7. lookupAccountInfo(t, name) = UnmarshalText(lookupAccountInfo(s, name))
  <2>1. CASE name \in Names(s)
    <3>1. PICK i \in 1 .. Len(s) : s[i].name = name /\ \A k \in 1 .. i - 1 : s[k].name # name
      BY <2>1, HasFirst
    <3>2. lookupAccountInfo(s, name) = s[i].key
      BY <3>1, LookupFirst
    <3>3. i \in 1 .. Len(t) /\ t[i].name = name /\ \A k \in 1 .. i - 1 : t[k].name # name
      BY <1>1, <1>4, <1>5, <3>1
    <3>4. lookupAccountInfo(t, name) = t[i].key
      BY <1>4, <3>3, LookupFirst
    <3> QED
      BY <1>5, <3>1, <3>2, <3>4
  <2>2. CASE name \notin Names(s)
    <3>1. NoKey # Garbled
      BY DEF NoKey, Garbled
    <3> QED
      BY <1>6, <2>2, <3>1 DEF lookupAccountInfo, UnmarshalText
  <2> QED
    BY <2>1, <2>2
<1> QED
  BY <1>4, <1>6, <1>7 DEF t, V

\* What the loop over the key directory makes of the account list.
Collected(existing, dir, accounts, n) ==
  IF dir[n].key = NoKey \/ dir[n].name \in existing THEN accounts
  ELSE Append(accounts, UserAccountInfo(dir[n]))

\* The list after each pair of files.
IsAccountRun(doc, dir, U, a) ==
  /\ a \in [0 .. Len(dir) -> Seq(U)]
  /\ a[0] = Declared(doc)
  /\ \A n \in 1 .. Len(dir) : a[n] = Collected(Names(Declared(doc)), dir, a[n - 1], n)

\* Collecting the accounts of a key directory has a run.
LEMMA AccountRun ==
  ASSUME NEW doc, NEW U, Declared(doc) \in Seq(U), NEW dir, Len(dir) \in Nat,
         \A i \in 1 .. Len(dir) : UserAccountInfo(dir[i]) \in U, Discovers(doc)
  PROVE  \E a : IsAccountRun(doc, dir, U, a) /\ Accounts(doc, dir) = a[Len(dir)]
<1> DEFINE L == Len(dir)
           existing == Names(Declared(doc))
           Step == [n \in 1 .. L |-> [s \in Seq(U) |-> Collected(existing, dir, s, n)]]
           Is(a) == a = [n \in 0 .. L |->
                           IF n = 0 THEN Declared(doc)
                           ELSE IF dir[n].key = NoKey \/ dir[n].name \in existing
                             THEN a[n - 1] ELSE Append(a[n - 1], UserAccountInfo(dir[n]))]
           run == CHOOSE a : Is(a)
<1>0. L \in Nat /\ \A n \in 1 .. L : UserAccountInfo(dir[n]) \in U
  OBVIOUS
<1>1. \A n \in 1 .. L, s \in Seq(U) : Collected(existing, dir, s, n) \in Seq(U)
  BY <1>0 DEF Collected
<1>2. PICK f \in [0 .. L -> Seq(U)] :
        f[0] = Declared(doc) /\ \A n \in 1 .. L : f[n] = Step[n][f[n - 1]]
  <2> DEFINE S == Seq(U)
             start == Declared(doc)
  <2>1. L \in Nat /\ start \in S /\ Step \in [1 .. L -> [S -> S]]
    BY <1>0, <1>1
  <2> HIDE DEF L, S, Step, start
  <2>2. \E f : IsLoop(f, L, S, start, Step)
    BY <2>1, LoopRun
  <2> QED
    BY <2>2 DEF IsLoop, S, start
<1>3. Is(f)
  <2>1. f = [n \in 0 .. L |-> f[n]]
    OBVIOUS
  <2>2. ASSUME NEW n \in 1 .. L
        PROVE  f[n] = IF dir[n].key = NoKey \/ dir[n].name \in existing
                        THEN f[n - 1] ELSE Append(f[n - 1], UserAccountInfo(dir[n]))
    <3>1. n - 1 \in 0 .. L
      BY <1>0
    <3>2. f[n] = Collected(existing, dir, f[n - 1], n)
      BY <1>2, <3>1, Zenon
    <3> QED
      BY <3>2 DEF Collected
  <2>3. \A n \in 0 .. L : n = 0 \/ n \in 1 .. L
    BY <1>0
  <2> HIDE DEF existing
  <2> QED
    BY <1>2, <2>1, <2>2, <2>3
<1>4. Is(run)
  BY <1>3, Zenon
<1>5. Accounts(doc, dir) = run[L]
  BY DEF Accounts
<1> HIDE DEF run, Step, existing
<1>6. run[0] = Declared(doc)
  BY <1>0, <1>4
<1>7. ASSUME NEW n \in 1 .. L PROVE run[n] = Collected(existing, dir, run[n - 1], n)
  <2>1. n \in 0 .. L /\ n # 0
    BY <1>0
  <2> QED
    BY <1>4, <2>1 DEF Collected
<1>8. \A n \in 0 .. L : run[n] \in Seq(U)
  <2> DEFINE P == {n \in 0 .. L : run[n] \in Seq(U)}
  <2>1. 0 \in P
    BY <1>0, <1>6
  <2>2. ASSUME NEW n \in 1 .. L, n - 1 \in P PROVE n \in P
    <3>1. run[n] \in Seq(U)
      BY <1>1, <1>7, <2>2
    <3> QED
      BY <3>1
  <2> HIDE DEF P
  <2>3. 0 .. L \subseteq P
    BY <1>0, <2>1, <2>2, UpTo
  <2> QED
    BY <2>3 DEF P
<1>9. run = [n \in 0 .. L |-> run[n]]
  BY <1>4
<1>10. run \in [0 .. L -> Seq(U)]
  BY <1>8, <1>9
<1>11. IsAccountRun(doc, dir, U, run)
  BY <1>6, <1>7, <1>10 DEF IsAccountRun, existing
<1> QED
  BY <1>5, <1>11

\* One account more at the end of a list.
LEMMA LookupAppend ==
  ASSUME NEW U, NEW s \in Seq(U), NEW e \in U, NEW name
  PROVE  /\ name \in Names(Append(s, e)) <=> name \in Names(s) \/ e.name = name
         /\ name \in Names(s) =>
              lookupAccountInfo(Append(s, e), name) = lookupAccountInfo(s, name)
         /\ name \notin Names(s) /\ e.name = name =>
              lookupAccountInfo(Append(s, e), name) = e.key
<1>1. <<e>> \in Seq(U) /\ Append(s, e) = s \o <<e>>
  OBVIOUS
<1>2. Names(<<e>>) = {e.name}
  BY DEF Names
<1>3. e.name = name => lookupAccountInfo(<<e>>, name) = e.key
  <2> SUFFICES ASSUME e.name = name PROVE lookupAccountInfo(<<e>>, name) = e.key
    OBVIOUS
  <2>1. 1 \in 1 .. Len(<<e>>) /\ <<e>>[1] = e /\ \A k \in 1 .. 1 - 1 : <<e>>[k].name # name
    OBVIOUS
  <2>2. <<e>>[1].name = name
    BY <2>1
  <2> QED
    BY <1>1, <2>1, <2>2, LookupFirst
<1>4. /\ Names(s \o <<e>>) = Names(s) \cup Names(<<e>>)
      /\ lookupAccountInfo(s \o <<e>>, name) =
           IF name \in Names(s) THEN lookupAccountInfo(s, name)
           ELSE lookupAccountInfo(<<e>>, name)
  <2> DEFINE t == <<e>>
  <2>1. t \in Seq(U)
    BY <1>1
  <2> HIDE DEF t
  <2>2. /\ Names(s \o t) = Names(s) \cup Names(t)
        /\ lookupAccountInfo(s \o t, name) =
             IF name \in Names(s) THEN lookupAccountInfo(s, name)
             ELSE lookupAccountInfo(t, name)
    BY <2>1, LookupConcat
  <2> QED
    BY <2>2 DEF t
<1> QED
  BY <1>1, <1>2, <1>3, <1>4

\* A declared account stays what it is, whatever the key directory holds.
LEMMA DeclaredStays ==
  ASSUME NEW doc, NEW U, Declared(doc) \in Seq(U), NEW dir, Len(dir) \in Nat,
         \A i \in 1 .. Len(dir) : UserAccountInfo(dir[i]) \in U,
         NEW a, IsAccountRun(doc, dir, U, a), NEW name \in Names(Declared(doc))
  PROVE  lookupAccountInfo(a[Len(dir)], name) = lookupAccountInfo(Declared(doc), name)
<1> DEFINE L == Len(dir)
           Right(n) == /\ name \in Names(a[n])
                       /\ lookupAccountInfo(a[n], name) = lookupAccountInfo(Declared(doc), name)
           P == {n \in 0 .. L : Right(n)}
<1>0. L \in Nat /\ \A n \in 1 .. L : UserAccountInfo(dir[n]) \in U
  OBVIOUS
<1>1. 0 \in P
  BY <1>0 DEF IsAccountRun
<1>2. ASSUME NEW n \in 1 .. L, Right(n - 1) PROVE Right(n)
  <2>1. n - 1 \in 0 .. L /\ a[n - 1] \in Seq(U)
    <3>1. n - 1 \in 0 .. L
      BY <1>0
    <3> QED
      BY <3>1 DEF IsAccountRun
  <2>2. a[n] = a[n - 1] \/ a[n] = Append(a[n - 1], UserAccountInfo(dir[n]))
    BY DEF IsAccountRun, Collected
  <2>3. CASE a[n] = a[n - 1]
    BY <1>2, <2>3
  <2>4. CASE a[n] = Append(a[n - 1], UserAccountInfo(dir[n]))
    <3>1. /\ name \in Names(Append(a[n - 1], UserAccountInfo(dir[n])))
          /\ lookupAccountInfo(Append(a[n - 1], UserAccountInfo(dir[n])), name) =
               lookupAccountInfo(a[n - 1], name)
      BY <1>0, <1>2, <2>1, LookupAppend
    <3> QED
      BY <1>2, <2>4, <3>1
  <2> QED
    BY <2>2, <2>3, <2>4
<1> HIDE DEF Right
<1>3. ASSUME NEW n \in 1 .. L, n - 1 \in P PROVE n \in P
  BY <1>2, <1>3
<1> HIDE DEF P
<1>4. 0 .. L \subseteq P
  BY <1>0, <1>1, <1>3, UpTo
<1>5. Right(L)
  BY <1>0, <1>4 DEF P
<1> QED
  BY <1>5 DEF Right

\* The account of a name that is not declared is the one in the key directory.
LEMMA DiscoveredFills ==
  ASSUME NEW doc, NEW U, Declared(doc) \in Seq(U), NEW V, NEW dir \in Seq(V),
         \A i \in 1 .. Len(dir) : UserAccountInfo(dir[i]) \in U,
         \A i, k \in DOMAIN dir : dir[i].name = dir[k].name => i = k,
         NEW a, IsAccountRun(doc, dir, U, a), NEW name, name \notin Names(Declared(doc))
  PROVE  lookupAccountInfo(a[Len(dir)], name) = UnmarshalText(lookupAccountInfo(dir, name))
<1> DEFINE L == Len(dir)
           Offers(i) == dir[i].name = name /\ dir[i].key # NoKey
           Right(n) == /\ name \in Names(a[n]) <=> \E i \in 1 .. n : Offers(i)
                       /\ \A i \in 1 .. n : Offers(i) =>
                            lookupAccountInfo(a[n], name) = UnmarshalText(dir[i].key)
           P == {n \in 0 .. L : Right(n)}
<1>0. /\ L \in Nat /\ DOMAIN dir = 1 .. L /\ \A n \in 1 .. L : UserAccountInfo(dir[n]) \in U
      /\ \A i, k \in 1 .. L : dir[i].name = name /\ dir[k].name = name => i = k
  OBVIOUS
<1>1. 0 \in P
  <2>1. a[0] = Declared(doc)
    BY DEF IsAccountRun
  <2> QED
    BY <1>0, <2>1
<1>2. ASSUME NEW n \in 1 .. L, Right(n - 1) PROVE Right(n)
  <2>0. n \in Nat /\ \A i \in 1 .. n : i \in 1 .. L /\ (i = n \/ i \in 1 .. n - 1)
    BY <1>0
  <2>1. n - 1 \in 0 .. L /\ a[n - 1] \in Seq(U)
    <3>1. n - 1 \in 0 .. L
      BY <1>0
    <3> QED
      BY <3>1 DEF IsAccountRun
  <2>2. a[n] = Collected(Names(Declared(doc)), dir, a[n - 1], n)
    BY DEF IsAccountRun
  <2>3. CASE a[n] = a[n - 1] /\ ~ Offers(n)
    <3>1. \A i \in 1 .. n : Offers(i) => i \in 1 .. n - 1
      BY <2>0, <2>3
    <3>2. \A i \in 1 .. n - 1 : i \in 1 .. n
      BY <2>0
    <3> QED
      BY <1>2, <2>3, <3>1, <3>2
  <2>4. CASE a[n] = Append(a[n - 1], UserAccountInfo(dir[n])) /\ dir[n].key # NoKey
    <3> DEFINE e == UserAccountInfo(dir[n])
               s == Append(a[n - 1], e)
    <3>0. e.name = dir[n].name /\ e.key = UnmarshalText(dir[n].key)
      BY DEF UserAccountInfo
    <3>1. /\ name \in Names(s) <=> name \in Names(a[n - 1]) \/ dir[n].name = name
          /\ name \in Names(a[n - 1]) =>
               lookupAccountInfo(s, name) = lookupAccountInfo(a[n - 1], name)
          /\ name \notin Names(a[n - 1]) /\ dir[n].name = name =>
               lookupAccountInfo(s, name) = UnmarshalText(dir[n].key)
      <4>1. e \in U
        BY <1>0
      <4> HIDE DEF e
      <4> QED
        BY <2>1, <3>0, <4>1, LookupAppend
    <3> HIDE DEF s
    <3>2. CASE dir[n].name = name
      <4>1. \A i \in 1 .. n : Offers(i) => i = n
        BY <1>0, <2>0, <3>2
      <4>2. ~ \E i \in 1 .. n - 1 : Offers(i)
        BY <2>0, <4>1
      <4>3. n \in 1 .. n /\ Offers(n)
        BY <2>0, <2>4, <3>2
      <4> QED
        BY <1>2, <2>4, <3>1, <3>2, <4>1, <4>2, <4>3 DEF s
    <3>3. CASE dir[n].name # name
      <4>1. \A i \in 1 .. n : Offers(i) => i \in 1 .. n - 1
        BY <2>0, <3>3
      <4>2. \A i \in 1 .. n - 1 : i \in 1 .. n
        BY <2>0
      <4> QED
        BY <1>2, <2>4, <3>1, <3>3, <4>1, <4>2 DEF s
    <3> QED
      BY <3>2, <3>3
  <2> QED
    BY <2>2, <2>3, <2>4 DEF Collected
<1> HIDE DEF Right
<1>3. ASSUME NEW n \in 1 .. L, n - 1 \in P PROVE n \in P
  BY <1>2, <1>3
<1> HIDE DEF P
<1>4. 0 .. L \subseteq P
  BY <1>0, <1>1, <1>3, UpTo
<1>5. Right(L)
  BY <1>0, <1>4 DEF P
<1>8. UnmarshalText(NoKey) = NoKey
  BY DEF UnmarshalText, NoKey, Garbled
<1>6. CASE name \in Names(dir)
  <2>1. PICK i \in 1 .. L : dir[i].name = name /\ \A k \in 1 .. i - 1 : dir[k].name # name
    BY <1>6, HasFirst
  <2>2. lookupAccountInfo(dir, name) = dir[i].key
    BY <2>1, LookupFirst
  <2>3. CASE dir[i].key # NoKey
    BY <1>5, <2>1, <2>2, <2>3 DEF Right
  <2>4. CASE dir[i].key = NoKey
    <3>1. ~ \E k \in 1 .. L : Offers(k)
      BY <1>0, <2>1, <2>4
    <3>2. name \notin Names(a[L])
      BY <1>5, <3>1 DEF Right
    <3> QED
      BY <1>8, <2>2, <2>4, <3>2 DEF lookupAccountInfo
  <2> QED
    BY <2>3, <2>4
<1>7. CASE name \notin Names(dir)
  <2>1. ~ \E k \in 1 .. L : Offers(k)
    BY <1>0, <1>7 DEF Names
  <2>2. name \notin Names(a[L])
    BY <1>5, <2>1 DEF Right
  <2> QED
    BY <1>8, <1>7, <2>2 DEF lookupAccountInfo
<1> QED
  BY <1>6, <1>7

\* An account that is declared wins over one that is discovered, in lists of any
\* length, and one that is not declared is the one discovered, with a key pair where
\* its seed parses and without where it does not.
THEOREM DeclaredFirst ==
  ASSUME NEW doc, NEW U, Declared(doc) \in Seq(U), NEW V, NEW dir \in Seq(V),
         \A i \in 1 .. Len(dir) : UserAccountInfo(dir[i]) \in U,
         \A i, k \in DOMAIN dir : dir[i].name = dir[k].name => i = k, NEW name
  PROVE  lookupAccountInfo(Accounts(doc, dir), name) =
           IF name \in Names(Declared(doc)) THEN lookupAccountInfo(Declared(doc), name)
           ELSE IF Discovers(doc) THEN UnmarshalText(lookupAccountInfo(dir, name))
           ELSE NoKey
<1>1. CASE ~ Discovers(doc)
  BY <1>1 DEF Accounts, lookupAccountInfo
<1>2. CASE Discovers(doc)
  <2>0. Len(dir) \in Nat
    OBVIOUS
  <2>1. PICK a : IsAccountRun(doc, dir, U, a) /\ Accounts(doc, dir) = a[Len(dir)]
    BY <1>2, <2>0, AccountRun
  <2>2. CASE name \in Names(Declared(doc))
    BY <2>0, <2>1, <2>2, DeclaredStays
  <2>3. CASE name \notin Names(Declared(doc))
    BY <1>2, <2>1, <2>3, DiscoveredFills
  <2> QED
    BY <2>2, <2>3
<1> QED
  BY <1>1, <1>2

=============================================================================
