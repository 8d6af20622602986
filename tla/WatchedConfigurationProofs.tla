---------------------- MODULE WatchedConfigurationProofs ----------------------
(***************************************************************************)
(* Whatever a reload reads is merged as documented, and in what it         *)
(* publishes every name stands for the right account, for any number of    *)
(* files, any contents and any edits while they are read.                  *)
(***************************************************************************)
EXTENDS WatchedConfiguration, ConfigWatcherProofs, ConfigurationProofs

\* A file goes through the versions whose content is given, and no others.
BoundInv == disk \in Versions /\ read \in Versions

\* The documents of any versions are documents.
LEMMA ContentsType ==
  ASSUME NEW v \in Versions
  PROVE  /\ WellFormed(Contents(v)) /\ Len(Contents(v)) = NumFiles - 1
         /\ \A f \in YamlFiles : Contents(v)[f] = Document[f][v[f]]
<1> DEFINE c == Contents(v)
           S == {c[f] : f \in YamlFiles}
<1>1. NumFiles \in Nat \ {0} /\ NumFiles - 1 \in Nat /\ YamlFiles = 1 .. NumFiles - 1
  BY WatcherAssumption DEF Parameters, YamlFiles
<1>2. c = [f \in 1 .. NumFiles - 1 |-> c[f]]
  BY <1>1 DEF Contents
<1>3. \A f \in YamlFiles : c[f] = Document[f][v[f]] /\ IsDocument(c[f])
  <2> TAKE f \in YamlFiles
  <2>1. c[f] = Document[f][v[f]]
    BY DEF Contents
  <2>2. v[f] \in 0 .. MaxVersion
    BY <1>1 DEF Versions, Files
  <2> QED
    BY <2>1, <2>2, ContentsAssumption
<1> HIDE DEF c
<1>4. c \in [1 .. NumFiles - 1 -> S]
  BY <1>1, <1>2
<1>5. c \in Seq(S) /\ Len(c) = NumFiles - 1 /\ DOMAIN c = 1 .. NumFiles - 1
  BY <1>1, <1>4
<1> QED
  BY <1>1, <1>3, <1>5 DEF WellFormed, c

\* And so they are after a fragment.
LEMMA FragmentFirst ==
  ASSUME NEW v \in Versions, NEW d \in Fragments
  PROVE  WellFormed(<<d>> \o Contents(v))
<1> DEFINE c == Contents(v)
           s == <<d>> \o c
           S == {d} \cup {c[f] : f \in 1 .. Len(c)}
<1>1. Len(c) \in Nat /\ DOMAIN c = 1 .. Len(c) /\ \A i \in 1 .. Len(c) : IsDocument(c[i])
  BY ContentsType DEF WellFormed
<1>2. c = [f \in 1 .. Len(c) |-> c[f]]
  <2>1. c = [f \in YamlFiles |-> c[f]]
    BY DEF Contents
  <2> QED
    BY <1>1, <2>1
<1> HIDE DEF c
<1>3. c \in Seq(S)
  <2>1. c \in [1 .. Len(c) -> S]
    BY <1>2
  <2> QED
    BY <1>1, <2>1
<1>4. /\ Len(s) = Len(c) + 1 /\ Len(s) \in Nat /\ DOMAIN s = 1 .. Len(s)
      /\ s[1] = d /\ \A i \in 2 .. Len(s) : s[i] = c[i - 1]
  BY <1>1, <1>3
<1>5. IsDocument(d)
  BY ContentsAssumption
<1> HIDE DEF s
<1>6. ASSUME NEW i \in 1 .. Len(s) PROVE IsDocument(s[i])
  <2>1. i = 1 \/ (i \in 2 .. Len(s) /\ i - 1 \in 1 .. Len(c))
    BY <1>1, <1>4
  <2> QED
    BY <1>1, <1>4, <1>5, <2>1
<1>7. WellFormed(s)
  BY <1>4, <1>6 DEF WellFormed
<1> QED
  BY <1>7 DEF s, c

\* No content a file may have is merged otherwise than documented.
LEMMA AllWellMerged == \A v \in Versions : v \in WellMerged
<1> TAKE v \in Versions
<1>1. \A d \in Fragments, p \in Paths : Agrees(<<d>> \o Contents(v), p)
  BY FragmentFirst, MergeIsDocumented
<1> QED
  BY <1>1 DEF WellMerged

\* Files are read as they are, and edited to the next version up to the last.
LEMMA BoundStep ==
  ASSUME TypeOK, BoundInv, [Next]_vars
  PROVE  BoundInv'
<1>1. MaxVersion \in Nat /\ disk \in [Files -> 0 .. MaxVersion] /\ read \in [Files -> 0 .. MaxVersion]
  BY WatcherAssumption DEF Parameters, BoundInv, Versions
<1>2. ASSUME NEW f \in Files, disk[f] < MaxVersion, disk' = [disk EXCEPT ![f] = @ + 1],
             UNCHANGED read
      PROVE  BoundInv'
  BY <1>1, <1>2 DEF BoundInv, Versions
<1>3. ASSUME NEW f \in Files, NEW op \in {"write", "create"}, EditFile(f, op) PROVE BoundInv'
  BY <1>2, <1>3 DEF EditFile
<1>4. ASSUME NEW f \in Files, RemoveFile(f) PROVE BoundInv'
  BY <1>2, <1>4 DEF RemoveFile
<1>5. CASE RotateSymlink
  <2>0. \A f \in Files : disk[f] < MaxVersion
    BY <1>5, Zenon DEF RotateSymlink
  <2>1. \A f \in Files : disk[f] + 1 \in 0 .. MaxVersion
    BY <1>1, <2>0
  <2>2. disk' = [f \in Files |-> disk[f] + 1] /\ UNCHANGED read
    BY <1>5 DEF RotateSymlink
  <2>3. disk' \in Versions
    BY <2>1, <2>2 DEF Versions
  <2> QED
    BY <1>1, <2>2, <2>3 DEF BoundInv, Versions
<1>6. CASE ReadFile
  BY <1>1, <1>6 DEF ReadFile, BoundInv, Versions
<1>7. CASE UNCHANGED <<disk, read>>
  BY <1>7 DEF BoundInv
<1> QED
  BY <1>3, <1>4, <1>5, <1>6, <1>7
     DEF Next, Environment, WatchLoop, Reload, IdpToggle, StartWatching, Stop, TakeEvent,
         TimerFires, ExitLoop, Validate, DiscoverIdp, SwapState, vars, environment

\* Whatever interleaving of edits and reads a reload has read, merging it
\* gives every setting what the documentation promises.
THEOREM AlwaysMergedAsDocumented == Spec => []MergesAsDocumented
<1>1. Init => BoundInv
  <2>1. 0 \in 0 .. MaxVersion
    BY WatcherAssumption DEF Parameters
  <2> QED
    BY <2>1 DEF Init, BoundInv, Versions, Unedited
<1>2. BoundInv => MergesAsDocumented
  BY AllWellMerged DEF BoundInv, MergesAsDocumented
<1> QED
  BY <1>1, <1>2, TypeCorrect, BoundStep, PTL DEF Spec

-----------------------------------------------------------------------------
(***************************************************************************)
(* The accounts.                                                           *)
(***************************************************************************)
\* What is valid loads.
LEMMA ValidLoads ==
  ASSUME NEW v \in Valid
  PROVE  v \in Versions /\ Loads(MergeFiles(Contents(v)))
<1>1. v \in ValidContents
  BY ContentsAssumption
<1> QED
  BY <1>1 DEF ValidContents, Acceptable

\* In a document that loads, the settings of the accounts are of their kinds.
LEMMA LoadedKinds ==
  ASSUME NEW doc, Loads(doc)
  PROVE  /\ UserAccounts \in DOMAIN doc => doc[UserAccounts].kind = "list"
         /\ AutoAccountsDir \in DOMAIN doc => doc[AutoAccountsDir].kind = "scalar"
  BY DEF Loads, Schema, UserAccounts, AutoAccountsDir, ServiceName

\* The declared accounts of a merge that loads, name by name: each as the first list
\* that counts and has the name says, with its seed decoded.
LEMMA DeclaredAccounts ==
  ASSUME NEW documents, WellFormed(documents), Loads(MergeFiles(documents)), NEW name
  PROVE  LET declared == Declared(MergeFiles(documents))
             declaring == {f \in Counting(documents, UserAccounts) :
                             name \in Names(documents[f][UserAccounts].items)}
         IN /\ declared \in Seq({UserAccountInfo(e) : e \in Item})
            /\ name \in Names(declared) <=> declaring # {}
            /\ declaring # {} =>
                 lookupAccountInfo(declared, name) =
                   UnmarshalText(
                     lookupAccountInfo(documents[Min(declaring)][UserAccounts].items, name))
<1> DEFINE L == Len(documents)
           doc == MergeFiles(documents)
           S == Counting(documents, UserAccounts)
           declaring == {f \in S : name \in Names(documents[f][UserAccounts].items)}
<1>1. L \in Nat /\ L \in 0 .. L /\ MergedRight(documents, L, doc) /\
      S = Among(documents, L, UserAccounts)
  BY MergeRight, AllCount DEF WellFormed
<1>2. UserAccounts \in DOMAIN doc <=> S # {}
  BY <1>1 DEF MergedRight
<1>3. CASE S = {}
  <2>1. Declared(doc) = <<>> /\ declaring = {}
    BY <1>2, <1>3 DEF Declared
  <2>2. Names(<<>>) = {} /\ <<>> \in Seq({UserAccountInfo(e) : e \in Item})
    BY DEF Names
  <2> QED
    BY <2>1, <2>2
<1>4. CASE S # {}
  <2>1. \A i \in S : documents[i][UserAccounts].kind = "list"
    BY <1>1, <1>2, <1>4, LoadedKinds, KindSoFar
  <2>2. PICK i \in S : TRUE
    BY <1>4
  <2>3. PICK j : IsJoinRun(documents, S, UserAccounts, j)
    BY <1>1, <2>1, <2>2, AmongJoin
  <2>4. doc[UserAccounts] = List(j[L])
    BY <1>1, <2>1, <2>2, <2>3 DEF MergedRight
  <2>5. Declared(doc) = Decoded(j[L]) /\ j[L] \in Seq(Item)
    BY <1>1, <1>2, <1>4, <2>3, <2>4 DEF Declared, List, IsJoinRun
  <2>6. \A k \in S : documents[k][UserAccounts].items \in Seq(Item)
    <3> TAKE k \in S
    <3>1. k \in 1 .. L /\ UserAccounts \in DOMAIN documents[k]
      BY <1>1 DEF Among
    <3>2. IsNode(documents[k][UserAccounts])
      BY <3>1 DEF WellFormed, IsDocument
    <3> QED
      BY <2>1, <3>2 DEF IsNode
  <2>7. Declaring(documents, S, L, UserAccounts, name) = declaring
    BY <1>1 DEF Declaring, Among
  <2>8. /\ name \in Names(j[L]) <=> declaring # {}
        /\ declaring # {} =>
             lookupAccountInfo(j[L], name) =
               lookupAccountInfo(documents[Min(declaring)][UserAccounts].items, name)
    <3> HIDE DEF S, declaring
    <3> QED
      BY <1>1, <2>3, <2>6, <2>7, JoinedLookup
  <2>9. /\ Decoded(j[L]) \in Seq({UserAccountInfo(e) : e \in Item})
        /\ Names(Decoded(j[L])) = Names(j[L])
        /\ lookupAccountInfo(Decoded(j[L]), name) = UnmarshalText(lookupAccountInfo(j[L], name))
    <3> DEFINE list == j[L]
    <3>1. list \in Seq(Item)
      BY <2>5
    <3> HIDE DEF list
    <3>2. /\ Decoded(list) \in Seq({UserAccountInfo(e) : e \in Item})
          /\ Names(Decoded(list)) = Names(list)
          /\ lookupAccountInfo(Decoded(list), name) = UnmarshalText(lookupAccountInfo(list, name))
      BY <3>1, DecodedLookup
    <3> QED
      BY <3>2 DEF list
  <2> HIDE DEF doc, declaring, S, L
  <2> QED
    BY <2>5, <2>8, <2>9 DEF doc, declaring, S
<1> QED
  BY <1>3, <1>4

\* The key directory of a merge that loads is the one set last.
LEMMA DirectorySet ==
  ASSUME NEW documents, WellFormed(documents), Loads(MergeFiles(documents))
  PROVE  Discovers(MergeFiles(documents)) <=>
           \E f \in Counting(documents, AutoAccountsDir) :
             documents[f][AutoAccountsDir].value # ""
<1> DEFINE L == Len(documents)
           doc == MergeFiles(documents)
           S == Counting(documents, AutoAccountsDir)
<1>1. L \in Nat /\ L \in 0 .. L /\ MergedRight(documents, L, doc) /\
      S = Among(documents, L, AutoAccountsDir)
  BY MergeRight, AllCount DEF WellFormed
<1>2. AutoAccountsDir \in DOMAIN doc <=> S # {}
  BY <1>1 DEF MergedRight
<1>3. ASSUME NEW f \in S PROVE doc[AutoAccountsDir] = documents[f][AutoAccountsDir]
  <2>1. documents[f][AutoAccountsDir].kind = "scalar"
    BY <1>1, <1>2, LoadedKinds, KindSoFar
  <2> QED
    BY <1>1, <2>1 DEF MergedRight
<1> QED
  BY <1>2, <1>3 DEF Discovers

\* In every valid configuration the names stand for the right accounts.
LEMMA AllWellStocked == \A v \in Valid : v \in WellStocked
<1> TAKE v \in Valid
<1> DEFINE documents == Contents(v)
           doc == MergeFiles(documents)
           dir == KeyDir[v[NumFiles]]
           Key == [name : STRING, key : STRING]
           Made == {UserAccountInfo(e) : e \in Item}
           U == Made \cup {UserAccountInfo(e) : e \in Key}
<1>1. v \in Versions /\ WellFormed(documents) /\ Loads(doc)
  BY ValidLoads, ContentsType
<1>2. IsKeyDir(dir)
  <2>1. NumFiles \in Files
    BY WatcherAssumption DEF Parameters, Files
  <2>2. v[NumFiles] \in 0 .. MaxVersion
    BY <1>1, <2>1 DEF Versions
  <2> QED
    BY <2>2, ContentsAssumption
<1>3. ASSUME NEW name PROVE lookupAccountInfo(Accounts(doc, dir), name) = UnmarshalText(SeedOf(v, name))
  <2> DEFINE declaring == {f \in Counting(documents, UserAccounts) :
                             name \in Names(documents[f][UserAccounts].items)}
             Set == \E f \in Counting(documents, AutoAccountsDir) :
                      documents[f][AutoAccountsDir].value # ""
  <2>1. /\ Declared(doc) \in Seq(Made)
        /\ name \in Names(Declared(doc)) <=> declaring # {}
        /\ declaring # {} =>
             lookupAccountInfo(Declared(doc), name) =
               UnmarshalText(
                 lookupAccountInfo(documents[Min(declaring)][UserAccounts].items, name))
    BY <1>1, DeclaredAccounts
  <2>2. Discovers(doc) <=> Set
    BY <1>1, DirectorySet
  <2> HIDE DEF doc, documents, dir
  <2>3. /\ Declared(doc) \in Seq(U)
        /\ dir \in Seq(Key)
        /\ \A i \in 1 .. Len(dir) : UserAccountInfo(dir[i]) \in U
    <3> DEFINE list == Declared(doc)
    <3>1. list \in Seq(Made) /\ dir \in Seq(Key)
      BY <1>2, <2>1 DEF IsKeyDir
    <3>2. Made \subseteq U
      OBVIOUS
    <3>3. \A i \in 1 .. Len(dir) : dir[i] \in Key
      <4> HIDE DEF Key
      <4> QED
        BY <3>1
    <3>4. \A i \in 1 .. Len(dir) : UserAccountInfo(dir[i]) \in U
      BY <3>3
    <3> HIDE DEF list, Made, U
    <3>5. list \in Seq(U)
      BY <3>1, <3>2
    <3> QED
      BY <3>1, <3>4, <3>5 DEF list
  <2>4. lookupAccountInfo(Accounts(doc, dir), name) =
          IF name \in Names(Declared(doc)) THEN lookupAccountInfo(Declared(doc), name)
          ELSE IF Discovers(doc) THEN UnmarshalText(lookupAccountInfo(dir, name))
          ELSE NoKey
    BY <1>2, <2>3, DeclaredFirst DEF IsKeyDir
  <2> HIDE DEF U, Made
  <2>5. SeedOf(v, name) =
          IF declaring # {}
            THEN lookupAccountInfo(documents[Min(declaring)][UserAccounts].items, name)
          ELSE IF Set THEN lookupAccountInfo(dir, name)
          ELSE NoKey
    BY DEF SeedOf, documents, dir
  <2>9. UnmarshalText(NoKey) = NoKey
    BY DEF UnmarshalText, NoKey, Garbled
  <2> HIDE DEF declaring, Set
  <2>6. CASE declaring # {}
    BY <2>1, <2>4, <2>5, <2>6
  <2>7. CASE declaring = {} /\ Set
    BY <2>1, <2>2, <2>4, <2>5, <2>7
  <2>8. CASE declaring = {} /\ ~ Set
    BY <2>1, <2>2, <2>4, <2>5, <2>8, <2>9
  <2> QED
    BY <2>6, <2>7, <2>8
<1>4. \A name : lookupAccountInfo(LoadedAccounts(v), name) = UnmarshalText(SeedOf(v, name))
  BY <1>3 DEF LoadedAccounts
<1> QED
  BY <1>4 DEF WellStocked

\* In the live configuration a name stands for the account declared first among
\* the files that count, or else for the one of the key directory.
THEOREM DeclaredAccountsAlwaysWin == Spec => []DeclaredAccountsWin
<1>1. LiveIsSound => DeclaredAccountsWin
  BY AllWellStocked DEF LiveIsSound, DeclaredAccountsWin
<1> QED
  BY <1>1, LiveAlwaysSound, PTL

=============================================================================
