------------------------- MODULE WatchedConfiguration -------------------------
(***************************************************************************)
(* Hot reload of real configurations: the versions ConfigWatcher reads are *)
(* given their contents, YAML documents and last the key directory, and    *)
(* what passes validation is what Configuration says.  GetConfig reads the *)
(* directory after the files and before it returns, as the last of the     *)
(* reads; the watcher does not watch it.                                   *)
(***************************************************************************)
EXTENDS ConfigWatcher, Configuration

CONSTANTS
  Document,   \* the content of each version of each YAML file
  KeyDir,     \* the content of each version of auto_accounts_dir
  Fragments,  \* documents the merge is tried with before those read
  Paths,      \* the settings looked at
  AccountNames

YamlFiles == 1 .. NumFiles - 1

Contents(versions) == [f \in YamlFiles |-> Document[f][versions[f]]]

LoadedAccounts(versions) ==
  Accounts(MergeFiles(Contents(versions)), KeyDir[versions[NumFiles]])

\* Validation accepts just the contents that load, with their key directory.
Versions == [Files -> 0 .. MaxVersion]

Acceptable(versions) ==
  LET merged == MergeFiles(Contents(versions))
  IN Loads(merged) /\ Discoverable(merged, KeyDir[versions[NumFiles]])

ValidContents == UNION {IF Acceptable(v) THEN {v} ELSE {} : v \in Versions}

\* In a directory every name occurs once.
IsKeyDir(dir) ==
  /\ dir \in Seq([name : STRING, key : STRING])
  /\ \A i, j \in DOMAIN dir : dir[i].name = dir[j].name => i = j

ASSUME ContentsAssumption ==
  /\ \A f \in YamlFiles, v \in 0 .. MaxVersion : IsDocument(Document[f][v])
  /\ \A v \in 0 .. MaxVersion : IsKeyDir(KeyDir[v])
  /\ \A d \in Fragments : IsDocument(d)
  /\ Paths \subseteq Seq(STRING) \ {<<>>}
  /\ Valid \subseteq ValidContents

-----------------------------------------------------------------------------
(***************************************************************************)
(* Properties.  There are few contents: those of which a property holds    *)
(* are collected once, as unions that TLC evaluates at the start, and      *)
(* looked up in every state.                                               *)
(***************************************************************************)
\* Whatever versions a reload has read, and whatever fragment is loaded before
\* them, the merge gives every setting the value configuration.qmd promises:
\* maps merge, lists are joined in order, a scalar or a value of another kind
\* replaces all that came before it, but nothing beside it.
WellMerged ==
  UNION {IF \A d \in Fragments, p \in Paths : Agrees(<<d>> \o Contents(v), p)
           THEN {v} ELSE {} : v \in Versions}

MergesAsDocumented == read \in WellMerged

\* The account a name stands for in the live configuration is the one declared
\* first, in the order of the files that count; only a name that none of them
\* declares may be one of the key directory, with the key it had there when it
\* was read.  An account whose seed does not parse keeps its name all the same:
\* no later declaration and no key file takes its place.
SeedOf(versions, name) ==
  LET documents == Contents(versions)
      declaring == {f \in Counting(documents, UserAccounts) :
                      name \in Names(documents[f][UserAccounts].items)}
  IN IF declaring # {}
       THEN lookupAccountInfo(documents[Min(declaring)][UserAccounts].items, name)
     ELSE IF \E f \in Counting(documents, AutoAccountsDir) :
               documents[f][AutoAccountsDir].value # ""
       THEN lookupAccountInfo(KeyDir[versions[NumFiles]], name)
     ELSE NoKey

WellStocked ==
  UNION {IF \A name \in AccountNames :
              lookupAccountInfo(LoadedAccounts(v), name) = UnmarshalText(SeedOf(v, name))
           THEN {v} ELSE {} : v \in Valid}

DeclaredAccountsWin == live.files \in WellStocked

=============================================================================
