SPECIFICATION FairSpec
CONSTANTS
  NumFiles = 3
  NumIdps = 2
  MaxVersion = 2
  MaxQueue = 2
  Watched <- MCWatched
  Valid <- MCValid
  Broken <- MCBroken
  Document <- MCDocument
  KeyDir <- MCKeyDir
  Item <- MCItem
  Tree <- MCTree
  TreeFragments <- MCTreeFragments
  Fragments <- MCFragments
  Paths <- MCPaths
  AccountNames = {"A", "B", "C"}
  Required = {1}
  Changes = {"write", "create", "remove", "rotate"}
INVARIANTS
  TypeOK
  FreshWhenQuiet
  LiveIsSound
  MergesAsDocumented
  TreesMergeAlike
  DeclaredAccountsWin
PROPERTIES
  KeepsPromise
  EditsGoLive
