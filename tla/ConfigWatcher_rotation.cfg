SPECIFICATION Spec
CONSTANTS
  NumFiles = 3
  NumIdps = 1
  MaxVersion = 2
  MaxQueue = 2
  Watched <- MCWatched
  Valid <- MCValid
  Broken = {}
  Document <- MCDocument
  KeyDir <- MCKeyDir
  Item <- MCItem
  Tree <- MCTree
  TreeFragments <- MCTreeFragments
  Fragments <- MCFragments
  Paths <- MCPaths
  AccountNames = {"A", "B", "C"}
  Required = {1}
  Changes = {"rotate"}
INVARIANTS
  RotationGoesLive
