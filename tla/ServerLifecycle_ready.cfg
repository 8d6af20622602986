SPECIFICATION Spec
CONSTANTS
  NumFiles = 1
  NumIdps = 1
  MaxVersion = 2
  MaxQueue = 1
  MaxCallbacks = 2
  MaxMishaps = 0
  Watched <- MCWatched
  Valid <- MCValid
  Broken <- MCBroken
  Required = {}
  Changes = {"write"}
INVARIANTS
  ReadyAsDocumented
