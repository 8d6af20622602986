SPECIFICATION FairSpec
CONSTANTS
  NumFiles = 1
  NumIdps = 2
  MaxVersion = 2
  MaxQueue = 1
  MaxCallbacks = 2
  MaxMishaps = 1
  Watched <- MCWatched
  Valid <- MCValid
  Broken <- MCBroken
  Required = {1}
  Changes = {"write"}
INVARIANTS
  TypeOK
  FlagSettles
  ServesSound
PROPERTIES
  KeepsPromise
  Heals
