SPECIFICATION Spec
CONSTANTS
  Settings <- MCSettings
  IdTokens <- MCIdTokens
  Rewrites <- MCRewrites
  MaxTime = 6
CHECK_DEADLOCK FALSE
INVARIANTS
  TypeOK
  WithinGrant
  IdpMaxHolds
  BindingOverrides
  LivesLongEnough
