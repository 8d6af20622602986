SPECIFICATION Spec
CONSTANTS
  Strategies = {"strict", "best_match"}
  MaxBindings = 3
  Setups <- MCSetups
  Requests <- MCRequests
  Exprs <- MCExprs
  ExprCompiles <- MCCompiles
  ExprHolds <- MCHolds
INVARIANTS
  TypeOK
  ChosenIsBest
  GrantIsCollated
  DeniedWhenNoneFits
  RoleErrorsExplained
