SPECIFICATION Spec
CONSTANTS
  Strategies = {"strict"}
  MaxBindings = 1
  Setups <- MCSetups
  Requests <- MCRequests
  Exprs <- MCExprs
  ExprCompiles <- MCCompiles
  ExprHolds <- MCHolds
INVARIANTS
  HistoryFree
