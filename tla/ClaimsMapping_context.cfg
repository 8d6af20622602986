SPECIFICATION Spec
CONSTANTS
  Text = {"email", "client_id"}
  Untyped = {"groups"}
  Values <- MCValues
  Mappings <- MCMappings
  Demands = {{}, {"email"}, {"client_id"}, {"z"}}
  Tokens <- MCTokens
  UserInfos <- MCUserInfos
  Clients <- MCClients
CHECK_DEADLOCK FALSE
INVARIANTS
  TypeOK
  ContextAsDocumented
  StructAgrees
  StandardClaimsStand
  RequiredClaimsLast
