SPECIFICATION FairSpec
CONSTANTS
  Idps = {"p", "q"}
  Users = {"u1", "u2"}
  Accounts = {"A", "B"}
  Configs = {"c1", "c2", "c3"}
  Content <- MCContent
  Requests = {1, 2, 3, 4}
  About <- MCAbout
  MaxAsked = 2
  MaxRestarts = 1
INVARIANTS
  TypeOK
  BooksBalance
  AuditFirst
  SealedStaysSealed
PROPERTIES
  KeepsPromise
  EverySettled
