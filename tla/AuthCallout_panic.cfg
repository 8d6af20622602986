SPECIFICATION Spec
CONSTANTS
  Idps = {"p", "q"}
  Users = {"u1", "u2"}
  Accounts = {"A", "B"}
  Configs = {"c1", "c2", "c3"}
  Content <- MCContent
  Requests = {1, 2, 3, 4}
  About <- MCAbout
  MaxAsked = 1
  MaxRestarts = 0
INVARIANTS
  NeverPanics
