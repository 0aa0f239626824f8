SPECIFICATION FairSpec
CONSTANTS
  Sids <- MCSids
  Policies <- MCPolicies
  Turns = {"turn_a", "b"}
  Prefixed = {"turn_a"}
  Calls <- MCCalls
  MaxMessages = 5
  FailingOps = {"set", "delete", "get"}
  None = None
  MaxClock = 2
  MaxFailures = 1
  MaxRestarts = 1
INVARIANTS HistoriesWhole
PROPERTIES StatesByRule TimeIsEnforced
