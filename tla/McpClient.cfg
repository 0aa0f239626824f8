SPECIFICATION FairSpec
CONSTANTS
  c1 = c1
  c2 = c2
  Callers <- MCCallers
  Manager = manager
  Recv = recv
  NoOne = noone
  MaxPending = 2
  ControlCap = 1
  MaxPages = 2
  MaxServer = 3
CHECK_DEADLOCK FALSE
INVARIANTS NothingLeft
PROPERTIES ImplementsCallTable NobodyWaitsOnDead
