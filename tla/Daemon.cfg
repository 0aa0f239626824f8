SPECIFICATION FairSpec
CONSTANTS
  WsTurns = {"w1"}
  RestTurns = {"r1"}
  Clients = {"sse", "ws"}
  MaxStray = 1
CHECK_DEADLOCK FALSE
INVARIANTS ComponentsSound TurnsSound
PROPERTIES ShutdownReturns
