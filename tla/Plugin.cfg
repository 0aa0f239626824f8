SPECIFICATION PluginFairSpec
CONSTANTS
  PluginCount = 2
  MaxAttempts = 1
  Callers = {"c"}
  MaxProcs = 2
CHECK_DEADLOCK FALSE
INVARIANTS ClientsSound OrderSound
PROPERTIES StopReturns
