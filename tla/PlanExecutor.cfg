SPECIFICATION FairSpec
CONSTANTS
  N = 3
  MaxConcurrent = 2
  MaxDepends = 2
  StepDeadlines = TRUE
CHECK_DEADLOCK FALSE
INVARIANTS DepsSucceeded AllJoined PlansHonest
PROPERTIES ExecuteReturns
