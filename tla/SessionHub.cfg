SPECIFICATION HubFairSpec
CONSTANTS
  p1 = p1
  p2 = p2
  s1 = s1
  s2 = s2
  NoSub = NoSub
  Procs <- MCProcs
  Subs <- MCSubs
  BufSize = 1
  MaxPublish = 3
CHECK_DEADLOCK FALSE
INVARIANTS ChannelsSafe NoGaps
PROPERTIES EveryoneTold
