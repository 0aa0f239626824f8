SPECIFICATION WireFairSpec
CONSTANTS
  Kinds = {"http", "sse", "stdio"}
  MaxSessions = 1
  RecvCap = 1
  OutCap = 1
  MaxConns = 2
  MaxReqs = 4
CHECK_DEADLOCK FALSE
INVARIANTS SessionsSound
PROPERTIES AcceptedIsAnswered SessionsReclaimed
