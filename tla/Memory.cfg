SPECIFICATION Spec
CONSTANTS
  Ops = {"a", "b", "w"}
  Worker = "w"
  Keys = {1}
  Sessions = {1}
  MaxItems = 1
  Issues <- MCIssues
  Eviction = "ttl"
  Fallback = TRUE
  MaxClock = 1
  MaxPuts = 3
CHECK_DEADLOCK FALSE
INVARIANTS IndexHonest QuotaKept GatesSound
