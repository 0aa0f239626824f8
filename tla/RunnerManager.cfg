SPECIFICATION Spec
CONSTANTS
  c1 = c1
  c2 = c2
  c3 = c3
  s1 = s1
  s2 = s2
  s3 = s3
  t1 = t1
  t2 = t2
  None = None
  Sids = {s1, s2}
  Restored = {s1}
  Callers = {c1, c2}
  Turns = {t1}
  Ops = {"turn", "cancel", "close", "create", "delete", "cancelAgent", "shutdown"}
  QueueCap = 1
  MaxSessions = 1
  FailingOps = {"set", "delete"}
CHECK_DEADLOCK FALSE
VIEW MCView
SYMMETRY MCSymmetry
INVARIANTS NothingLeftBehind SessionsWhole StoreIsMemory BooksExact
PROPERTIES QuietAfterShutdown
