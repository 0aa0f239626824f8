SPECIFICATION FairSpec
CONSTANTS
  c1 = c1
  A = A
  B = B
  Callers <- MCCallers
  Catalogs <- MCCatalogs
  NoCatalog = none
  Transports <- MCTransports
  MaxAttempts = 2
  MaxOutages = 2
  MaxChanges = 1
CHECK_DEADLOCK FALSE
INVARIANTS CallsSound OneProcess
PROPERTIES OwnerListens
