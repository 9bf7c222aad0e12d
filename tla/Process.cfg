SPECIFICATION Spec
CONSTANTS
  None = None
  r1 = r1
  r2 = r2
  r3 = r3
  Requests = {r1, r2, r3}
  PoolSize = 1
  Sessions = 2
  MaxStarts = 2
  MaxCrashes = 1
INVARIANTS
  TypeOK
  ConnectionsAccounted
  NothingOutlivesTheProcess
  OneFailedStart
  ProcessInv
PROPERTIES
  RequestsEnd
  ShutdownEnds
  PassesRecur
CHECK_DEADLOCK FALSE
