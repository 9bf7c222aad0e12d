SPECIFICATION FairSpec
CONSTANTS
  None = None
  f1 = f1
  f2 = f2
  r1 = r1
  r2 = r2
  p1 = p1
  Ids = {f1, f2}
  Reqs = {r1, r2}
  Procs = {p1}
  Kinds = {"upload", "fetch", "delete"}
  Grace = 1
  BatchLimit = 1
  MaxTtl = 1
  MaxTime = 3
  MaxFaults = 0
  MaxCrashes = 0
  FreshIds = TRUE
PROPERTIES
  RequestsTerminate
  ExpiredIsHidden
  TombstoneReclaimed
