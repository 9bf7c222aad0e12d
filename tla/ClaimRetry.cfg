SPECIFICATION PassSpec
CONSTANTS
  None = None
  f1 = f1
  r1 = r1
  r2 = r2
  p1 = p1
  Ids = {f1}
  Reqs = {r1, r2}
  Procs = {p1}
  Kinds = {"upload", "delete"}
  Grace = 1
  BatchLimit = 1
  MaxTtl = 1
  MaxTime = 3
  MaxFaults = 1
  MaxCrashes = 0
  FreshIds = TRUE
PROPERTIES
  FailedUnlinkIsRetried
