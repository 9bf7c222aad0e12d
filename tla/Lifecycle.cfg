SPECIFICATION Spec
CONSTANTS
  None = None
  f1 = f1
  r1 = r1
  r2 = r2
  r3 = r3
  p1 = p1
  Ids = {f1}
  Reqs = {r1, r2, r3}
  Procs = {p1}
  Kinds = {"upload", "fetch", "head", "info", "delete"}
  Grace = 1
  BatchLimit = 1
  MaxTtl = 1
  MaxTime = 3
  MaxFaults = 0
  MaxCrashes = 0
  FreshIds = TRUE
INVARIANTS
  TypeOK
  OneShotServedOnce
  DeletedStaysGone
  FilesAccounted
PROPERTIES
  TombstonePermanent
  PurgeOnlyOldTombstones
SYMMETRY RequestSymmetry
