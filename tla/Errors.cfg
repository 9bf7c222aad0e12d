SPECIFICATION Spec
CONSTANTS
  None = None
  f1 = f1
  r1 = r1
  r2 = r2
  r3 = r3
  p1 = p1
  Ids = {f1}
  Reqs = {r1, r2, r3}
  Procs = {p1}
  Kinds = {"upload", "fetch", "delete"}
  Grace = 0
  BatchLimit = 1
  MaxTtl = 1
  MaxTime = 1
  MaxFaults = 1
  MaxCrashes = 1
  FreshIds = TRUE
INVARIANTS
  LiveFileBacked
  NoHalfWritten
  OneShotInv
  TrackInv
PROPERTIES
  KeepsPromise
  OnlyFailuresAbandon
SYMMETRY RequestSymmetry
