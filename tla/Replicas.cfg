SPECIFICATION Spec
CONSTANTS
  None = None
  f1 = f1
  r1 = r1
  r2 = r2
  r3 = r3
  p1 = p1
  p2 = p2
  Ids = {f1}
  Reqs = {r1, r2, r3}
  Procs = {p1, p2}
  Kinds = {"upload", "fetch"}
  Grace = 0
  BatchLimit = 1
  MaxTtl = 1
  MaxTime = 1
  MaxFaults = 0
  MaxCrashes = 0
  FreshIds = TRUE
INVARIANTS
  FetchesCounted
  IInv
SYMMETRY ReplicaSymmetry
