SPECIFICATION Spec
SYMMETRY Symmetry
CONSTANTS
  None = None
  p1 = p1
  p2 = p2
  i1 = i1
  f1 = f1
  n1 = n1
  n2 = n2
  Procs = {p1, p2}
  Ips = {i1}
  Files = {f1}
  Budgets <- SomeBudgets
  Long = 2
  Short = 1
  Few = 1
  Many = 2
  Slack = 1
  Nonces = {n1, n2}
  RedisUrl = TRUE
  MaxSkew = 1
  MaxTime = 3
  MaxOutages = 1
  MaxCrashes = 1
INVARIANTS
  TypeOK
  StoresKeepLimits
  RefusalsAreEarned
  LimiterInv
CHECK_DEADLOCK FALSE
