SPECIFICATION Spec
CONSTANTS
  None = None
  u1 = u1
  u2 = u2
  u3 = u3
  d1 = d1
  d2 = d2
  Uploads = {u1, u2, u3}
  Deletes = {d1, d2}
INVARIANTS
  TypeOK
  ResultOnScreenIsCurrent
  CountdownIsOfResult
  ProgressCanBeCancelled
PROPERTIES
  ProgressEnds
CHECK_DEADLOCK FALSE
