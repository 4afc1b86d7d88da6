SPECIFICATION Spec
CONSTANTS
  Requests = {r1, r2}
  Duration = 6
  TTL = 1
  Latency = 1
  MaxTime = 6
  MaxVersions = 2
  MaxLate = 1
SYMMETRY RequestSymmetry
INVARIANTS
  TypeOK
  ServedIsRecent
PROPERTIES
  InUseIsExtended
\* The time is bounded.
CHECK_DEADLOCK FALSE
