SPECIFICATION Spec
CONSTANTS
  Workers = {w1, w2}
  Interval = 1
  Timeout = 3
  Slots = {i1, i2}
  MaxRuns = 3
  MaxTime = 4
  MaxFailures = 1
SYMMETRY WorkerSymmetry
INVARIANTS
  TypeOK
  OneRunAtATime
  StaleLocksCleared
