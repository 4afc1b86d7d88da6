SPECIFICATION Spec
CONSTANTS
  Workers = {w1, w2}
  Interval = 2
  Timeout = 2
  Slots = {i1, i2}
  MaxRuns = 3
  MaxTime = 3
  MaxFailures = 0
PROPERTIES
  OncePerScheduledTime
\* The time is bounded.
CHECK_DEADLOCK FALSE
