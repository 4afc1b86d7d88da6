SPECIFICATION TXFairSpec
CONSTANTS
  Requests = {c1, c2}
  MaxEvents = 3
INVARIANTS
  TXTypeOK
  SeenAfterCommit
  NothingLeftOpen
PROPERTIES
  CommittedIsDelivered
\* Requests end, and the events are bounded.
CHECK_DEADLOCK FALSE
