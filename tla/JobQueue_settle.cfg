SPECIFICATION FairSpec
CONSTANTS
  NumJobs = 2
  Workers = {w1, w2}
  Concurrency = 1
  Retries = 1
  Events = {}
INVARIANTS
  ConcurrencyRespected
PROPERTIES
  JobsSettle
