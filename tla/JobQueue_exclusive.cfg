SPECIFICATION Spec
CONSTANTS
  NumJobs = 1
  Workers = {w1, w2}
  Concurrency = 1
  Retries = 1
  Events = {"stop", "crash", "query", "report"}
SYMMETRY WorkerSymmetry
INVARIANTS
  TypeOK
  OneWorkerPerJob
PROPERTIES
  SettledIsFinal
  ImplementsLifecycle
