CONSTANTS
  Deployments = {d1, d2}
  Requests = {q1, q2}
  Kinds = {"deploy", "rollback"}
  Queueing = TRUE
  Retention = 1
  MaxRuns = 2
  Failures = {"start", "enqueue", "crash"}
SPECIFICATION FairSpec
INVARIANTS
  TypeOK
  FinishedMeansSucceeded
  ActiveIsOwned
PROPERTIES
  ActiveSettles
