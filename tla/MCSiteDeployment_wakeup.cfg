CONSTANTS
  Deployments = {d1, d2}
  Requests = {q1}
  Kinds = {"webhook"}
  Queueing = TRUE
  Retention = 5
  MaxRuns = 1
  Failures = {}
SPECIFICATION FairSpec
PROPERTIES
  QueueMoves
