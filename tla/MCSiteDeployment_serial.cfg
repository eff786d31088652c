CONSTANTS
  Deployments = {d1, d2, d3}
  Requests = {q1}
  Kinds = {"webhook", "rollback"}
  Queueing = FALSE
  Retention = 5
  MaxRuns = 1
  Failures = {"start", "session", "enqueue", "crash"}
SPECIFICATION Spec
SYMMETRY Symmetry
INVARIANTS
  OneInFlight
