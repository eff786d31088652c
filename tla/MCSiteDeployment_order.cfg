CONSTANTS
  Deployments = {d1, d2, d3}
  Requests = {q1}
  Kinds = {"deploy"}
  Queueing = TRUE
  Retention = 5
  MaxRuns = 1
  Failures = {}
SPECIFICATION Spec
SYMMETRY Symmetry
PROPERTIES
  PromotedInOrder
