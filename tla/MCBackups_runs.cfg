CONSTANTS
  Requests = {u1}
  Pollers = {p1}
  MaxRuns = 2
  Minutes = 2
  MaxFaults = 2
SPECIFICATION Spec
INVARIANTS StartedOnce OneAtWork
PROPERTIES EndedIsFinal RunSettles
CHECK_DEADLOCK FALSE
