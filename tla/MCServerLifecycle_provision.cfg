CONSTANTS
  Clients = {c1, c2}
  Callbacks = {cb1}
  Scripts = {s1, s2}
  MaxInstances = 3
  MaxRequests = 3
  MaxFaults = 2
SPECIFICATION Spec
CONSTRAINT Together
INVARIANTS TypeOK InProgressIsOwned RunningIsBuilt
PROPERTIES DeleteHonoured FailedIsRemoved
CHECK_DEADLOCK FALSE
