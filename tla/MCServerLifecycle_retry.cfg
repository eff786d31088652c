CONSTANTS
  Clients = {c1}
  Callbacks = {cb1}
  Scripts = {s1}
  MaxInstances = 1
  MaxRequests = 1
  MaxFaults = 0
SPECIFICATION Spec
PROPERTIES RetryFindsDroplet
CHECK_DEADLOCK FALSE
