SPECIFICATION Spec
CONSTANTS
  Ids = {r1}
  Clients = {c1, c2}
  MaxVersion = 2
  MaxRequests = 3
  MaxFaults = 1
INVARIANTS
  TypeOK
  InstalledIsPresent
  CleanRemoval
  FailureIsRecorded
  InstalledIsCurrent
PROPERTY UninstallSettles
CHECK_DEADLOCK FALSE
