SPECIFICATION Spec
CONSTANTS
  Kinds = {"application", "compose"}
  Builds = {"server", "github_actions"}
  Clients = {c1, c2}
  Runs = {r1}
  MaxRows = 2
  HistoryLimit = 1
  MaxRequests = 3
  MaxFaults = 2
SYMMETRY Interchangeable
CONSTRAINT Together
INVARIANTS
  TypeOK
  SuccessIsEarned
  PendingIsOnItsWay
  BuildingIsOwned
  CleanDelete
  DeletingIsOwned
CHECK_DEADLOCK FALSE
