CONSTANTS
  Tasks = {t1}
  Faults = {"ssh", "host", "crash"}
  MaxCrashes = 3
SPECIFICATION FairSpec
INVARIANTS
  RunningIsOwned
PROPERTIES
  TerminalIsFinal
  KeepsPromise
  RunningSettles
