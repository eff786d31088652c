CONSTANTS
  Tasks = {t1, t2}
  Faults = {"ssh", "db", "callback", "host", "crash"}
  MaxCrashes = 1
SPECIFICATION Spec
SYMMETRY Symmetry
INVARIANTS
  TypeOK
  VerdictIsTheScripts
  NotifiedAsRecorded
