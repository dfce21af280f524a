SPECIFICATION Spec
CONSTANTS
  Workers = {"w1"}
  Keys = {"a", "x", "y"}
  Observed <- MCObserved
  Overlap <- MCOverlap
  Distiller = "command"
  Fingerprints = {"f1", "f2"}
  Limits = {3}
  Caps = {1, 3}
  MaxEvents = 3
  MaxRebuilds = 1
  MaxCrashes = 0
INVARIANT BatchesCoverProjected
PROPERTIES RebuildKeepsProjected ImplementsContract
CHECK_DEADLOCK FALSE
