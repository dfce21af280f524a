SPECIFICATION Spec
CONSTANTS
  Workers = {"w1", "w2"}
  Keys = {"a", "x"}
  Observed <- MCObserved
  Overlap <- MCOverlap
  Distiller = "heuristic"
  Fingerprints = {"f1"}
  Limits = {1}
  Caps = {2}
  MaxEvents = 2
  MaxRebuilds = 1
  MaxCrashes = 0
PROPERTIES RebuildConverges
CHECK_DEADLOCK FALSE
