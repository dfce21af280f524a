SPECIFICATION FairSpec
CONSTANTS
  Workers = {"w1", "w2"}
  Keys = {"a", "x", "y"}
  Observed <- MCObserved
  Overlap <- MCChainOverlap
  Distiller = "heuristic"
  Fingerprints = {"f1"}
  Limits = {2}
  Caps = {3}
  MaxEvents = 3
  MaxRebuilds = 1
  MaxCrashes = 1
INVARIANTS TypeOK ExactlyOnce ProjectionIsGrounded
PROPERTIES  ImplementsFairContract
CHECK_DEADLOCK FALSE
