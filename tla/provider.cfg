SPECIFICATION FairSpec
CONSTANTS
  Input = 3
  Output = 3
  Capacity = 2
  MaxRepairs = 2
INVARIANTS TypeOK OutputIsWhole NothingKeepsRunning MetricsAddUp
PROPERTY EveryDecisionEnds
CHECK_DEADLOCK FALSE
