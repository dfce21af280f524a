SPECIFICATION Spec
CONSTANTS
  Procs = {p, q}
  Scenarios <- MCScenarios
  Lines <- MCLines
  Remembered <- MCRemembered
  Attributable = {}
  Clock = {0, 1, 2}
  Retentions <- MCRetentions
INVARIANTS  CurrentIsUpgraded ImportsAreFinal 
PROPERTY ForeignIsUntouched
SYMMETRY Either
