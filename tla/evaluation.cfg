\* Suites run against the heuristic distiller and a command that may reject rows.
SPECIFICATION Spec
CONSTANTS
  Suites <- MCSuites
  SuiteProject = "suite"
  CaseProject <- MCCaseProject
  Distillers = {"heuristic", "command"}
  Units = 2
INVARIANTS OwnRowsAreOffered CasesAreIsolated ReportIsTrue
CHECK_DEADLOCK FALSE
