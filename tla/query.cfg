SPECIFICATION Spec
CONSTANTS
  Rows = {1, 2, 3, 4}
  Observed <- MCObserved
  Ingested <- MCIngested
  Kind <- MCKind
  Closes <- MCCloses
  Family <- MCFamily
  Links <- MCLinks
  Relevant = {1, 2, 4}
  Caps = {2, 4}
  MaxRebuilds = 1
  Questions <- MCQuestions
INVARIANTS AnswerIsSound TimeTravelIsImmune NothingWithheld
CHECK_DEADLOCK FALSE
