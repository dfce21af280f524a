SPECIFICATION Spec
CONSTANTS
  Texts = {"u", "x"}
  Times = {10, 20, 30}
  Op <- MCOp
  Clock = "fine"
  LateReplay = TRUE
  MaxEvents = 4
INVARIANTS FamiliesAreHistories RevisedIsClosed
PROPERTIES EarliestClosureWins HistoryIsStable
CHECK_DEADLOCK FALSE
