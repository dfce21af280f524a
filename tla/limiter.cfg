SPECIFICATION LimiterSpec
CONSTANTS
  Actors = {"bearer", "unauthenticated"}
  Limits = {0, 1, 2}
  Window = 60000
  SweepAbove = 1
  Times <- MCTimes
  MaxAdmitted <- MCMaxAdmitted
INVARIANTS LimiterTypeOK SlidingLimit RetryAfterIsHonest
CHECK_DEADLOCK FALSE
