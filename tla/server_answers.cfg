SPECIFICATION FairSpec
CONSTANTS
  Requests = {"query", "metrics", "ready", "live"}
  Route <- MCRoute
  Key <- MCKey
  Bodies <- MCBodies
  Config <- MCConfig
  Permits = 1
 
PROPERTY EveryRequestEnds
CHECK_DEADLOCK FALSE
