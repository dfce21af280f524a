SPECIFICATION Spec
CONSTANTS
  Requests = {"try1", "try2", "maintenance"}
  Route <- MCRoute
  Key <- MCKey
  Bodies <- MCBodies
  Config <- MCConfig
  Permits = 1
INVARIANTS TypeOK PermitsAreConserved RefusedDidNothing AcknowledgedIsStored
 
CHECK_DEADLOCK FALSE
