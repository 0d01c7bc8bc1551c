SPECIFICATION Spec
CONSTANTS
  Routes <- AllRoutes
  MaxExpiries = 1
  MaxInputs = 2
INVARIANT
  RouteReadOnce
CHECK_DEADLOCK FALSE
