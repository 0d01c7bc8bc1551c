SPECIFICATION Spec
CONSTANTS
  Routes <- AllRoutes
  MaxExpiries = 1
  MaxInputs = 2
INVARIANT
  OutcomeIsShown
CHECK_DEADLOCK FALSE
