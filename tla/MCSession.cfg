SPECIFICATION Spec
CONSTANTS
  Routes <- AllRoutes
  MaxExpiries = 1
  MaxInputs = 2
INVARIANTS
  SharedOnce
  NothingRefused
  LoadedIsWhole
  ReloadShowsWrite
PROPERTY
  BootEnds
CHECK_DEADLOCK FALSE
