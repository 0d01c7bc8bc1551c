SPECIFICATION Spec
CONSTANTS
  t1 = t1
  t2 = t2
  Registrations <- MCRegistrations
  Environments <- MCEnvironments
  Objects <- MCObjects
  Pieces <- MCPieces
  DefaultRole = DefaultRole
  NoName = NoName
  Malformed = Malformed
  None = None
  MaxRegistrations = 2
  MaxGuides = 2
  MaxDeployments = 2
  MaxReconfigurations = 1
INVARIANT GuideSuffices
INVARIANT ReachIsRegistered
INVARIANT PreflightForetells
