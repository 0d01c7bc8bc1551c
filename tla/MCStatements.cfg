SPECIFICATION FairSpec
CONSTANTS
  None = None
  Fresh = Fresh
  Users = {u1}
  Agents = {a1}
  Stakeholders = {h1}
  Periods = {p1, p2}
  Scopes = {x1}
  Keys = {k1}
  Requests <- FewKeysRequests
  SendLimit = 1
  MaxGenerations = 2
INVARIANTS
  SentHasApprover
  DeliveredWasApproved
  EvidenceOfDelivery
  CycleWithinCap
PROPERTIES
  ActorsEnd
