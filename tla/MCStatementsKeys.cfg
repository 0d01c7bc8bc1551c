SPECIFICATION Spec
CONSTANTS
  None = None
  Fresh = Fresh
  Users = {u1, u2}
  Agents = {}
  Stakeholders = {h1}
  Periods = {p1}
  Scopes = {x1}
  Keys = {k1}
  Requests <- AllRequests
  SendLimit = 1
  MaxGenerations = 1
SYMMETRY Callers
INVARIANTS
  EvidenceOfDelivery
PROPERTIES
  AnswersAreFinal
