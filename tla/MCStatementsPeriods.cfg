SPECIFICATION Spec
CONSTANTS
  None = None
  Fresh = Fresh
  Users = {u1}
  Agents = {}
  Stakeholders = {h1}
  Periods = {p1, p2}
  Scopes = {x1}
  Keys = {}
  Requests <- AllRequests
  SendLimit = 1
  MaxGenerations = 2
INVARIANTS
  GenerationNeverCollides
