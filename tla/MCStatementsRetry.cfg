SPECIFICATION Spec
CONSTANTS
  None = None
  Fresh = Fresh
  Users = {u1}
  Agents = {}
  Stakeholders = {h1}
  Periods = {p1}
  Scopes = {}
  Keys = {k1}
  Requests <- AllRequests
  SendLimit = 1
  MaxGenerations = 1
INVARIANTS
  RetryIsAnswered
