SPECIFICATION Spec
CONSTANTS
  None = None
  Fresh = Fresh
  Users = {u1}
  Agents = {a1}
  Stakeholders = {h1}
  Periods = {p1}
  Scopes = {}
  Keys = {}
  Requests <- AllRequests
  SendLimit = 1
  MaxGenerations = 2
INVARIANTS
  SentIsApproved
