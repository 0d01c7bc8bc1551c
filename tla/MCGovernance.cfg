SPECIFICATION FairSpec
CONSTANTS
  None = None
  Clients = {p, q}
  t1 = t1
  t2 = t2
  a1 = a1
  a2 = a2
  g1 = g1
  c1 = c1
  v1 = v1
  v2 = v2
  k1 = k1
  k2 = k2
  k3 = k3
  k4 = k4
  k5 = k5
  Tenants = {t1, t2}
  Names = {a1, a2}
  Ingested = {a1}
  Named = v1
  OwnerOf <- MCOwnerOf
  Ids = {g1, c1}
  DrawnBy <- MCDrawnBy
  Values = {v1, v2}
  Roles = {}
  Keys = {k1, k2, k3, k4, k5}
  Requests <- MCRequests
INVARIANTS
  PartsAreOneCalls
PROPERTIES
  OthersRowsUntouched
  ImplementsGovernanceStore
  CallsEnd
