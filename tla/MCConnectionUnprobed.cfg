SPECIFICATION Spec
CONSTANTS
  t1 = t1
  f1 = f1
  Users = {u1}
  Workers = {w1}
  Tenants = {t1}
  Connections = {c1}
  TenantOf <- MCTenantOf
  Sources = {s1, s2}
  Remote = {s1, s2}
  Keys = {k1}
  BatchKeys = {}
  OnceKey = oncekey
  Fps = {f1}
  Files <- MCFiles
  LiveProbes = TRUE
  IngestionEnabled = TRUE
  MaxPasses = 1
  None = none
INVARIANT ValidatedIsProbed
