SPECIFICATION Spec
CONSTANTS
  t1 = t1
  f1 = f1
  Users = {u1, u2}
  Workers = {}
  Tenants = {t1, t2}
  Connections = {c1}
  TenantOf <- MCTenantOf
  Sources = {s1, s2}
  Remote = {s1}
  Keys = {k1}
  BatchKeys = {b1}
  OnceKey = oncekey
  Fps = {f1}
  Files <- MCFiles
  LiveProbes = TRUE
  IngestionEnabled = TRUE
  MaxPasses = 0
  None = none
INVARIANT KeyAppliesOnce
INVARIANT RunHasBatch
INVARIANT IngestedWasRegistered
SYMMETRY Callers
