SPECIFICATION Spec
CONSTANTS
  t1 = t1
  f1 = f1
  Users = {}
  Workers = {w1}
  Tenants = {t1}
  Connections = {c1}
  TenantOf <- MCTenantOf
  Sources = {s1}
  Remote = {s1}
  Keys = {}
  BatchKeys = {}
  OnceKey = oncekey
  Fps = {f1}
  Files <- MCFiles
  LiveProbes = TRUE
  IngestionEnabled = TRUE
  MaxPasses = 1
  None = none
INVARIANT ScheduledIsRecorded
CHECK_DEADLOCK FALSE
