SPECIFICATION FairSpec
CONSTANTS
  f1 = f1
  f2 = f2
  f3 = f3
  a1 = a1
  a2 = a2
  None = None
  Clients = {c1, c2}
  Tenants = {"t1", "t2"}
  Keys = {"k1", "k2"}
  Sources = {"s1", "s2"}
  Fps = {f1, f2, f3}
  Accounts = {a1, a2}
  BatchId <- MCBatchId
  Files <- MCFiles
  AccountOf <- MCAccountOf
INVARIANTS
  InsertMeetsNoDuplicate
  AnswersAgree
  LedgerBalances
PROPERTIES
  ImplementsCostStore
  CallsEnd
