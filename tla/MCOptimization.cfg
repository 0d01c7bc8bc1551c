SPECIFICATION Spec
CONSTANTS
  None = None
  k1 = k1
  k2 = k2
  f1 = f1
  f2 = f2
  Calls = {c1, c2}
  Count = 2
  Figures = {f1,f2}
  Keys = {k1,k2}
  Requests <- MCRequests
  Bills <- MCBills
INVARIANT AppliedHasSaving
