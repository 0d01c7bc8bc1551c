SPECIFICATION FairSpec
CONSTANTS
  None = None
  k1 = k1
  k2 = k2
  e1 = e1
  e2 = e2
  Scans = {s1, s2}
  Users = {u1}
  Count = 2
  Evidence = {e1,e2}
  Keys = {k1,k2}
  Requests <- MCRequests
  Finds <- MCFinds
INVARIANT AnnouncedOnce
PROPERTIES ReviewedStays SuppressedByVerdict CallsEnd
