SPECIFICATION AuthSpec
CONSTANTS
  v1 = v1 v2 = v2 bad = bad k1 = k1 k2 = k2 s1 = s1 s2 = s2
  t1 = t1 c1 = c1 c2 = c2 d1 = d1 d2 = d2 u1 = u1 u2 = u2
  None = None Refused = Refused
  Contents = {v1, v2, bad}
  Unreadable = {bad}
  Missing = Missing
  Callbacks = {k1, k2}
  Stoppers = {s1, s2}
  MaxChanges = 3
INVARIANTS StopSound StoreFollowsFile StoresWhole
PROPERTIES EverythingEnds
CHECK_DEADLOCK FALSE
