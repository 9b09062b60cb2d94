\* A replay answered while a rotation is between its two store calls.
SPECIFICATION ReplaySpec
CONSTANTS
  t1 = t1
  t2 = t2
  t3 = t3
  s1 = s1
  s2 = s2
  c1 = c1
  c2 = c2
  None = None
  Threads <- TwoThreads
  Subjects <- OneSubject
  Codes <- OneCode
  MaxHash = 6
  MaxTime = 2
  CodeTTL = 1
  AccessTTL = 1
  RefreshTTL = 2
  CodeLimit = 2
  TokenLimit = 8
INVARIANTS ReplayRevokesWholeFamily
