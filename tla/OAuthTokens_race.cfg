\* Three concurrent handlers on one authorisation, its code and the rotations;
\* and two handlers on two codes, with a store that fills.
\* Three rotations, as many as the store keeps records of.
SPECIFICATION RaceSpec
CONSTANTS
  t1 = t1
  t2 = t2
  t3 = t3
  s1 = s1
  s2 = s2
  c1 = c1
  c2 = c2
  None = None
  Threads <- ThreeThreads
  Subjects <- OneSubject
  Codes <- TwoCodes
  MaxHash = 8
  MaxTime = 2
  CodeTTL = 1
  AccessTTL = 1
  RefreshTTL = 2
  CodeLimit = 2
  TokenLimit = 3
SYMMETRY Symmetry
INVARIANTS SingleUse OneRefreshPerFamily RemovalsComplete RotationRemembered NoHalfIssued
PROPERTIES ImplementsChain
