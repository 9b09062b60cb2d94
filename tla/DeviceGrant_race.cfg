\* Two handlers race over a device code, and over the next one: polls,
\* approvals, refusals. There is room for one device at a time, unless two of them
\* draw the same user code.
SPECIFICATION RaceSpec
CONSTANTS
  t1 = t1
  t2 = t2
  s1 = s1
  s2 = s2
  d1 = d1
  d2 = d2
  u1 = u1
  None = None
  Refused = Refused
  Threads = {t1, t2}
  Subjects = {s1, s2}
  Devices = {d1, d2}
  UserCodes = {u1}
  Colliding = FALSE
  MaxTime = 2
  DeviceTTL = 2
  Interval = 1
  DeviceLimit = 1
SYMMETRY Symmetry
INVARIANTS GrantedOnceToApprover PollsPaced IndexSound
PROPERTIES AnswerStands ImplementsFlow
