SPECIFICATION AccountsSpec
CONSTANTS
  r1 = r1 r2 = r2
  t1 = t1 t2 = t2
  d1 = d1 d2 = d2
  c1 = c1 c2 = c2
  Requests = {r1, r2}
  Tokens = {t1}
  Databases = {d1, d2}
  Clients = {c1, c2}
  Access <- AccessAll
  Slow = {}
  MaxReloads = 1
  None = None
  NoName = NoName
  Mu = Mu
  Users = {u1}
  Addresses = {a1}
  Absent = Absent
  MaxFailedAttempts = 2
  MaxAttempts = 1
  MaxLogins = 3
  MaxCommands = 1
  MaxActs = 3
SYMMETRY Symmetry
INVARIANTS NoOrphan QueriesOutliveClose FreshUnlessOvertaken ReleasedUnlessLate WithdrawnReported OvershootBounded
CHECK_DEADLOCK FALSE
