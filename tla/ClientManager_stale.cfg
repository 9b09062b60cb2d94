SPECIFICATION Spec
CONSTANTS
  r1 = r1 r2 = r2
  t1 = t1 t2 = t2
  d1 = d1 d2 = d2
  c1 = c1 c2 = c2
  Requests = {r1}
  Tokens = {t1}
  Databases = {d1}
  Clients = {c1}
  Access <- AccessAll
  Slow = {}
  MaxReloads = 1
  None = None
  NoName = NoName
  Mu = Mu
SYMMETRY Symmetry
INVARIANTS MappedFresh
