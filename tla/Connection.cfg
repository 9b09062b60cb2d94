SPECIFICATION ConnectionSpec
CONSTANTS
  u1 = u1 u2 = u2
  a1 = a1 a2 = a2
  Callers = {u1, u2}
  Records = {a1, a2}
  MaxSchema = 1
  None = None
  MaxConns = 1
  MaxCalls = 2
INVARIANTS OneReload WaitersLed PooledReadOnly CallsExact
PROPERTIES NeverOlder EveryoneServed
CHECK_DEADLOCK FALSE
