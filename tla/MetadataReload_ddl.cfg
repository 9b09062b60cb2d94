SPECIFICATION Spec
CONSTANTS
  Callers = {u1, u2}
  Records = {a1, a2}
  MaxSchema = 1
  None = None
INVARIANTS ShowsDDL
