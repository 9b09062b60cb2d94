SPECIFICATION Spec
CONSTANTS
  Users = {u1}
  Callers = {c1, c2}
  Addresses = {a1}
  Absent = Absent
  MaxFailedAttempts = 2
  MaxAttempts = 1
  MaxRequests = 3
  MaxEdits = 1
INVARIANTS LockoutHolds
CHECK_DEADLOCK FALSE
