SPECIFICATION Spec
CONSTANTS
  u1 = u1  u2 = u2
  r1 = r1  r2 = r2
  s1 = s1  s2 = s2
  None = None
  User <- Users
  Admin = {}
  Plan = {"core", "pro"}
  Request <- Requests
  Sub <- Subs
  Memory = 2
  MaxPayments = 2
  MaxApplied = 4
SYMMETRY Symmetric
CHECK_DEADLOCK FALSE
INVARIANTS EntitledWasPaid LapsedNotEntitled
PROPERTIES BindingIsFinal
