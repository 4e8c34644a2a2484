SPECIFICATION Spec
CONSTANTS
  Request = {r1, r2}
  User = {u1}
  None = None
  MaxSessions = 2
  Faults = {"error"}
SYMMETRY Symmetric
INVARIANTS LogoutIsServerSide
