SPECIFICATION Spec
CONSTANTS
  Request = {r1, r2}
  User = {u1}
  None = None
  MaxSessions = 3
  Faults = {"error", "loss", "expiry"}
SYMMETRY Symmetric
INVARIANTS CookieIsUsable LogoutIsDone
PROPERTIES JarMovesOn ContractSpec
