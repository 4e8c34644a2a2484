SPECIFICATION ProcessSpec
CONSTANTS
  Worker = {w1, w2, w3}
  User = {u1}
  Secret = {a, b}
  None = None
  Api = Api
  MaxSalt = 3
  Edits = {"disable", "password", "revokeAll"}
SYMMETRY Symmetric
INVARIANTS VerifiedBeforeUse NothingLeftOpen
PROPERTIES RehashKeepsPassword LostSwapFailsClosed SessionsAreAuthenticated ProvisionedOnce
