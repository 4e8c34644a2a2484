SPECIFICATION TenantSpec
CONSTANTS
  Worker = {w1, w2}
  User = {u1}
  Org = {o1, o2}
  Token = {t1}
  Role = {"Owner", "Seller"}
  None = None
  IdleTimeout = 2
  AbsoluteLifetime = 3
  TouchInterval = 1
  MaxTime = 2
  MaxVersion = 2
  MaxHash = 1
  Compliant = TRUE
  Opened = {t1}
  Kind = {}
  Changes = {"user", "membership", "organization"}
  Mode = {"authorized", "run"}
  Required = {"memberships.manage"}
SYMMETRY Symmetric
INVARIANTS TenantTypeOK WritesAreChecked ContextIsSelection
PROPERTIES OperationsAuthorized LifecycleSpec
