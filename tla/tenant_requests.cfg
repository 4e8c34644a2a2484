SPECIFICATION TenantFairSpec
CONSTANTS
  Worker = {w1, w2}
  User = {u1}
  Org = {o1}
  Token = {t1, t2, t3}
  Role = {"Owner"}
  None = None
  IdleTimeout = 2
  AbsoluteLifetime = 3
  TouchInterval = 1
  MaxTime = 0
  MaxVersion = 2
  MaxHash = 1
  Compliant = TRUE
  Opened = {t1, t2}
  Kind = {"renew", "revokeAll"}
  Changes = {}
  Mode = {"run"}
  Required = {"memberships.manage"}
INVARIANTS DeadlocksAreRevocations
PROPERTIES EveryTenantRequestEnds EveryRequestEnds
