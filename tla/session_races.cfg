SPECIFICATION Spec
CONSTANTS
  Worker = {w1, w2}
  User = {u1}
  Org = {o1}
  Token = {t1, t2, t3}
  Role = {Seller}
  None = None
  IdleTimeout = 2
  AbsoluteLifetime = 3
  TouchInterval = 1
  MaxTime = 2
  MaxVersion = 2
  MaxHash = 1
  Compliant = TRUE
  Opened = {t1}
  Kind = {"renew", "logout", "revokeAll"}
  Changes = {}
SYMMETRY Symmetric
INVARIANTS RenewalIsLinear ReplacedWhileLive RevokeAllCovers
PROPERTIES RevocationIsFinal TouchIsEarned ContractSpec
