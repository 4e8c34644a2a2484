SPECIFICATION Spec
CONSTANTS
  Worker = {w1, w2}
  User = {u1}
  Org = {o1}
  Token = {t1, t2}
  Role = {Seller}
  None = None
  IdleTimeout = 2
  AbsoluteLifetime = 3
  TouchInterval = 1
  MaxTime = 4
  MaxVersion = 2
  MaxHash = 1
  Compliant = TRUE
  Opened = {t1}
  Kind = {"session"}
  Changes = {}
PROPERTIES NeverRevived
