SPECIFICATION FairSpec
CONSTANTS
  Tab = {t1, t2}
  User = {u1}
  None = None
  MaxSessions = 2
  Faults = {"error", "loss", "expiry"}
  Retries = 1
  MaxEvents = 4
INVARIANT LogoutEndsShown
PROPERTIES LogoutSparesOthers TabsSettle
