SPECIFICATION FairSpec
CONSTANTS
  Worker = {w1, w2}
  Subject = {s1, s2}
  Network = {n1}
  Rule <- Rules
  None = None
  MaxTime = 3
  MaxRequests = 3
INVARIANTS AdmittedWithinBudget CountsAreExact BlockHonoured
PROPERTIES BlockNotExtended EveryAttemptEnds
