SPECIFICATION Spec
CONSTANTS
  Worker = {w1, w2}
  Subject = {s1}
  Network = {n1}
  Rule <- Rules
  None = None
  MaxTime = 1
  MaxRequests = 2
INVARIANTS AttemptsAreCounted
