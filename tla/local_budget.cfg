SPECIFICATION Spec
CONSTANTS
  Network = {n1, n2, n3, n4}
  MaximumEntries = 3
  MaximumAttempts = 1
  Window = 2
  Block = 3
  MaxTime = 4
  MaxCount = 3
SYMMETRY Symmetric
INVARIANTS AllowedWithinBudget RecentRemembered
PROPERTIES BlockKept
