CONSTANTS
  Workers = {w1}
  Admins = {a1}
  Orphans = {o1}
  Total = 2
  BadSets <- NoneBad
  Export = TRUE
  MaxRetries = 0
  MaxCrashes = 0
SPECIFICATION FaultySpec
SYMMETRY Symmetry
CHECK_DEADLOCK FALSE
INVARIANT ThrownJobsAreRetried
