CONSTANTS
  Workers = {w1, w2}
  Admins = {a1}
  Orphans = {}
  Total = 1
  BadSets <- LastOrNoneBad
  Export = FALSE
  MaxRetries = 1
  MaxCrashes = 0
SPECIFICATION FairSpec
INVARIANT OutcomeIsAudited
PROPERTY JobsSettle
