SPECIFICATION MCSpec
CONSTANTS
  Slots = {h1, h2}
  Cleaners = {c1}
  Admins = {root}
  Users = {ann}
  Sessions = {s1, s2}
  Limit = 1
  Faults = TRUE
  ann = ann
  tab1 = tab1
  tab2 = tab2
  NoTab = NoTab
  k1 = k1
  k2 = k2
CHECK_DEADLOCK FALSE
INVARIANTS OneActiveUnlessRaced EndsAreTold ActiveIsShown
PROPERTIES ShownEnds JobsAreFollowed
