SPECIFICATION Spec
CONSTANTS
  Slots = {h1}
  Cleaners = {c1}
  Admins = {root}
  Users = {ann, bob}
  Sessions = {s1, s2}
  Limit = 2
  Faults = FALSE
SYMMETRY Symmetry
CHECK_DEADLOCK FALSE
INVARIANT StopsAreConfirmed
