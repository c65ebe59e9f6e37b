CONSTANTS
  Requests = {r1, r2}
  Users = {u1}
  Clients = {c1}
  Tenants = {tn1}
  Sessions = {s1}
  NoSession = NoSession
  SessionUser <- MCSessionUser
  RoleSets = {admin}
  NoEntitlement = NoEntitlement
  Codes = {code1, code2}
  Tokens = {t1, t2, t3}
  u1 = u1
  code1 = code1
SPECIFICATION MCSpec
SYMMETRY Symmetry
CHECK_DEADLOCK FALSE
INVARIANTS OneLiveUnlessMissed TrailMatchesTable
PROPERTIES SignOutLeavesOnlyRacers CodesAreOneTime
