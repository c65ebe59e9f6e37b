SPECIFICATION SuperSpec
CONSTANTS
  Requests = {r1, r2}
  Users = {ann, bob}
  Tenants = {t1}
  NoTenant = NoTenant
  MemberIds = {m1, m2, m3}
  MaxInvitations = 1
  Offers <- AppOffers
  Asked = {"lookup", "attach", "detach", "revoke", "pending", "withdraw", "superGrant", "superRevoke"}
  Expiring = {1}
  Founder = ann
  bob = bob
  t1 = t1
SYMMETRY Symmetry
CHECK_DEADLOCK FALSE
INVARIANTS OrphansOnlyByRace
PROPERTY AdmittedOnce
