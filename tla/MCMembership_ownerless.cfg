SPECIFICATION Spec
CONSTANTS
  Requests = {r1, r2}
  Users = {ann, bob}
  Tenants = {t1}
  NoTenant = NoTenant
  MemberIds = {m1, m2}
  MaxInvitations = 1
  Offers <- RankOffers
  Asked = {"pending"}
  Expiring = {}
  Founder = ann
  bob = bob
  t1 = t1
SYMMETRY Symmetry
CHECK_DEADLOCK FALSE
INVARIANT OrganizationHasOwner
