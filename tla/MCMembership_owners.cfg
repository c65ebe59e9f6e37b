SPECIFICATION SuperSpec
CONSTANTS
  Requests = {r1, r2}
  Users = {ann, bob}
  Tenants = {t1}
  NoTenant = NoTenant
  MemberIds = {m1, m2}
  MaxInvitations = 2
  Offers <- RankOffers
  Asked = {"pending", "edit"}
  Expiring = {}
  Founder = ann
  bob = bob
  t1 = t1
SYMMETRY Symmetry
CHECK_DEADLOCK FALSE
INVARIANTS OwnerlessOnlyByRace TwoOpenOnlyByRace
PROPERTY InvitationsOnlyRaise
