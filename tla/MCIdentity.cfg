SPECIFICATION MCSpec
CONSTANTS
  Users = {ann}
  Owner = ann
  Owners = {ann}
  Admins = {}
  MaxTenants = 2
  MaxStalls = 1
  Calls = {k1, k2}
  Deletes = 2
  Asked = {"organization", "task"}
  ann = ann
  bob = bob
  Nobody = Nobody
  idp1 = idp1
  idp2 = idp2
  name = name
  NoXml = NoXml
  NoOverride = NoOverride
  k1 = k1
  k2 = k2
  r1 = r1
  c1 = c1
  c2 = c2
  worker = worker
  orphan = orphan
  tn1 = tn1
  tn2 = tn2
  ses1 = ses1
  NoSession = NoSession
  admin = admin
  NoEntitlement = NoEntitlement
  code1 = code1
  tok1 = tok1
  tok2 = tok2
SYMMETRY Symmetry
CHECK_DEADLOCK FALSE
INVARIANTS DeletedWithItsTraces OnboardedOnce EntitledForAReason AppliedAsConfigured OneUserPerName
  PageShowsWhatHolds TokensAsGranted SucceededIsComplete
