SPECIFICATION MCSpec
CONSTANTS
  ann = ann
  bob = bob
  t1 = t1
  t2 = t2
  t3 = t3
  c1 = c1
  s1 = s1
  p1 = p1
  soon = soon
  late = late
  Nobody = Nobody
  NoDate = NoDate
  A = A
  B = B
  C = C
  q1 = q1
  q2 = q2
  q3 = q3
  q4 = q4
  NoTenant = NoTenant
  O = O
  P = P
  NoOrg = NoOrg
  Tasks = {t1, t2, t3}
  Parts = {c1, s1}
  Projects = {p1}
  Users = {ann, bob}
  NoProject = NoProject
  Dates = {soon, late}
  Past = {soon}
  RightsOf <- MCRights
  Agendas <- MCAgendas
  Handlers = {h1, h2}
  Failing = TRUE
SYMMETRY Symmetry
CHECK_DEADLOCK FALSE
INVARIANTS OneRowUnlessDoubled PageIsTrue
  RemindersFollowTasks AssigneeIsInformed PlacesAreOwn CountsAgree
  RefusedOnlyInRows ReadOnlyAtRest ShowsTheProjects WritesStayInTheOrganization AskedTenantIsGiven
