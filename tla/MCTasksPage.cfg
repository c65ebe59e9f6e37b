SPECIFICATION Spec
CONSTANTS
  A = A
  B = B
  t1 = t1
  t2 = t2
  t3 = t3
  u1 = u1
  p1 = p1
  p2 = p2
  Tenants = {A, B}
  NoTenant = NoTenant
  Home = A
  Tasks = {t1, t2, t3, u1}
  Projects = {p1, p2}
  NoTask = NoTask
  NoProject = NoProject
  TenantOf <- MCTenantOf
  Given = {t1, t2, u1, p1}
  Plans <- MCPlans
CHECK_DEADLOCK FALSE
INVARIANTS ShowsTheTable PanelIsOfTheTask
PROPERTY ComesToRest
