SPECIFICATION Spec
CONSTANTS
  ann = ann
  bob = bob
  Users = {bob}
  Admins = {ann}
  RolesOf <- MCRoles
  Projects = {p1}
  NoProject = NoProject
  MaxRows = 2
  MaxShown = 1
  Offered = {"manage"}
  Created = {{}, {"manage"}}
  Calls = {k1, k2}
SYMMETRY Symmetry
CHECK_DEADLOCK FALSE
INVARIANT OverridesStack
