SPECIFICATION Spec
CONSTANTS
  u1 = u1
  u2 = u2
  h1 = h1
  h2 = h2
  q1 = q1
  q2 = q2
  Users = {u1, u2}
  Root = u1
  Hostels = {h1, h2}
  Requests = {q1, q2}
SYMMETRY RoleSymmetry
INVARIANTS SuperAdminRemains RolesAsAsked
CHECK_DEADLOCK FALSE
