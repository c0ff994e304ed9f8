CONSTANTS
  u1 = u1
  u2 = u2
  t1 = t1
  t2 = t2
  Users = {u1, u2}
  Tenants = {t1, t2}
  TenantOf <- TwoTenants
  Names = {editor}
  Perms = {p1}
  Callers = {c1, c2}
  MaxRoleId = 2
SPECIFICATION Spec
INVARIANTS Integrity StaleRightsExplained
PROPERTIES DeleteLosesOnlyLate PutIsExact
SYMMETRY Symmetry
