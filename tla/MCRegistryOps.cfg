CONSTANTS
  Procs = {p1, p2}
  Drivers = {"postgres", "mysql"}
  Tenants = {"default", "acme"}
  DefaultTenant = "default"
  Cols = {"c1"}
  Types = {"int", "text"}
  Bumps = {"patch", "minor"}
  Chosen <- Named
  Documents <- Files
  MaxOps = 4
SPECIFICATION Spec
INVARIANTS VersionBacked
PROPERTIES  DuplicateExplained ApplyLeaves
SYMMETRY Symmetry
CHECK_DEADLOCK FALSE
