CONSTANTS
  Procs = {p1}
  Drivers = {"postgres"}
  Tenants = {"default"}
  DefaultTenant = "default"
  Cols = {"c1"}
  Types = {"int"}
  Bumps = {"patch"}
  Chosen <- Named
  Documents <- Files
  MaxOps = 3
SPECIFICATION Spec
PROPERTIES MigrateReachesTarget
CHECK_DEADLOCK FALSE
