CONSTANTS
  Tables = {tb1, tb2}
  Columns = {c1}
  Types = {a, b}
  Targets = {t1, t2}
  Callers = {p1, p2}
  Reconcilers = {r1}
  Deployments <- SomeDeployments
  None = None
  NoTable = NoTable
SPECIFICATION Spec
SYMMETRY SyncSymmetry
INVARIANTS AgreeOrBroken RepairComplete
PROPERTIES OverwriteExplained
