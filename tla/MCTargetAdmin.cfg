CONSTANTS
  Keys = {k1, k2}
  Dsns = {d1}
  LabelSets = {s1, s2}
  Procs = {p1, p2}
  NoRow = NoRow
  NoKey = NoKey
  Keep = Keep
  NoMatch = NoMatch
  MaxVersion = 2
SPECIFICATION AdminSpec
SYMMETRY AdminSymmetry
PROPERTIES DefaultLossExplained  FreshWriteKeepsRest
CHECK_DEADLOCK FALSE
