CONSTANTS
  Keys = {1, 2}
  Dsns = {d1}
  LabelSets <- SomeLabelSets
  Labels <- AllLabels
  NoRow = NoRow
  NoKey = 0
  NoVersion = NoVersion
  NoQuery = NoQuery
  NoLabel = NoLabel
  NoDecision = NoDecision
  Blank = Blank
  StratDefault = "first"
  StratPrefer = NoLabel
  Calls <- SomeCalls
  MaxVersion = 2
SPECIFICATION MCSpec
INVARIANTS StaleOnlyIfTorn SelectionExplained
PROPERTIES SettlesUnlessTorn
CHECK_DEADLOCK FALSE
