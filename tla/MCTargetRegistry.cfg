CONSTANTS
  Keys = {kd, k1}
  DefaultName = kd
  Labels = {l1}
  Procs = {p1, p2}
  MaxConns = 2
  NoKey = NoKey
  NoProc = NoProc
  Texts <- SomeTexts
SPECIFICATION FairSpec
INVARIANTS SnapshotConsistent ConnectionDiscipline NoOtherLeak QueryMatchesEval
PROPERTIES AtomicMap CallsFinish
