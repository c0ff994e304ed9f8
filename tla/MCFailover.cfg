CONSTANTS
  Keys = {1, 2}
  Procs = {p1, p2}
  NoKey = 0
  MaxAttempts = 2
  OpenAfterFailures = 2
  OpenDuration = 1
  HalfOpenProbe = 1
  AllowWriteRetry = FALSE
  Outcomes <- DefaultOutcomes
  Configs <- OneOfTwo
SPECIFICATION Spec
SYMMETRY ProcSymmetry
INVARIANTS ProbeBudget NoRepeatedTarget ProbedAgain
PROPERTIES OpenHolds
