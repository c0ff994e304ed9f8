CONSTANTS
  Ids = {w1, w2}
  Names = {n1, n2}
  NoWidget = NoWidget
  SubBuffer = 1
  TableIds = {w1}
  Callers = {c1, c2}
  MaxWrites = 3
  MaxFaults = 1
  MaxReloads = 1
  Paths = {p1, p2}
  NoFile = NoFile
  BadFile = BadFile
  MaxEdits = 3
SPECIFICATION Spec
INVARIANTS StreamFollows ReplicaAgrees DirectoryFollowed
 
SYMMETRY Symmetry
CHECK_DEADLOCK FALSE
