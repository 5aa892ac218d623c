SPECIFICATION Spec
CONSTANTS
  Workers = {w1, w2}
  Symbols = {s1, s2}
  Portfolios = {{}, {s1}, {s1, s2}}
  Nil = Nil
  MaxRequests = 3
  MaxFaults = 2
  MaxCrashes = 1
SYMMETRY WorkerSymmetry
INVARIANTS
  RiskInv
  AnsweredIsStored
  SnapshotsInOrder
CHECK_DEADLOCK FALSE
