SPECIFICATION Spec
CONSTANTS
  Workers = {w1, w2}
  e1 = e1
  e2 = e2
  s1 = s1
  s2 = s2
  Events = {e1, e2}
  Symbols = {s1, s2}
  SymbolOf <- TwoSymbols
  Reviews = {"confirmed"}
  history_window = 1
  MaxRequests = 3
  MaxFaults = 2
  MaxCrashes = 1
SYMMETRY WorkerSymmetry
INVARIANTS
  AnomalyInv
  AnsweredIsStored
CHECK_DEADLOCK FALSE
