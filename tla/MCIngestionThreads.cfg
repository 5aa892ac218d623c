SPECIFICATION Spec
CONSTANTS
  Workers = {w1, w2}
  Events = {e1, e2}
  a1 = a1
  g1 = g1
  Anomaly <- AnomalyList
  Risk <- RiskList
  Retries = 2
  MaxFaults = 2
  MaxCrashes = 1
SYMMETRY Symmetry
INVARIANTS
  IngestionInv
  AnsweredIsPersisted
  BoundedDuplication
  OutcomesAccounted
CHECK_DEADLOCK FALSE
