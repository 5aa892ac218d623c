SPECIFICATION PipelineSpec
CONSTANTS
  Workers = {w1}
  Events = {e1, e2}
  PeerThreads = {t1, t2}
  a1 = a1
  g1 = g1
  Anomaly <- AnomalyList
  Risk <- RiskList
  Retries = 2
  MaxFaults = 1
  MaxCrashes = 1
  history_window = 2
  MaxPeerCrashes = 1
SYMMETRY Symmetry
INVARIANTS
  AlertedOnce
  
  PricesInOrder
  ComputedWithEvent
CHECK_DEADLOCK FALSE
