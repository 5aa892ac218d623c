SPECIFICATION FairSpec
CONSTANTS
  Workers = {w1, w2}
  Verifier = verifier
  Nobody = nobody
  Nodes = {n1}
  Contents = {c1}
  Times = {1}
  MaxRequests = 2
  MaxRuns = 1
  MaxSaveFailures = 1
  MaxCrashes = 2
  MaxCorruptions = 1
INVARIANTS
  RegistryInv
  VerifyExact
  AckedDurable
  AuditedPeersAreDurable
PROPERTIES
  RequestsAnswered
  CorruptionReported
  ImplementsDurableLog
  ObservedAppendOnlyUnlessSaveFails
