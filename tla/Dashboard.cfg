SPECIFICATION FairSpec
CONSTANTS
  Alerts = {a1, a2}
  Null = Null
  Awaiting = Awaiting
  Failed = Failed
  Nobody = Nobody
  MaxInFlight = 2
  MaxReviews = 2
  MaxChanges = 2
  MaxFaults = 1
INVARIANTS
  DashboardInv
  ReviewedIsRefreshed
PROPERTIES
  NeverBackUnlessPassed
  CatchesUp
