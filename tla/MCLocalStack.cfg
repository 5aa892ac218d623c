SPECIFICATION FairStackSpec
CONSTANTS
  registry = registry
  risk = risk
  Services <- ServiceList
  Seeded = risk
  Options <- OptionSets
  MaxRuns = 2
  MaxDeaths = 1
  MaxKills = 1
INVARIANTS
  StackInv
  ResetIsClean
PROPERTY ShutdownEnds
CHECK_DEADLOCK FALSE
