SPECIFICATION FairSpec
CONSTANTS
  Kind <- Kinds
  MaxFaults = 2
  MaxDrops = 2
  MaxCrashes = 1
INVARIANTS
  BridgeInv
  OnlyFailedAreOvertaken
PROPERTY BridgeRecovers
CHECK_DEADLOCK FALSE
