SPECIFICATION FairSpec
CONSTANTS
  Peers = {p1}
  Interval = 2
  Timeout = 1
  StaleAfter = 7
  OfflineAfter = 9
  MaxDelay = 4
  MaxFaults = 3
  MaxLosses = 1
INVARIANTS
  MembershipInv
  AckedPeerOnline
  DeadPeerExpires
PROPERTY PeersReturn
