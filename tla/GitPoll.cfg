CONSTANTS
  MaxPush = 3
  Sparse = TRUE
  Faults <- AnyFault
  MaxFaults = 3
  NoTree = NoTree
  Mixed = Mixed
  NoSite = NoSite
SPECIFICATION FairSpec
INVARIANTS TypeOK ReloadSeesWholeTree
PROPERTIES SiteNeverGoesBack PushRepairs
