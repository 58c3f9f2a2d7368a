CONSTANTS
  MaxPush = 1
  Sparse = FALSE
  Faults = {"stop"}
  MaxFaults = 1
  NoTree = NoTree
  Mixed = Mixed
  NoSite = NoSite
SPECIFICATION FairSpec
PROPERTY StopKeepsContent
