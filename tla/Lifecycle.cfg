SPECIFICATION FairSpec
CONSTANTS
  root = root
  Dirs = {root}
  Root = root
  Ignored = {}
  Parent <- MCParent
  MaxOps = 1
  MaxQueue = 1
  MaxRequests = 1
INVARIANTS TypeOK CleanExitIsShutdown
PROPERTIES ServerFailureEndsProcess SignalEndsProcess StoppedSiteStays
CHECK_DEADLOCK FALSE
