SPECIFICATION Spec
CONSTANTS
  root = root
  Dirs = {root}
  Root = root
  Ignored = {}
  Parent <- MCParent
  MaxOps = 0
  MaxQueue = 1
  MaxRequests = 1
INVARIANT DrainsBeforeExit
CHECK_DEADLOCK FALSE
