SPECIFICATION Spec
CONSTANTS
  Files <- MCFiles
  Envs <- MCEnvs
  CliPorts = {0, 9090}
  NoCaps = NoCaps
  Addresses = {"alice", "bob", "proxy"}
  Window = 2
  MaxClients = 2
  Deliveries = {d1, d2}
  d1 = d1
  d2 = d2
  Requests <- MCRequests
  Edits <- MCEdits
  Junk = "unknown"
  MaxRequests = 3
  MaxTime = 2
  MaxEdits = 1
INVARIANTS BudgetHolds SignedIsNotStarved ValidatedServes UnracedDeliveryIsShown
SYMMETRY Symmetry
CHECK_DEADLOCK FALSE
