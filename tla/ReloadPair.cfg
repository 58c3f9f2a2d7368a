SPECIFICATION Spec
CONSTANTS
  r1 = r1
  r2 = r2
  v1 = v1
  v2 = v2
  welcome = welcome
  landing = landing
  gone = gone
  NoPath = NoPath
  NoHome = NoHome
  NoSearch = NoSearch
  NoAnswer = NoAnswer
  Nobody = Nobody
  HomePaths <- Paths
  HomeFiles <- Files
  Reloaders = {r1, r2}
  Visitors = {v1}
  MaxVersion = 1
  MaxGen = 2
  HomeOf <- HomeMoves
  BadConfig = {}
  BadTheme = {1}
  BadScan = {}
  SearchEnabled = TRUE
CHECK_DEADLOCK FALSE
INVARIANT ConfigFollowsLoader
INVARIANT AnswersAreOneGeneration
INVARIANT UnracedHomeIsCurrent
INVARIANT IInv
