SPECIFICATION FairSpec
CONSTANTS
  r1 = r1
  r2 = r2
  v1 = v1
  v2 = v2
  welcome = welcome
  landing = landing
  gone = gone
  NoPath = NoPath
  NoHome = NoHome
  NoSearch = NoSearch
  NoAnswer = NoAnswer
  Nobody = Nobody
  HomePaths <- Paths
  HomeFiles <- Files
  Reloaders = {r1}
  Visitors = {v1}
  MaxVersion = 3
  MaxGen = 3
  HomeOf <- HomeComesAndGoes
  BadConfig = {1}
  BadTheme = {2}
  BadScan = {1}
  SearchEnabled = TRUE
CHECK_DEADLOCK FALSE
INVARIANT ThemeIsWhole
INVARIANT PagesAreNoNewerThanBase
PROPERTY ContentNeverGoesBack
PROPERTY ReloadReturns
PROPERTY ReloadPublishes
PROPERTY ReloadSettles
