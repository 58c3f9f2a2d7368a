SPECIFICATION Spec
CONSTANTS
  Layers = {1, 2}
  Mutable = {1}
  Dirs = {"posts", "pages", "old"}
  Files = {"a", "b", "z", "about"}
  Parent <- MCParent
  Root = "root"
  NameRank <- MCRank
  PostsDir = "posts"
  PagesDir = "pages"
  Docs <- MCDocs
  NoDoc = NoDoc
  NameSlug <- MCName
  BadNames = {"b"}
  MaxEdits = 1
  TermBytes <- MCTermBytes
  NoSearch = NoSearch
  Normal <- MCNormal
  Arrives <- MCArrives
  Linked <- MCLinked
  Mapped <- MCMapped
  NoTag = " "
  MaxURLs = 4
  Trees <- MCTrees
  Configs <- MCConfigs
  Queries <- MCQueries
  Validators = {"etag", "date"}
  NoSnapshot = NoSnapshot
  NoCopy = NoCopy
  NoRequest = NoRequest
  MaxScans = 2
INVARIANTS ScanIsComplete LinksResolve IndexIsLargestPrefix RevalidationIsCurrent
CHECK_DEADLOCK FALSE
