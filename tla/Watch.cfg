SPECIFICATION WatchFairSpec
CONSTANTS
  root = root
  posts = posts
  drafts = drafts
  vendor = vendor
  Dirs = {root, posts, drafts, vendor}
  Root = root
  Parent <- MCParent
  Ignored = {vendor}
  MaxOps = 4
  MaxQueue = 2
INVARIANTS WatchTypeOK SubdirectoriesAreWatched NoticedIsLoaded
PROPERTY NoticedEditIsLoaded
CHECK_DEADLOCK FALSE
