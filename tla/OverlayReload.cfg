CONSTANTS
  n1 = n1
  r1 = r1
  Names = {n1}
  NumLayers = 2
  Backings = {"content", "embed"}
  Mutable = {"content"}
  NumShards = 1
  ShardOf <- OneShard
  MaxEntries = 1
  Resolvers = {r1}
  Invalidators = {}
  Nobody = "nobody"
  MaxGen = 0
SPECIFICATION MCReloadSpec
INVARIANT ReloadedResolveIsRight
