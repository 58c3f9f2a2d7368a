CONSTANTS
  n1 = n1
  n2 = n2
  n3 = n3
  r1 = r1
  r2 = r2
  Names = {n1, n2, n3}
  NumLayers = 2
  Backings = {"content", "embed"}
  Mutable = {}
  NumShards = 2
  ShardOf <- TwoShards
  MaxEntries = 1
  Resolvers = {r1}
  Invalidators = {"i1", "i2"}
  Nobody = "nobody"
  MaxGen = 2
SPECIFICATION MCListsSpec
INVARIANTS ListsMatchMaps SizeCountsEntries SizeStaysBounded
PROPERTIES ResolveReturns InvalidationReturns
