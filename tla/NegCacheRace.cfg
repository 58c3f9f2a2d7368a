CONSTANTS
  n1 = n1
  n2 = n2
  n3 = n3
  r1 = r1
  r2 = r2
  Names = {n1}
  NumLayers = 3
  Backings = {"content", "embed", "swapped"}
  Mutable = {"content"}
  NumShards = 1
  ShardOf <- OneShard
  MaxEntries = 1
  Resolvers = {r1, r2}
  Invalidators = {"i1"}
  Nobody = "nobody"
  MaxGen = 2
SPECIFICATION MCSpec
INVARIANTS IInv EntriesAreTrue CalmResolveIsRight
PROPERTY MissSpec
SYMMETRY ResolverSymmetry
