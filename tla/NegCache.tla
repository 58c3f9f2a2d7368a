------------------------------ MODULE NegCache ------------------------------
(***************************************************************************)
(* The layered filesystem of internal/overlayfs/overlayfs.go and its       *)
(* negative cache.  Goroutines that resolve a path (Open, ReadFile, Stat:  *)
(* one loop, written three times) run against goroutines that invalidate   *)
(* the cache (InvalidateLayer, InvalidateAll) or replace a layer           *)
(* (ReplaceLayer), while files come and go on the layers.                  *)
(*                                                                         *)
(* A step is what happens between two points where another goroutine can   *)
(* be seen: the snapshot under o.mu, a critical section of one shard, one  *)
(* layer's answer, one atomic load.  The counter of the entries is read    *)
(* without a lock (metrics.go:93), so every change of it is a step of its  *)
(* own, apart from the change of the maps it counts.  An invalidation      *)
(* takes the shard locks one after the other, then clears, then moves the  *)
(* generation on, then unlocks.                                            *)
(*                                                                         *)
(* pending and calm are history variables: the code does not have them and *)
(* no guard reads them.                                                    *)
(***************************************************************************)
EXTENDS Integers, Sequences, FiniteSets, LruList

CONSTANTS
  Names,        \* paths (valid ones: the others are refused before any layer)
  NumLayers,    \* number of layers, fixed when the overlay is built
  Backings,     \* the filesystems a layer can be (directories, embed.FS)
  Mutable,      \* the backings whose files change at run time
  NumShards,    \* negCacheShardCount, 16 in the code
  ShardOf,      \* negCacheShardIndex: the shard of a path
  MaxEntries,   \* maxNegCacheEntries; not positive switches the cache off
  Resolvers,    \* goroutines that resolve paths
  Invalidators, \* goroutines that invalidate or replace
  Nobody,       \* no goroutine
  MaxGen        \* bound on the generation: how many invalidations happen

LayerIdx == 0 .. NumLayers - 1
ShardIdx == 0 .. NumShards - 1

ASSUME NegCacheAssumption ==
  /\ NumLayers \in Nat \ {0}
  /\ NumShards \in Nat \ {0}
  /\ ShardOf \in [Names -> ShardIdx]
  /\ MaxEntries \in Int
  /\ MaxGen \in Nat
  /\ Mutable \subseteq Backings
  /\ Names # {}
  /\ Resolvers \cap Invalidators = {}
  /\ Nobody \notin Resolvers \cup Invalidators

VARIABLES
  disk,     \* disk[b][n]: what backing b answers for path n
  layers,   \* o.layers
  entry,    \* the shards' maps: firstCandidateLayer of a path, 0 if not there
  lru,      \* the shards' lists, most recently used first
  size,     \* negCacheSize
  gen,      \* negCacheGen
  mu,       \* who holds o.mu for writing
  shardMu,  \* who holds each shard's mutex across steps
  rpc,      \* resolver: where it is
  path,     \* resolver: name
  snap,     \* resolver: its copy of the layers
  snapGen,  \* resolver: negCacheGen at the copy
  cached,   \* resolver: cachedFirstCandidateLayer, 0 when it found no entry
  idx,      \* resolver: the layer to probe next
  oldest,   \* resolver: the path it evicts, until that is counted
  answer,   \* resolver: what it returns
  ipc,      \* invalidator: where it is
  target,   \* invalidator: layerIndex; AllLayers for InvalidateAll
  nextLock, \* invalidator: the shard to lock next
  key,      \* invalidator: the path it clears, until that is counted
  pending,  \* history: layer changed since its last invalidation took effect
  calm      \* history: no layer changed or was pending during this resolve

diskVars == <<disk, layers, pending>>
cacheVars == <<entry, lru, size>>
lockVars == <<mu, shardMu>>
resVars == <<rpc, path, snap, snapGen, cached, idx, oldest, answer>>
invVars == <<ipc, target, nextLock, key>>
vars == <<diskVars, cacheVars, gen, lockVars, resVars, invVars, calm>>

\* "blocked" is any error other than fs.ErrNotExist: EACCES, EIO, a symlink
\* that leaves the layer, a file that is too large to read.
FileStates == {"absent", "present", "blocked"}

\* The target of InvalidateAll: it claims back every layer.
AllLayers == -1

Answers == [out : {"none", "served", "missing", "failed"}, at : 0 .. NumLayers]
NoAnswer == [out |-> "none", at |-> 0]

\* The locals of a goroutine outside the code they belong to.
NoCopy == [j \in LayerIdx |-> CHOOSE b \in Backings : TRUE]
NoName == CHOOSE n \in Names : TRUE

\* Where a goroutine can be.  From "evicted" to "inserted" a resolver is in
\* the critical section of its path's shard, from "clear" to "unlock" an
\* invalidator is in those of all shards.
ResolverPlaces == {"idle", "lookup", "probe", "store", "insert",
                   "evicted", "push", "inserted", "name"}
InvalidatorPlaces == {"idle", "lock", "clear", "uncount", "zero", "bump", "unlock"}

\* What layer j holds under path n now.
View(j, n) == disk[layers[j]][n]

\* a is what a search of the layers as they are now would return for n.
Right(n, a) ==
  /\ \A j \in LayerIdx : j < a.at => View(j, n) = "absent"
  /\ a.out = "served" => a.at \in LayerIdx /\ View(a.at, n) = "present"
  /\ a.out = "failed" => a.at \in LayerIdx /\ View(a.at, n) = "blocked"
  /\ a.out = "missing" => a.at = NumLayers

-----------------------------------------------------------------------------
(* The shards' lists *)

\* ceil(max / shards), at least 1.
ShardCapacity ==
  LET whole == MaxEntries \div NumShards
      ceil  == IF MaxEntries % NumShards = 0 THEN whole ELSE whole + 1
  IN  IF ceil < 1 THEN 1 ELSE ceil

-----------------------------------------------------------------------------
Init ==
  /\ disk \in [Backings -> [Names -> FileStates]]
  /\ layers \in [LayerIdx -> Backings]
  /\ entry = [n \in Names |-> 0]
  /\ lru = [s \in ShardIdx |-> <<>>]
  /\ size = 0
  /\ gen = 0
  /\ mu = Nobody
  /\ shardMu = [s \in ShardIdx |-> Nobody]
  /\ rpc = [p \in Resolvers |-> "idle"]
  /\ path \in [Resolvers -> Names]
  /\ snap = [p \in Resolvers |-> NoCopy]
  /\ snapGen = [p \in Resolvers |-> 0]
  /\ cached = [p \in Resolvers |-> 0]
  /\ idx = [p \in Resolvers |-> 0]
  /\ oldest = [p \in Resolvers |-> NoName]
  /\ answer = [p \in Resolvers |-> NoAnswer]
  /\ ipc = [v \in Invalidators |-> "idle"]
  /\ target = [v \in Invalidators |-> AllLayers]
  /\ nextLock = [v \in Invalidators |-> 0]
  /\ key = [v \in Invalidators |-> NoName]
  /\ pending = [j \in LayerIdx |-> FALSE]
  /\ calm = [p \in Resolvers |-> FALSE]

-----------------------------------------------------------------------------
(* Files change on the layers' backings. *)

\* The layers in J change: their invalidation is owed, no resolve is calm.
Disturb(J) ==
  /\ pending' = [j \in LayerIdx |-> pending[j] \/ j \in J]
  /\ calm' = [p \in Resolvers |-> calm[p] /\ J = {}]

\* A file appears, disappears or becomes unreadable.
ChangeFile(b, n, st) ==
  /\ b \in Mutable
  /\ disk[b][n] # st
  /\ disk' = [disk EXCEPT ![b][n] = st]
  /\ Disturb({j \in LayerIdx : layers[j] = b})
  /\ UNCHANGED <<layers, cacheVars, gen, lockVars, resVars, invVars>>

-----------------------------------------------------------------------------
(* A resolve *)

\* The resolver has its answer and needs its locals no more.  It returns, or
\* it has yet to ask for the name of the layer that served it.
Leave(p, l) ==
  /\ rpc' = [rpc EXCEPT ![p] = l]
  /\ snap' = [snap EXCEPT ![p] = NoCopy]
  /\ snapGen' = [snapGen EXCEPT ![p] = 0]
  /\ cached' = [cached EXCEPT ![p] = 0]
  /\ idx' = [idx EXCEPT ![p] = 0]

Return(p) == Leave(p, "idle")
Served(p) == Leave(p, "name")

\* The resolver goes on at l.
Goto(p, l) ==
  /\ rpc' = [rpc EXCEPT ![p] = l]
  /\ UNCHANGED <<snap, snapGen, cached, idx>>

\* The copy of the layers and of the generation, under o.mu.RLock.
Snapshot(p, n) ==
  /\ rpc[p] = "idle"
  /\ mu = Nobody
  /\ rpc' = [rpc EXCEPT ![p] = "lookup"]
  /\ path' = [path EXCEPT ![p] = n]
  /\ snap' = [snap EXCEPT ![p] = layers]
  /\ snapGen' = [snapGen EXCEPT ![p] = gen]
  /\ answer' = [answer EXCEPT ![p] = NoAnswer]
  /\ calm' = [calm EXCEPT ![p] = \A j \in LayerIdx : ~pending[j]]
  /\ UNCHANGED <<diskVars, cacheVars, gen, lockVars, cached, idx, oldest, invVars>>

\* negCacheLookup: the entry goes to the front of its list.  It is believed
\* whatever generation the resolver captured.
Lookup(p) ==
  LET n == path[p]
      s == ShardOf[n]
  IN  /\ rpc[p] = "lookup"
      /\ shardMu[s] = Nobody
      /\ rpc' = [rpc EXCEPT ![p] = "probe"]
      /\ cached' = [cached EXCEPT ![p] = entry[n]]
      /\ idx' = [idx EXCEPT ![p] = IF entry[n] < NumLayers THEN entry[n] ELSE 0]
      /\ lru' = IF entry[n] = 0 THEN lru
                ELSE [lru EXCEPT ![s] = MoveToFront(@, n)]
      /\ UNCHANGED <<diskVars, entry, size, gen, lockVars, path, snap, snapGen,
                     oldest, answer, invVars, calm>>

\* What the layer to probe next holds; it is the copied layer that is asked.
Probed(p) == disk[snap[p][idx[p]]][path[p]]

\* fs.ErrNotExist: on to the next layer, or the path is nowhere.
ProbeMiss(p) ==
  /\ rpc[p] = "probe"
  /\ Probed(p) = "absent"
  /\ \/ /\ idx[p] + 1 < NumLayers
        /\ idx' = [idx EXCEPT ![p] = @ + 1]
        /\ UNCHANGED <<rpc, answer, snap, snapGen, cached>>
     \/ /\ idx[p] + 1 = NumLayers
        /\ answer' = [answer EXCEPT ![p] = [out |-> "missing", at |-> NumLayers]]
        /\ Return(p)
  /\ UNCHANGED <<diskVars, cacheVars, gen, lockVars, path, oldest, invVars, calm>>

\* Any other error is returned at once and nothing is learned from it.
ProbeError(p) ==
  /\ rpc[p] = "probe"
  /\ Probed(p) = "blocked"
  /\ answer' = [answer EXCEPT ![p] = [out |-> "failed", at |-> idx[p]]]
  /\ Return(p)
  /\ UNCHANGED <<diskVars, cacheVars, gen, lockVars, path, oldest, invVars, calm>>

\* A hit in layer 0 teaches nothing, nor does one where the entry said.
ProbeHit(p) ==
  /\ rpc[p] = "probe"
  /\ Probed(p) = "present"
  /\ answer' = [answer EXCEPT ![p] = [out |-> "served", at |-> idx[p]]]
  /\ IF idx[p] > 0 /\ idx[p] # cached[p] THEN Goto(p, "store") ELSE Served(p)
  /\ UNCHANGED <<diskVars, cacheVars, gen, lockVars, path, oldest, invVars, calm>>

\* layerName takes o.mu once more, to label the hit in the metrics.
NameLayer(p) ==
  /\ rpc[p] = "name"
  /\ mu = Nobody
  /\ rpc' = [rpc EXCEPT ![p] = "idle"]
  /\ UNCHANGED <<diskVars, cacheVars, gen, lockVars, path, snap, snapGen, cached,
                 idx, oldest, answer, invVars, calm>>

\* The generation has not moved since the copy was made.
StaleIsFresh(p) == gen >= snapGen[p]
Fresh(p) == gen = snapGen[p]

\* The firstCandidateLayer to store: the layer that served the path.
LearnedBeyond(p) == idx[p] + 1
Learned(p) == idx[p]

\* A shard that has to evict before it inserts.
FullBeyond(q) == Len(q) > ShardCapacity
Full(q) == Len(q) >= ShardCapacity

\* The counter after removeNegCacheElementLocked has removed an entry.
NotDropped == size
Dropped == size - 1

\* negCacheStoreWithGeneration before its lock: off, or already too old.
StoreCheck(p) ==
  /\ rpc[p] = "store"
  /\ IF MaxEntries <= 0 \/ ~Fresh(p) THEN Served(p) ELSE Goto(p, "insert")
  /\ UNCHANGED <<diskVars, cacheVars, gen, lockVars, path, oldest, answer, invVars, calm>>

\* The generation is read again under the shard's lock.
StoreStale(p) ==
  /\ rpc[p] = "insert"
  /\ shardMu[ShardOf[path[p]]] = Nobody
  /\ ~Fresh(p)
  /\ Served(p)
  /\ UNCHANGED <<diskVars, cacheVars, gen, lockVars, path, oldest, answer, invVars, calm>>

\* It still holds and the path has an entry: the entry is overwritten.
StoreUpdate(p) ==
  LET n == path[p]
      s == ShardOf[n]
  IN  /\ rpc[p] = "insert"
      /\ shardMu[s] = Nobody
      /\ Fresh(p)
      /\ entry[n] # 0
      /\ entry' = [entry EXCEPT ![n] = Learned(p)]
      /\ lru' = [lru EXCEPT ![s] = MoveToFront(@, n)]
      /\ Served(p)
      /\ UNCHANGED <<diskVars, size, gen, lockVars, path, oldest, answer, invVars, calm>>

\* It still holds and the path has none: a full shard first gives up the entry
\* at the back of its list.  The shard's lock is kept to the end of the store.
EvictOldest(p) ==
  LET n    == path[p]
      s    == ShardOf[n]
      q    == lru[s]
      last == q[Len(q)]
  IN  /\ rpc[p] = "insert"
      /\ shardMu[s] = Nobody
      /\ Fresh(p)
      /\ entry[n] = 0
      /\ Full(q)
      /\ shardMu' = [shardMu EXCEPT ![s] = p]
      /\ entry' = [entry EXCEPT ![last] = 0]
      /\ lru' = [lru EXCEPT ![s] = SubSeq(q, 1, Len(q) - 1)]
      /\ oldest' = [oldest EXCEPT ![p] = last]
      /\ Goto(p, "evicted")
      /\ UNCHANGED <<diskVars, size, gen, mu, path, answer, invVars, calm>>

CountEviction(p) ==
  /\ rpc[p] = "evicted"
  /\ size' = Dropped
  /\ oldest' = [oldest EXCEPT ![p] = NoName]
  /\ Goto(p, "push")
  /\ UNCHANGED <<diskVars, entry, lru, gen, lockVars, path, answer, invVars, calm>>

\* The path becomes the front of a list that has room, or now has.
Insert(p) ==
  LET n == path[p]
      s == ShardOf[n]
  IN  /\ \/ rpc[p] = "push"
         \/ /\ rpc[p] = "insert"
            /\ shardMu[s] = Nobody
            /\ Fresh(p)
            /\ entry[n] = 0
            /\ ~Full(lru[s])
      /\ shardMu' = [shardMu EXCEPT ![s] = p]
      /\ entry' = [entry EXCEPT ![n] = Learned(p)]
      /\ lru' = [lru EXCEPT ![s] = <<n>> \o @]
      /\ Goto(p, "inserted")
      /\ UNCHANGED <<diskVars, size, gen, mu, path, oldest, answer, invVars, calm>>

CountInsert(p) ==
  /\ rpc[p] = "inserted"
  /\ size' = size + 1
  /\ shardMu' = [shardMu EXCEPT ![ShardOf[path[p]]] = Nobody]
  /\ Served(p)
  /\ UNCHANGED <<diskVars, entry, lru, gen, mu, path, oldest, answer, invVars, calm>>

-----------------------------------------------------------------------------
(* An invalidation *)

\* Bound: invalidations under way and done stay within MaxGen.
MayInvalidate ==
  gen + Cardinality({v \in Invalidators : ipc[v] # "idle"}) < MaxGen

StartInvalidate(v, j) ==
  /\ ipc[v] = "idle"
  /\ MayInvalidate
  /\ ipc' = [ipc EXCEPT ![v] = "lock"]
  /\ target' = [target EXCEPT ![v] = j]
  /\ UNCHANGED <<nextLock, key>>

InvalidateLayer(v, j) ==
  /\ StartInvalidate(v, j)
  /\ UNCHANGED <<diskVars, cacheVars, gen, lockVars, resVars, calm>>

InvalidateAll(v) ==
  /\ StartInvalidate(v, AllLayers)
  /\ UNCHANGED <<diskVars, cacheVars, gen, lockVars, resVars, calm>>

\* ReplaceLayer holds o.mu to its end.  An index out of range is an error
\* and changes nothing, so j ranges over the layers.
ReplaceLayer(v, j, b) ==
  /\ StartInvalidate(v, j)
  /\ mu = Nobody
  /\ mu' = v
  /\ layers' = [layers EXCEPT ![j] = b]
  /\ Disturb({j})
  /\ UNCHANGED <<disk, cacheVars, gen, shardMu, resVars>>

\* lockAllNegCacheShards takes the shards in one order, whoever calls it.
OrderByCaller(v) == IF mu = v THEN NumShards - 1 - nextLock[v] ELSE nextLock[v]
ShardToLock(v) == nextLock[v]

LockShard(v) ==
  /\ ipc[v] = "lock"
  /\ shardMu[ShardToLock(v)] = Nobody
  /\ shardMu' = [shardMu EXCEPT ![ShardToLock(v)] = v]
  /\ nextLock' = [nextLock EXCEPT ![v] = @ + 1]
  /\ ipc' = [ipc EXCEPT ![v] = IF nextLock[v] + 1 = NumShards THEN "clear" ELSE "lock"]
  /\ UNCHANGED <<diskVars, cacheVars, gen, mu, resVars, target, key, calm>>

\* The entries an invalidation of layer j drops.
ClaimedUpTo(j) == {n \in Names : entry[n] # 0 /\ entry[n] <= j}
ClaimedBeyond(j) == {n \in Names : entry[n] # 0 /\ entry[n] > j + 1}
Claimed(j) == {n \in Names : entry[n] # 0 /\ entry[n] >= j}

\* removeNegCacheElementLocked for one entry the loop meets, in map order.
ClearEntry(v, n) ==
  /\ ipc[v] = "clear"
  /\ target[v] # AllLayers
  /\ n \in Claimed(target[v])
  /\ entry' = [entry EXCEPT ![n] = 0]
  /\ lru' = [lru EXCEPT ![ShardOf[n]] = Remove(@, n)]
  /\ key' = [key EXCEPT ![v] = n]
  /\ ipc' = [ipc EXCEPT ![v] = "uncount"]
  /\ UNCHANGED <<diskVars, size, gen, lockVars, resVars, target, nextLock, calm>>

CountCleared(v) ==
  /\ ipc[v] = "uncount"
  /\ size' = Dropped
  /\ key' = [key EXCEPT ![v] = NoName]
  /\ ipc' = [ipc EXCEPT ![v] = "clear"]
  /\ UNCHANGED <<diskVars, entry, lru, gen, lockVars, resVars, target, nextLock, calm>>

\* The loop over the shards has ended.
ClearDone(v) ==
  /\ ipc[v] = "clear"
  /\ target[v] # AllLayers
  /\ Claimed(target[v]) = {}
  /\ ipc' = [ipc EXCEPT ![v] = "bump"]
  /\ UNCHANGED <<diskVars, cacheVars, gen, lockVars, resVars, target, nextLock, key, calm>>

\* InvalidateAll makes new maps and empties the lists, shard by shard; the
\* counter follows when it has been through all of them.
ClearAll(v) ==
  /\ ipc[v] = "clear"
  /\ target[v] = AllLayers
  /\ entry' = [n \in Names |-> 0]
  /\ lru' = [s \in ShardIdx |-> <<>>]
  /\ ipc' = [ipc EXCEPT ![v] = "zero"]
  /\ UNCHANGED <<diskVars, size, gen, lockVars, resVars, target, nextLock, key, calm>>

StoreZero(v) ==
  /\ ipc[v] = "zero"
  /\ size' = 0
  /\ ipc' = [ipc EXCEPT ![v] = "bump"]
  /\ UNCHANGED <<diskVars, entry, lru, gen, lockVars, resVars, target, nextLock, key, calm>>

\* The generation moves on while every shard is still locked; this is where
\* the invalidation takes effect.
Bump(v) ==
  /\ ipc[v] = "bump"
  /\ gen' = gen + 1
  /\ pending' = [j \in LayerIdx |-> pending[j] /\ target[v] # AllLayers /\ j # target[v]]
  /\ ipc' = [ipc EXCEPT ![v] = "unlock"]
  /\ UNCHANGED <<disk, layers, cacheVars, lockVars, resVars, target, nextLock, key, calm>>

\* unlockAllNegCacheShards leaves every shard free.
FirstShardKept == [s \in ShardIdx |-> IF s = 0 THEN shardMu[s] ELSE Nobody]
AllFree == [s \in ShardIdx |-> Nobody]

\* unlockAllNegCacheShards, and o.mu if it is a ReplaceLayer that returns.
Unlock(v) ==
  /\ ipc[v] = "unlock"
  /\ shardMu' = AllFree
  /\ mu' = IF mu = v THEN Nobody ELSE mu
  /\ ipc' = [ipc EXCEPT ![v] = "idle"]
  /\ target' = [target EXCEPT ![v] = AllLayers]
  /\ nextLock' = [nextLock EXCEPT ![v] = 0]
  /\ UNCHANGED <<diskVars, cacheVars, gen, resVars, key, calm>>

-----------------------------------------------------------------------------
ResolverStep(p) ==
  \/ Lookup(p)
  \/ ProbeMiss(p) \/ ProbeError(p) \/ ProbeHit(p)
  \/ StoreCheck(p) \/ StoreStale(p) \/ StoreUpdate(p)
  \/ EvictOldest(p) \/ CountEviction(p) \/ Insert(p) \/ CountInsert(p)
  \/ NameLayer(p)

InvalidatorStep(v) ==
  \/ LockShard(v)
  \/ \E n \in Names : ClearEntry(v, n)
  \/ CountCleared(v) \/ ClearDone(v)
  \/ ClearAll(v) \/ StoreZero(v)
  \/ Bump(v) \/ Unlock(v)

Next ==
  \/ \E b \in Backings, n \in Names, st \in FileStates : ChangeFile(b, n, st)
  \/ \E p \in Resolvers :
       \/ \E n \in Names : Snapshot(p, n)
       \/ ResolverStep(p)
  \/ \E v \in Invalidators :
       \/ \E j \in LayerIdx : InvalidateLayer(v, j)
       \/ InvalidateAll(v)
       \/ \E j \in LayerIdx, b \in Backings : ReplaceLayer(v, j, b)
       \/ InvalidatorStep(v)

Spec == Init /\ [][Next]_vars

\* A goroutine that has begun is scheduled until it returns; that one begins
\* is nobody's duty.  Where it waits, it waits for a sync.Mutex or for the
\* writer of a sync.RWMutex, which hand themselves to a waiter that others keep
\* overtaking: hence strong fairness.
Fairness ==
  /\ \A p \in Resolvers : SF_vars(ResolverStep(p))
  /\ \A v \in Invalidators : SF_vars(InvalidatorStep(v))

FairSpec == Spec /\ Fairness

-----------------------------------------------------------------------------
(* Properties *)

TypeOK ==
  /\ disk \in [Backings -> [Names -> FileStates]]
  /\ layers \in [LayerIdx -> Backings]
  /\ entry \in [Names -> LayerIdx]
  /\ lru \in [ShardIdx -> Seq(Names)]
  /\ size \in Int
  /\ gen \in Nat
  /\ mu \in Invalidators \cup {Nobody}
  /\ shardMu \in [ShardIdx -> Resolvers \cup Invalidators \cup {Nobody}]
  /\ rpc \in [Resolvers -> ResolverPlaces]
  /\ path \in [Resolvers -> Names]
  /\ snap \in [Resolvers -> [LayerIdx -> Backings]]
  /\ snapGen \in [Resolvers -> Nat]
  /\ cached \in [Resolvers -> LayerIdx]
  /\ idx \in [Resolvers -> 0 .. NumLayers]
  /\ oldest \in [Resolvers -> Names]
  /\ answer \in [Resolvers -> Answers]
  /\ ipc \in [Invalidators -> InvalidatorPlaces]
  /\ target \in [Invalidators -> LayerIdx \cup {AllLayers}]
  /\ nextLock \in [Invalidators -> 0 .. NumShards]
  /\ key \in [Invalidators -> Names]
  /\ pending \in [LayerIdx -> BOOLEAN]
  /\ calm \in [Resolvers -> BOOLEAN]

\* The negative cache never claims that an upper layer lacks a file it has,
\* unless the invalidation that must follow the change is still to take
\* effect: "Stores captured under an older generation are dropped so stale
\* misses cannot be resurrected after a layer changes" (overlayfs.go:70-72).
EntriesAreTrue ==
  \A n \in Names, j \in LayerIdx :
    j < entry[n] => View(j, n) = "absent" \/ pending[j]

\* A resolve during which no layer changes, and before which every change was
\* invalidated, returns what a search of all the layers would: cache,
\* eviction and concurrent invalidations never show.
CalmResolveIsRight ==
  \A p \in Resolvers :
    calm[p] /\ answer[p] # NoAnswer => Right(path[p], answer[p])

\* The lists l hold the keys of the maps e, shard by shard, each once, and no
\* more of them than a shard's capacity.
InStep(l, e) ==
  \A s \in ShardIdx :
    /\ \A n \in Names : Occurs(n, l[s]) <=> e[n] # 0 /\ ShardOf[n] = s
    /\ NoDuplicates(l[s])
    /\ Len(l[s]) <= ShardCapacity

\* The lists and the maps never part: an eviction, an update and the two ways
\* to invalidate change both (negCacheStoreWithGeneration,
\* removeNegCacheElementLocked, InvalidateAll).
ListsMatchMaps == InStep(lru, entry)

\* The paths that have an entry.
Cached == {n \in Names : entry[n] # 0}

\* Whenever no shard is locked, the counter behind the size metric counts the
\* entries: the Adds and the Store of stores, evictions and the two ways to
\* invalidate, each of which is apart from the change it counts, never drift
\* (negCacheStoreWithGeneration, removeNegCacheElementLocked, InvalidateAll).
\* In between a scrape (metrics.go:93 takes no lock) may read it ahead of the
\* maps or behind them.
SizeCountsEntries ==
  (\A s \in ShardIdx : shardMu[s] = Nobody) => size = Cardinality(Cached)

\* What a scrape reads, at whatever moment, is a size the cache may have: not
\* negative, and within maxNegCacheEntries but for the rounding of its division
\* among the shards (overlayfs.go:665), less than one entry for each shard; 0
\* when the cache is switched off.
SizeStaysBounded ==
  size \in 0 .. IF MaxEntries <= 0 THEN 0 ELSE MaxEntries + NumShards - 1

\* Every resolve that has begun returns.
ResolveReturns ==
  \A p \in Resolvers : rpc[p] # "idle" ~> rpc[p] = "idle"

\* Every invalidation returns: goroutines that all take sixteen locks, one of
\* them with o.mu held, do not wait for each other for ever.
InvalidationReturns ==
  \A v \in Invalidators : ipc[v] # "idle" ~> ipc[v] = "idle"

\* The cache keeps the promise of MissCache.
Miss == INSTANCE MissCache WITH
          view  <- [j \in LayerIdx |-> [n \in Names |-> View(j, n)]],
          dirty <- pending,
          known <- entry

MissSpec == Miss!MissSpec

-----------------------------------------------------------------------------
(* The strengthening that makes EntriesAreTrue inductive. *)

\* A resolver that has its copy of the layers.
Searching(p) == rpc[p] \notin {"idle", "name"}

\* A resolver's generation is never ahead.
GenerationsLag == \A p \in Resolvers : snapGen[p] <= gen

\* While its generation is current, a resolver's copy of a layer is that
\* layer, or the replacement's invalidation is still to come.
CopiesAreCurrent ==
  \A p \in Resolvers, j \in LayerIdx :
    Searching(p) /\ snapGen[p] = gen => snap[p][j] = layers[j] \/ pending[j]

\* While its generation is current, the misses a resolver has seen or
\* believed are as true as entries are.
SeenMissesAreTrue ==
  \A p \in Resolvers, j \in LayerIdx :
    Searching(p) /\ snapGen[p] = gen /\ j < idx[p]
      => View(j, path[p]) = "absent" \/ pending[j]

\* An invalidator holds the shards it has been through.
LocksHeld ==
  \A v \in Invalidators :
    /\ ipc[v] = "idle" => nextLock[v] = 0
    /\ ipc[v] = "lock" => /\ nextLock[v] < NumShards
                          /\ \A s \in ShardIdx : s < nextLock[v] => shardMu[s] = v
    /\ ipc[v] \notin {"idle", "lock"} => \A s \in ShardIdx : shardMu[s] = v

\* A resolver that inserts holds its path's shard.  Until it has inserted, its
\* generation is current, its path has no entry and there is room for it.
StoresHoldTheirShard ==
  \A p \in Resolvers :
    LET s == ShardOf[path[p]]
    IN  /\ rpc[p] \in {"evicted", "push", "inserted"} => shardMu[s] = p
        /\ rpc[p] \in {"evicted", "push"} =>
             Fresh(p) /\ entry[path[p]] = 0 /\ Len(lru[s]) < ShardCapacity

\* When the generation is about to move on, the claims are gone.
ClearedBeforeBump ==
  \A v \in Invalidators :
    /\ ipc[v] = "zero" => \A n \in Names : entry[n] = 0
    /\ ipc[v] = "bump" => \A n \in Names : entry[n] # 0 => entry[n] < target[v]

\* A path with an entry that is still to be counted, and one without that is
\* still counted.
Uncounted(n) == \E p \in Resolvers : rpc[p] = "inserted" /\ path[p] = n
StillCounted(n) ==
  \/ \E p \in Resolvers : rpc[p] = "evicted" /\ oldest[p] = n
  \/ \E v \in Invalidators : ipc[v] = "uncount" /\ key[v] = n

Counted == {n \in Names : StillCounted(n) \/ (entry[n] # 0 /\ ~Uncounted(n))}

\* What is still to be counted has changed: an insert is in the map, a path
\* that is still counted has left it, and has left room in its shard's list.
CountsFollow ==
  /\ \A p \in Resolvers :
       /\ rpc[p] = "inserted" => entry[path[p]] # 0
       /\ rpc[p] = "evicted" =>
            ShardOf[oldest[p]] = ShardOf[path[p]] /\ entry[oldest[p]] = 0
  /\ \A v \in Invalidators :
       ipc[v] = "uncount" =>
         entry[key[v]] = 0 /\ Len(lru[ShardOf[key[v]]]) < ShardCapacity

\* The counter is that of the counted paths, save between the emptying of the
\* maps by InvalidateAll and its Store; no resolver gets past the check when the
\* cache is switched off.
SizeInv ==
  /\ CountsFollow
  /\ IsFiniteSet(Counted)
  /\ \/ size = Cardinality(Counted)
     \/ /\ \E v \in Invalidators : ipc[v] = "zero"
        /\ size \in 0 .. NumShards * ShardCapacity
  /\ MaxEntries <= 0 =>
       size = 0 /\ \A p \in Resolvers : rpc[p] \in {"idle", "lookup", "probe", "store", "name"}

\* Where a resolver is in the layers.
IndexInRange ==
  \A p \in Resolvers :
    /\ rpc[p] \in {"idle", "lookup", "name"} => idx[p] = 0
    /\ rpc[p] = "probe" => idx[p] < NumLayers
    /\ rpc[p] \in {"store", "insert", "evicted", "push", "inserted"}
         => idx[p] \in 1 .. NumLayers - 1

\* A calm resolve works on the layers as they are, and every miss it has seen
\* or believed is one.
CalmSeesTheLayers ==
  \A p \in Resolvers :
    calm[p] =>
      /\ \A j \in LayerIdx : ~pending[j]
      /\ Searching(p) => /\ snap[p] = layers
                         /\ \A j \in LayerIdx :
                              j < idx[p] => View(j, path[p]) = "absent"

IInv ==
  /\ TypeOK
  /\ EntriesAreTrue
  /\ CalmResolveIsRight
  /\ ListsMatchMaps
  /\ GenerationsLag
  /\ CopiesAreCurrent
  /\ SeenMissesAreTrue
  /\ LocksHeld
  /\ StoresHoldTheirShard
  /\ ClearedBeforeBump
  /\ IndexInRange
  /\ CalmSeesTheLayers
=============================================================================
