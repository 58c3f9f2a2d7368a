--------------------------- MODULE NegCacheProofs ---------------------------
(***************************************************************************)
(* Proofs about NegCache, for every number of layers, shards, paths,       *)
(* backings and goroutines, and for every capacity.                        *)
(***************************************************************************)
EXTENDS NegCache, LruListProofs, SequenceTheorems, FiniteSetTheorems, TLAPS

-----------------------------------------------------------------------------
(* The shards' lists *)

\* A shard holds at least one entry (negCacheShardCapacity's last branch).
LEMMA CapacityIsPositive == ShardCapacity \in Nat \ {0}
  BY NegCacheAssumption DEF ShardCapacity

\* A shard's list may be exchanged with the entries of that shard's paths: the
\* other shards' lists stay in step.
LEMMA OneListChanges ==
  ASSUME NEW l, NEW e, InStep(l, e), NEW s \in ShardIdx, NEW l2, NEW e2,
         \A t \in ShardIdx : t # s => l2[t] = l[t],
         NoDuplicates(l2[s]), Len(l2[s]) <= ShardCapacity,
         \A n \in Names : Occurs(n, l2[s]) <=> e2[n] # 0 /\ ShardOf[n] = s,
         \A n \in Names : ShardOf[n] # s => e2[n] = e[n]
  PROVE  InStep(l2, e2)
<1>1. ASSUME NEW t \in ShardIdx, t # s
      PROVE  /\ \A n \in Names : Occurs(n, l2[t]) <=> e2[n] # 0 /\ ShardOf[n] = t
             /\ NoDuplicates(l2[t])
             /\ Len(l2[t]) <= ShardCapacity
  <2>1. l2[t] = l[t]
    BY <1>1
  <2>2. /\ \A n \in Names : Occurs(n, l[t]) <=> e[n] # 0 /\ ShardOf[n] = t
        /\ NoDuplicates(l[t])
        /\ Len(l[t]) <= ShardCapacity
    BY DEF InStep
  <2>3. \A n \in Names : ShardOf[n] = t => e2[n] = e[n]
    BY <1>1
  <2> QED
    BY <2>1, <2>2, <2>3
<1> QED
  BY <1>1 DEF InStep

\* A path that moves to the front stays in step, whatever its entry becomes.
LEMMA MoveStaysInStep ==
  ASSUME NEW l \in [ShardIdx -> Seq(Names)], NEW e, InStep(l, e),
         NEW n \in Names, NEW e2, e[n] # 0, e2[n] # 0,
         \A m \in Names : m # n => e2[m] = e[m]
  PROVE  LET l2 == [l EXCEPT ![ShardOf[n]] = MoveToFront(@, n)]
         IN  l2 \in [ShardIdx -> Seq(Names)] /\ InStep(l2, e2)
<1> DEFINE s == ShardOf[n]
           q == MoveToFront(l[s], n)
<1>1. s \in ShardIdx
  BY NegCacheAssumption
<1> HIDE DEF s
<1>2. /\ l[s] \in Seq(Names) /\ Occurs(n, l[s]) /\ NoDuplicates(l[s])
      /\ Len(l[s]) <= ShardCapacity
      /\ \A m \in Names : Occurs(m, l[s]) <=> e[m] # 0 /\ ShardOf[m] = s
  BY <1>1 DEF InStep, s
<1>3. /\ q \in Seq(Names) /\ Len(q) = Len(l[s]) /\ NoDuplicates(q)
      /\ \A m : Occurs(m, q) <=> Occurs(m, l[s])
  BY <1>2, MoveToFrontKeeps
<1> HIDE DEF q
<1>4. \A m \in Names : Occurs(m, q) <=> e2[m] # 0 /\ ShardOf[m] = s
  BY <1>2, <1>3
<1>5. \A m \in Names : ShardOf[m] # s => e2[m] = e[m]
  BY DEF s
<1>b. Len(q) <= ShardCapacity
  BY <1>2, <1>3
<1>6. InStep([l EXCEPT ![s] = q], e2)
  <2> DEFINE l2 == [l EXCEPT ![s] = q]
  <2>1. l2[s] = q /\ \A t \in ShardIdx : t # s => l2[t] = l[t]
    BY <1>1
  <2> HIDE DEF l2
  <2>2. InStep(l2, e2)
    BY <1>1, <1>b, <1>3, <1>4, <1>5, <2>1, OneListChanges
  <2> QED
    BY <2>2 DEF l2
<1>7. [l EXCEPT ![s] = q] \in [ShardIdx -> Seq(Names)]
  BY <1>1, <1>3
<1> QED
  BY <1>6, <1>7 DEF s, q

\* A path that is removed from its map and from its list leaves them in step.
LEMMA RemoveStaysInStep ==
  ASSUME NEW l \in [ShardIdx -> Seq(Names)], NEW e \in [Names -> LayerIdx],
         InStep(l, e), NEW n \in Names, e[n] # 0
  PROVE  LET l2 == [l EXCEPT ![ShardOf[n]] = Remove(@, n)]
         IN  l2 \in [ShardIdx -> Seq(Names)] /\ InStep(l2, [e EXCEPT ![n] = 0])
<1> DEFINE s == ShardOf[n]
           q == Remove(l[s], n)
           e2 == [e EXCEPT ![n] = 0]
<1>1. s \in ShardIdx
  BY NegCacheAssumption
<1>a. e2[n] = 0 /\ \A m \in Names : m # n => e2[m] = e[m]
  OBVIOUS
<1> HIDE DEF s, e2
<1>2. /\ l[s] \in Seq(Names) /\ Occurs(n, l[s]) /\ NoDuplicates(l[s])
      /\ Len(l[s]) <= ShardCapacity
      /\ \A m \in Names : Occurs(m, l[s]) <=> e[m] # 0 /\ ShardOf[m] = s
  BY <1>1 DEF InStep, s
<1>3. /\ q \in Seq(Names) /\ Len(q) = Len(l[s]) - 1 /\ NoDuplicates(q)
      /\ \A m : Occurs(m, q) <=> Occurs(m, l[s]) /\ m # n
  BY <1>2, RemoveLeavesTheOthers
<1> HIDE DEF q
<1>4. \A m \in Names : Occurs(m, q) <=> e2[m] # 0 /\ ShardOf[m] = s
  BY <1>a, <1>2, <1>3
<1>5. \A m \in Names : ShardOf[m] # s => e2[m] = e[m]
  BY <1>a DEF s
<1>b. Len(q) <= ShardCapacity
  BY <1>2, <1>3, CapacityIsPositive
<1>6. InStep([l EXCEPT ![s] = q], e2)
  <2> DEFINE l2 == [l EXCEPT ![s] = q]
  <2>1. l2[s] = q /\ \A t \in ShardIdx : t # s => l2[t] = l[t]
    BY <1>1
  <2> HIDE DEF l2
  <2>2. InStep(l2, e2)
    <3>1. NoDuplicates(l2[s]) /\ Len(l2[s]) <= ShardCapacity
      BY <1>b, <1>3, <2>1
    <3>2. \A m \in Names : Occurs(m, l2[s]) <=> e2[m] # 0 /\ ShardOf[m] = s
      BY <1>4, <2>1
    <3> HIDE DEF e2
    <3> QED
      BY <1>1, <1>5, <2>1, <3>1, <3>2, OneListChanges
  <2> QED
    BY <2>2 DEF l2
<1>7. [l EXCEPT ![s] = q] \in [ShardIdx -> Seq(Names)]
  BY <1>1, <1>3
<1> QED
  BY <1>6, <1>7 DEF s, q, e2

-----------------------------------------------------------------------------
(* Types of what actions write *)

\* The copy of the layers outside a resolve has a copy's type.
LEMMA NoCopyIsACopy ==
  ASSUME TypeOK
  PROVE  NoCopy \in [LayerIdx -> Backings]
  BY NegCacheAssumption DEF TypeOK, NoCopy, LayerIdx

\* The path of no eviction and of no clearing is a path.
LEMMA NoNameIsAName == NoName \in Names
  BY NegCacheAssumption DEF NoName

\* No answer yet has an answer's type.
LEMMA NoAnswerIsAnAnswer == NoAnswer \in Answers
  BY NegCacheAssumption DEF NoAnswer, Answers

(* The four steps that touch a list keep maps and lists in step. *)

\* A lookup moves a cached path to the front of its list and no more.
LEMMA ListsAfterLookup ==
  ASSUME IInv, NEW p \in Resolvers, Lookup(p)
  PROVE  lru' \in [ShardIdx -> Seq(Names)] /\ InStep(lru', entry')
<1>0. /\ lru \in [ShardIdx -> Seq(Names)] /\ InStep(lru, entry)
      /\ path[p] \in Names /\ entry' = entry
  BY DEF IInv, TypeOK, ListsMatchMaps, Lookup
<1>1. CASE entry[path[p]] = 0
  BY <1>0, <1>1 DEF Lookup
<1>2. CASE entry[path[p]] # 0
  <2>1. lru' = [lru EXCEPT ![ShardOf[path[p]]] = MoveToFront(@, path[p])]
    BY <1>2 DEF Lookup
  <2> QED
    BY <1>0, <1>2, <2>1, MoveStaysInStep
<1> QED
  BY <1>1, <1>2

\* Storing over an entry moves the path to the front of its list.
LEMMA ListsAfterUpdate ==
  ASSUME IInv, NEW p \in Resolvers, StoreUpdate(p)
  PROVE  lru' \in [ShardIdx -> Seq(Names)] /\ InStep(lru', entry')
<1>1. /\ lru \in [ShardIdx -> Seq(Names)] /\ InStep(lru, entry)
      /\ path[p] \in Names /\ entry[path[p]] # 0
  BY DEF IInv, TypeOK, ListsMatchMaps, StoreUpdate
<1>2. /\ entry'[path[p]] # 0
      /\ \A m \in Names : m # path[p] => entry'[m] = entry[m]
  BY <1>1 DEF IInv, TypeOK, IndexInRange, StoreUpdate, Learned
<1>3. lru' = [lru EXCEPT ![ShardOf[path[p]]] = MoveToFront(@, path[p])]
  BY DEF StoreUpdate
<1> QED
  BY <1>1, <1>2, <1>3, MoveStaysInStep

\* An eviction takes the back of a shard's list with its entry.
LEMMA ListsAfterEvict ==
  ASSUME IInv, NEW p \in Resolvers, EvictOldest(p)
  PROVE  LET q    == lru[ShardOf[path[p]]]
             last == q[Len(q)]
         IN  /\ lru' \in [ShardIdx -> Seq(Names)] /\ InStep(lru', entry')
             /\ last \in Names /\ ShardOf[last] = ShardOf[path[p]] /\ entry[last] # 0
             /\ Len(lru'[ShardOf[path[p]]]) < ShardCapacity
<1> DEFINE s    == ShardOf[path[p]]
           q    == lru[s]
           last == q[Len(q)]
           back == SubSeq(q, 1, Len(q) - 1)
<1>1. /\ lru \in [ShardIdx -> Seq(Names)] /\ InStep(lru, entry)
      /\ entry \in [Names -> LayerIdx] /\ s \in ShardIdx
  BY NegCacheAssumption DEF IInv, TypeOK, ListsMatchMaps
<1>2. /\ lru' = [lru EXCEPT ![s] = back]
      /\ entry' = [entry EXCEPT ![last] = 0]
      /\ Len(q) >= ShardCapacity
  BY Zenon DEF EvictOldest, Full
<1> HIDE DEF s
<1>3. lru'[s] = back /\ \A t \in ShardIdx : t # s => lru'[t] = lru[t]
  BY <1>1, <1>2
<1>4. /\ q \in Seq(Names) /\ NoDuplicates(q) /\ Len(q) \in Nat /\ Len(q) <= ShardCapacity
      /\ \A m \in Names : Occurs(m, q) <=> entry[m] # 0 /\ ShardOf[m] = s
  BY <1>1 DEF InStep
<1> HIDE DEF q
<1>5. Len(q) >= 1
  BY <1>2, <1>4, CapacityIsPositive
<1>6. last \in Names /\ Occurs(last, q)
  <2>1. Len(q) \in 1 .. Len(q)
    BY <1>4, <1>5
  <2> QED
    BY <1>4, <2>1, ElementOfSeq DEF Occurs
<1>7. entry[last] # 0 /\ ShardOf[last] = s
  BY <1>4, <1>6
<1>8. /\ back \in Seq(Names) /\ Len(back) = Len(q) - 1 /\ NoDuplicates(back)
      /\ \A m : Occurs(m, back) <=> Occurs(m, q) /\ m # last
  BY <1>4, <1>5, DropBackRemovesLast
<1> HIDE DEF back, last
<1>9. Len(back) < ShardCapacity /\ Len(back) <= ShardCapacity
  BY <1>4, <1>8, CapacityIsPositive
<1>10. entry'[last] = 0 /\ \A m \in Names : m # last => entry'[m] = entry[m]
  BY <1>1, <1>2, <1>6
<1>11. InStep(lru', entry')
  <2>1. NoDuplicates(lru'[s]) /\ Len(lru'[s]) <= ShardCapacity
    BY <1>3, <1>8, <1>9
  <2>2. \A m \in Names : Occurs(m, lru'[s]) <=> entry'[m] # 0 /\ ShardOf[m] = s
    BY <1>3, <1>4, <1>8, <1>10
  <2>3. \A m \in Names : ShardOf[m] # s => entry'[m] = entry[m]
    BY <1>7, <1>10
  <2> QED
    BY ONLY <1>1, <1>3, <2>1, <2>2, <2>3, OneListChanges
<1>12. lru' \in [ShardIdx -> Seq(Names)]
  BY <1>1, <1>2, <1>8
<1> QED
  BY <1>3, <1>6, <1>7, <1>9, <1>11, <1>12 DEF s, q, last

\* An insert has room: the shard was not full, or what it gave up is gone.
LEMMA InsertHasRoom ==
  ASSUME IInv, NEW p \in Resolvers, Insert(p)
  PROVE  /\ entry[path[p]] = 0 /\ Fresh(p)
         /\ Len(lru[ShardOf[path[p]]]) < ShardCapacity
         /\ \A v \in Invalidators : ipc[v] \in {"idle", "lock"}
<1> DEFINE s == ShardOf[path[p]]
<1>1. s \in ShardIdx /\ p \notin Invalidators /\ Nobody \notin Invalidators
      /\ lru[s] \in Seq(Names)
  BY NegCacheAssumption DEF IInv, TypeOK
<1>2. /\ entry[path[p]] = 0 /\ Fresh(p) /\ Len(lru[s]) < ShardCapacity
      /\ shardMu[s] \in {p, Nobody}
  <2>1. CASE rpc[p] = "push"
    BY <2>1 DEF IInv, StoresHoldTheirShard
  <2>2. CASE rpc[p] # "push"
    <3>1. /\ shardMu[s] = Nobody /\ Fresh(p) /\ entry[path[p]] = 0 /\ ~Full(lru[s])
      BY <2>2 DEF Insert
    <3>2. Len(lru[s]) < ShardCapacity
      BY <1>1, <3>1, CapacityIsPositive DEF Full
    <3> QED
      BY <3>1, <3>2
  <2> QED
    BY <2>1, <2>2
<1>3. ASSUME NEW v \in Invalidators
      PROVE  ipc[v] \in {"idle", "lock"}
  BY <1>1, <1>2 DEF IInv, LocksHeld
<1> QED
  BY <1>2, <1>3

\* The shard of an insert is the inserting resolver's, or free.
LEMMA InsertHoldsOrTakes ==
  ASSUME IInv, NEW p \in Resolvers, Insert(p)
  PROVE  shardMu[ShardOf[path[p]]] \in {p, Nobody}
<1>1. CASE rpc[p] = "push"
  BY <1>1 DEF IInv, StoresHoldTheirShard
<1>2. CASE rpc[p] # "push"
  BY <1>2 DEF Insert
<1> QED
  BY <1>1, <1>2

\* The path goes to the front of its shard's list.
LEMMA ListsAfterInsert ==
  ASSUME IInv, NEW p \in Resolvers, Insert(p)
  PROVE  lru' \in [ShardIdx -> Seq(Names)] /\ InStep(lru', entry')
<1> DEFINE n   == path[p]
           s   == ShardOf[n]
           q   == lru[s]
           new == <<n>> \o q
<1>1. /\ lru \in [ShardIdx -> Seq(Names)] /\ InStep(lru, entry)
      /\ entry \in [Names -> LayerIdx] /\ s \in ShardIdx
      /\ n \in Names /\ entry[n] = 0 /\ idx[p] # 0 /\ Len(q) < ShardCapacity
  <2>1. /\ lru \in [ShardIdx -> Seq(Names)] /\ InStep(lru, entry)
        /\ entry \in [Names -> LayerIdx] /\ s \in ShardIdx /\ n \in Names
    BY NegCacheAssumption DEF IInv, TypeOK, ListsMatchMaps
  <2>2. entry[n] = 0 /\ Len(q) < ShardCapacity
    BY InsertHasRoom
  <2>3. rpc[p] \in {"insert", "push"}
    BY DEF Insert
  <2>4. idx[p] \in 1 .. NumLayers - 1
    BY <2>3 DEF IInv, IndexInRange
  <2>5. idx[p] # 0
    BY <2>4
  <2> QED
    BY <2>1, <2>2, <2>5
<1>2. lru' = [lru EXCEPT ![s] = new] /\ entry' = [entry EXCEPT ![n] = idx[p]]
  BY DEF Insert, Learned
<1>3. lru'[s] = new /\ \A t \in ShardIdx : t # s => lru'[t] = lru[t]
  BY <1>1, <1>2
<1>4. entry'[n] # 0 /\ \A m \in Names : m # n => entry'[m] = entry[m]
  BY <1>1, <1>2
<1>5. /\ q \in Seq(Names) /\ ~Occurs(n, q) /\ NoDuplicates(q) /\ Len(q) \in Nat
      /\ \A m \in Names : Occurs(m, q) <=> entry[m] # 0 /\ ShardOf[m] = s
  BY <1>1 DEF InStep
<1>6. \A m \in Names : ShardOf[m] # s => entry'[m] = entry[m]
  BY <1>4
<1>7. ShardOf[n] = s
  OBVIOUS
<1> HIDE DEF s, n, q
<1>8. /\ new \in Seq(Names) /\ Len(new) = Len(q) + 1 /\ NoDuplicates(new)
      /\ \A m : Occurs(m, new) <=> Occurs(m, q) \/ m = n
  BY <1>1, <1>5, PushFrontAdds
<1> HIDE DEF new
<1>9. Len(new) <= ShardCapacity
  BY <1>1, <1>5, <1>8, CapacityIsPositive
<1>10. InStep(lru', entry')
  <2>1. NoDuplicates(lru'[s]) /\ Len(lru'[s]) <= ShardCapacity
    BY <1>3, <1>8, <1>9
  <2>2. \A m \in Names : Occurs(m, lru'[s]) <=> entry'[m] # 0 /\ ShardOf[m] = s
    BY <1>3, <1>4, <1>5, <1>7, <1>8
  <2> QED
    BY ONLY <1>1, <1>3, <1>6, <2>1, <2>2, OneListChanges
<1> QED
  BY <1>1, <1>2, <1>8, <1>10

\* An invalidation takes a claimed path off its list with its entry.
LEMMA ListsAfterClearEntry ==
  ASSUME IInv, NEW v \in Invalidators, NEW n \in Names, ClearEntry(v, n)
  PROVE  lru' \in [ShardIdx -> Seq(Names)] /\ InStep(lru', entry')
<1>1. /\ lru \in [ShardIdx -> Seq(Names)] /\ entry \in [Names -> LayerIdx]
      /\ InStep(lru, entry) /\ entry[n] # 0
  BY DEF IInv, TypeOK, ListsMatchMaps, ClearEntry, Claimed
<1> QED
  BY <1>1, RemoveStaysInStep DEF ClearEntry

-----------------------------------------------------------------------------
(* What steps have in common *)

\* The invariant but for the shards held by stores, which NextKeepsStores has.
CoreInv ==
  /\ TypeOK
  /\ EntriesAreTrue
  /\ CalmResolveIsRight
  /\ ListsMatchMaps
  /\ GenerationsLag
  /\ CopiesAreCurrent
  /\ SeenMissesAreTrue
  /\ LocksHeld
  /\ ClearedBeforeBump
  /\ IndexInRange
  /\ CalmSeesTheLayers

ResolverTypes ==
  /\ rpc \in [Resolvers -> ResolverPlaces]
  /\ snap \in [Resolvers -> [LayerIdx -> Backings]]
  /\ snapGen \in [Resolvers -> Nat]
  /\ cached \in [Resolvers -> LayerIdx]
  /\ idx \in [Resolvers -> 0 .. NumLayers]

\* The part of the invariant that is about the resolvers' locals.
LocalsInv ==
  /\ ResolverTypes
  /\ GenerationsLag
  /\ CopiesAreCurrent
  /\ SeenMissesAreTrue
  /\ IndexInRange
  /\ CalmSeesTheLayers

\* The part that is about the cache and the locks.
CacheInv ==
  /\ EntriesAreTrue
  /\ ListsMatchMaps
  /\ LocksHeld
  /\ ClearedBeforeBump

\* The invariant, by the state its parts are about.
LEMMA IInvGivesParts == IInv => TypeOK /\ LocalsInv /\ CacheInv /\ CalmResolveIsRight
  BY DEF IInv, LocalsInv, CacheInv, ResolverTypes, TypeOK

\* A resolver that has its answer keeps nothing that could be wrong.
LEMMA LeaveKeepsLocals ==
  ASSUME TypeOK, LocalsInv, NEW p \in Resolvers, NEW l \in {"idle", "name"}, Leave(p, l),
         UNCHANGED <<disk, layers, pending, gen, path, calm>>
  PROVE  LocalsInv'
<1>1. /\ rpc' = [rpc EXCEPT ![p] = l]
      /\ snap' = [snap EXCEPT ![p] = NoCopy]
      /\ snapGen' = [snapGen EXCEPT ![p] = 0]
      /\ cached' = [cached EXCEPT ![p] = 0]
      /\ idx' = [idx EXCEPT ![p] = 0]
  BY DEF Leave
<1>2. NoCopy \in [LayerIdx -> Backings] /\ 0 \in LayerIdx /\ 0 \in 0 .. NumLayers
  BY NoCopyIsACopy, NegCacheAssumption DEF LayerIdx
<1>3. ResolverTypes
  BY DEF LocalsInv
<1>4. ResolverTypes'
  BY <1>1, <1>2, <1>3 DEF ResolverTypes, ResolverPlaces
<1>5. /\ rpc'[p] = l /\ idx'[p] = 0 /\ snapGen'[p] = 0
      /\ \A o \in Resolvers : o # p => /\ rpc'[o] = rpc[o] /\ idx'[o] = idx[o]
                                       /\ snap'[o] = snap[o] /\ snapGen'[o] = snapGen[o]
  BY <1>1, <1>3 DEF ResolverTypes
<1>6. /\ GenerationsLag'
      /\ CopiesAreCurrent'
      /\ IndexInRange'
  <2>1. gen \in Nat /\ gen' = gen
    BY DEF TypeOK
  <2>2. GenerationsLag'
    BY <1>5, <2>1 DEF LocalsInv, GenerationsLag
  <2>3. CopiesAreCurrent'
    BY <1>5 DEF LocalsInv, CopiesAreCurrent, Searching
  <2>4. IndexInRange'
    BY <1>5 DEF LocalsInv, IndexInRange
  <2> QED
    BY <2>2, <2>3, <2>4
<1>7. SeenMissesAreTrue'
  BY <1>5 DEF LocalsInv, SeenMissesAreTrue, View, Searching
<1>8. CalmSeesTheLayers'
  BY <1>5 DEF LocalsInv, CalmSeesTheLayers, View, Searching
<1> QED
  BY <1>4, <1>6, <1>7, <1>8 DEF LocalsInv

\* A resolver that goes on keeps what it has.
LEMMA GotoKeepsLocals ==
  ASSUME TypeOK, LocalsInv, NEW p \in Resolvers,
         NEW l \in {"store", "insert", "evicted", "push", "inserted"},
         Goto(p, l), Searching(p), idx[p] \in 1 .. NumLayers - 1,
         UNCHANGED <<disk, layers, pending, gen, path, calm>>
  PROVE  LocalsInv'
<1>1. rpc' = [rpc EXCEPT ![p] = l] /\ UNCHANGED <<snap, snapGen, cached, idx>>
  BY DEF Goto
<1>2. ResolverTypes
  BY DEF LocalsInv
<1>3. ResolverTypes'
  BY <1>1, <1>2 DEF ResolverTypes, ResolverPlaces
<1>4. rpc'[p] = l /\ \A o \in Resolvers : o # p => rpc'[o] = rpc[o]
  BY <1>1, <1>2 DEF ResolverTypes
<1>5. GenerationsLag' /\ CopiesAreCurrent' /\ IndexInRange'
  BY <1>1, <1>4 DEF LocalsInv, GenerationsLag, CopiesAreCurrent, IndexInRange, Searching
<1>6. SeenMissesAreTrue'
  BY <1>1, <1>4 DEF LocalsInv, SeenMissesAreTrue, View, Searching
<1>7. CalmSeesTheLayers'
  BY <1>1, <1>4 DEF LocalsInv, CalmSeesTheLayers, View, Searching
<1> QED
  BY <1>3, <1>5, <1>6, <1>7 DEF LocalsInv

\* The cache part depends on the cache, the layers and the invalidators only.
LEMMA CacheFrame ==
  ASSUME CacheInv,
         UNCHANGED <<disk, layers, pending, entry, lru, shardMu, ipc, target, nextLock>>
  PROVE  CacheInv'
  BY DEF CacheInv, EntriesAreTrue, View, ListsMatchMaps, LocksHeld, ClearedBeforeBump

\* The resolvers' part depends on the resolvers, the layers and the generation.
LEMMA LocalsFrame ==
  ASSUME LocalsInv,
         UNCHANGED <<disk, layers, pending, gen, rpc, path, snap, snapGen, cached,
                     idx, calm>>
  PROVE  LocalsInv'
<1>1. ResolverTypes' /\ GenerationsLag' /\ CopiesAreCurrent' /\ IndexInRange'
  BY DEF LocalsInv, ResolverTypes, GenerationsLag, CopiesAreCurrent, IndexInRange, Searching
<1>2. SeenMissesAreTrue' /\ CalmSeesTheLayers'
  BY DEF LocalsInv, SeenMissesAreTrue, CalmSeesTheLayers, View, Searching
<1> QED
  BY <1>1, <1>2 DEF LocalsInv

\* An answer stays right while no layer changes.
LEMMA AnswersFrame ==
  ASSUME CalmResolveIsRight, UNCHANGED <<disk, layers, path, answer, calm>>
  PROVE  CalmResolveIsRight'
  BY DEF CalmResolveIsRight, Right, View

\* The answer of p may be a new one if it is right.
LEMMA NewAnswer ==
  ASSUME TypeOK, CalmResolveIsRight, NEW p \in Resolvers, NEW a \in Answers,
         answer' = [answer EXCEPT ![p] = a],
         calm[p] => Right(path[p], a),
         UNCHANGED <<disk, layers, path, calm>>
  PROVE  CalmResolveIsRight' /\ answer' \in [Resolvers -> Answers]
<1>1. answer \in [Resolvers -> Answers]
  BY DEF TypeOK
<1>2. answer'[p] = a /\ \A o \in Resolvers : o # p => answer'[o] = answer[o]
  BY <1>1
<1>3. CalmResolveIsRight'
  BY <1>2 DEF CalmResolveIsRight, Right, View
<1> QED
  BY <1>1, <1>3

-----------------------------------------------------------------------------
(* Every step keeps the invariant. *)

\* A file changes: the layers on its backing become pending.
LEMMA ChangeFileKeeps ==
  ASSUME IInv, NEW b \in Backings, NEW n \in Names, NEW st \in FileStates, ChangeFile(b, n, st)
  PROVE  CoreInv'
<1> USE NegCacheAssumption DEF ChangeFile, Disturb, diskVars, cacheVars, lockVars, resVars, invVars, LayerIdx, ShardIdx
<1>1. TypeOK'
  BY DEF IInv, TypeOK, InvalidatorPlaces, FileStates, AllLayers
<1>2. EntriesAreTrue'
  BY DEF IInv, TypeOK, EntriesAreTrue, SeenMissesAreTrue, ClearedBeforeBump, IndexInRange, View, AllLayers, Searching
<1>3. CalmResolveIsRight'
  <2> SUFFICES ASSUME NEW o \in Resolvers, calm'[o], answer'[o] # NoAnswer
               PROVE  Right(path[o], answer[o])'
    BY DEF CalmResolveIsRight
  <2>1. calm[o] /\ \A i \in LayerIdx : layers[i] # b
    BY DEF IInv, TypeOK
  <2>2. \A i \in LayerIdx : View(i, path[o])' = View(i, path[o])
    BY <2>1 DEF IInv, TypeOK, View
  <2> QED
    BY <2>1, <2>2 DEF IInv, TypeOK, CalmResolveIsRight, Right
<1>4. ListsMatchMaps'
  BY DEF IInv, TypeOK, ListsMatchMaps, InStep
<1>5. GenerationsLag'
  BY DEF IInv, TypeOK, GenerationsLag
<1>6. CopiesAreCurrent'
  BY DEF IInv, TypeOK, CopiesAreCurrent, GenerationsLag, AllLayers, Searching
<1>7. SeenMissesAreTrue'
  BY DEF IInv, TypeOK, SeenMissesAreTrue, CopiesAreCurrent, EntriesAreTrue, GenerationsLag, IndexInRange, View, AllLayers, Searching
<1>8. LocksHeld'
  BY DEF IInv, TypeOK, LocksHeld
<1>9. ClearedBeforeBump'
  BY DEF IInv, TypeOK, ClearedBeforeBump, LocksHeld, AllLayers
<1>10. IndexInRange'
  BY DEF IInv, TypeOK, IndexInRange
<1>11. CalmSeesTheLayers'
  BY DEF IInv, TypeOK, CalmSeesTheLayers, EntriesAreTrue, IndexInRange, View, AllLayers, Searching
<1> QED
  BY <1>1, <1>2, <1>3, <1>4, <1>5, <1>6, <1>7, <1>8, <1>9, <1>10, <1>11 DEF CoreInv

\* A resolver copies the layers and the generation.
LEMMA SnapshotKeeps ==
  ASSUME IInv, NEW p \in Resolvers, NEW n \in Names, Snapshot(p, n)
  PROVE  CoreInv'
<1>1. TypeOK /\ LocalsInv /\ CacheInv /\ CalmResolveIsRight
  BY IInvGivesParts
<1>2. /\ rpc[p] = "idle"
      /\ UNCHANGED <<disk, layers, pending, entry, lru, size, gen, mu, shardMu,
                     cached, idx, oldest, ipc, target, nextLock, key>>
  BY DEF Snapshot, diskVars, cacheVars, lockVars, invVars
<1>3. /\ path' \in [Resolvers -> Names] /\ answer' \in [Resolvers -> Answers]
      /\ calm' \in [Resolvers -> BOOLEAN]
  BY <1>1, NoAnswerIsAnAnswer DEF TypeOK, Snapshot
<1>4. ResolverTypes'
  BY <1>1, <1>2 DEF TypeOK, LocalsInv, ResolverTypes, ResolverPlaces, Snapshot
<1>5. TypeOK'
  BY <1>1, <1>2, <1>3, <1>4 DEF TypeOK, ResolverTypes
<1>6. /\ rpc'[p] = "lookup" /\ snap'[p] = layers /\ snapGen'[p] = gen
      /\ answer'[p] = NoAnswer /\ (calm'[p] <=> \A j \in LayerIdx : ~pending[j])
  BY <1>1 DEF TypeOK, Snapshot
<1>7. \A o \in Resolvers : o # p =>
        /\ rpc'[o] = rpc[o] /\ snap'[o] = snap[o] /\ snapGen'[o] = snapGen[o]
        /\ path'[o] = path[o] /\ answer'[o] = answer[o] /\ calm'[o] = calm[o]
  BY <1>1 DEF TypeOK, Snapshot
<1>8. idx[p] = 0 /\ gen \in Nat /\ \A j \in LayerIdx : ~(j < idx[p])
  BY <1>1, <1>2 DEF LocalsInv, IndexInRange, LayerIdx, TypeOK
<1>9. GenerationsLag' /\ CopiesAreCurrent' /\ IndexInRange'
  BY <1>1, <1>2, <1>6, <1>7, <1>8
  DEF LocalsInv, GenerationsLag, CopiesAreCurrent, IndexInRange, Searching
<1>10. SeenMissesAreTrue'
  BY <1>1, <1>2, <1>6, <1>7, <1>8 DEF LocalsInv, SeenMissesAreTrue, View, Searching
<1>11. CalmSeesTheLayers'
  BY <1>1, <1>2, <1>6, <1>7, <1>8 DEF LocalsInv, CalmSeesTheLayers, View, Searching
<1>12. CalmResolveIsRight'
  BY <1>1, <1>2, <1>6, <1>7 DEF CalmResolveIsRight, Right, View
<1>13. CacheInv'
  BY <1>1, <1>2, CacheFrame
<1> QED
  BY <1>4, <1>5, <1>9, <1>10, <1>11, <1>12, <1>13 DEF CoreInv, LocalsInv, CacheInv

\* A resolver believes an entry: it is as true as the misses it would see.
LEMMA LookupKeeps ==
  ASSUME IInv, NEW p \in Resolvers, Lookup(p)
  PROVE  CoreInv'
<1>1. TypeOK /\ LocalsInv /\ CacheInv /\ CalmResolveIsRight
  BY IInvGivesParts
<1>2. /\ rpc[p] = "lookup"
      /\ UNCHANGED <<disk, layers, pending, entry, size, gen, mu, shardMu, path, snap,
                     snapGen, oldest, answer, ipc, target, nextLock, key, calm>>
  BY DEF Lookup, diskVars, lockVars, invVars
<1>3. path[p] \in Names /\ entry[path[p]] \in LayerIdx /\ 0 \in LayerIdx
  BY <1>1, NegCacheAssumption DEF TypeOK, LayerIdx
<1>4. ResolverTypes'
  BY <1>1, <1>2, <1>3, NegCacheAssumption DEF LocalsInv, ResolverTypes, ResolverPlaces, Lookup, LayerIdx
<1>5. lru' \in [ShardIdx -> Seq(Names)] /\ ListsMatchMaps'
  BY ListsAfterLookup DEF ListsMatchMaps
<1>6. TypeOK'
  BY <1>1, <1>2, <1>4, <1>5 DEF TypeOK, ResolverTypes
<1>7. /\ rpc'[p] = "probe" /\ idx'[p] = entry[path[p]]
      /\ \A o \in Resolvers : o # p => rpc'[o] = rpc[o] /\ idx'[o] = idx[o]
  BY <1>1, <1>3, NegCacheAssumption DEF LocalsInv, ResolverTypes, Lookup, LayerIdx
<1>8. \A j \in LayerIdx : j < idx'[p] => View(j, path[p]) = "absent" \/ pending[j]
  BY <1>1, <1>3, <1>7 DEF CacheInv, EntriesAreTrue
<1>9. GenerationsLag' /\ CopiesAreCurrent' /\ IndexInRange'
  <2>1. idx'[p] < NumLayers
    BY <1>3, <1>7, NegCacheAssumption DEF LayerIdx
  <2>2. GenerationsLag' /\ CopiesAreCurrent'
    BY <1>1, <1>2, <1>7 DEF LocalsInv, GenerationsLag, CopiesAreCurrent, Searching
  <2>3. IndexInRange'
    BY <1>1, <1>7, <2>1 DEF LocalsInv, IndexInRange
  <2> QED
    BY <2>2, <2>3
<1>10. SeenMissesAreTrue'
  BY <1>1, <1>2, <1>7, <1>8 DEF LocalsInv, SeenMissesAreTrue, View, Searching
<1>11. CalmSeesTheLayers'
  BY <1>1, <1>2, <1>7, <1>8 DEF LocalsInv, CalmSeesTheLayers, View, Searching
<1>12. CalmResolveIsRight'
  BY <1>1, <1>2, AnswersFrame
<1>13. EntriesAreTrue' /\ LocksHeld' /\ ClearedBeforeBump'
  BY <1>1, <1>2 DEF CacheInv, EntriesAreTrue, LocksHeld, ClearedBeforeBump, View
<1> QED
  BY <1>4, <1>5, <1>6, <1>9, <1>10, <1>11, <1>12, <1>13 DEF CoreInv, LocalsInv

\* A resolver sees one more miss, or has seen the last.
LEMMA ProbeMissKeeps ==
  ASSUME IInv, NEW p \in Resolvers, ProbeMiss(p)
  PROVE  CoreInv'
<1>1. TypeOK /\ LocalsInv /\ CacheInv /\ CalmResolveIsRight
  BY IInvGivesParts
<1>2. /\ rpc[p] = "probe" /\ Probed(p) = "absent"
      /\ UNCHANGED <<disk, layers, pending, entry, lru, size, gen, mu, shardMu,
                     path, oldest, ipc, target, nextLock, key, calm>>
  BY DEF ProbeMiss, vars, diskVars, cacheVars, lockVars, resVars, invVars
<1>3. /\ idx[p] \in LayerIdx
      /\ calm[p] => /\ View(idx[p], path[p]) = "absent"
                    /\ \A j \in LayerIdx : j < idx[p] => View(j, path[p]) = "absent"
  <2>1. idx[p] \in LayerIdx
    BY <1>1, <1>2, NegCacheAssumption DEF LocalsInv, ResolverTypes, IndexInRange, LayerIdx
  <2> QED
    BY <1>1, <1>2, <2>1 DEF LocalsInv, CalmSeesTheLayers, Probed, View, Searching
<1>4. CASE idx[p] + 1 < NumLayers
  <2>1. /\ idx' = [idx EXCEPT ![p] = @ + 1]
        /\ UNCHANGED <<rpc, answer, snap, snapGen, cached>>
    BY <1>3, <1>4, NegCacheAssumption DEF ProbeMiss, LayerIdx
  <2>2. ResolverTypes
    BY <1>1 DEF LocalsInv
  <2>3. /\ idx'[p] = idx[p] + 1
        /\ \A o \in Resolvers : o # p => idx'[o] = idx[o]
    BY <2>1, <2>2 DEF ResolverTypes
  <2>4. ResolverTypes'
    <3>1. idx[p] + 1 \in 0 .. NumLayers
      BY <1>3, <1>4, NegCacheAssumption DEF LayerIdx
    <3> QED
      BY <2>1, <2>2, <3>1 DEF ResolverTypes
  <2>5. GenerationsLag' /\ CopiesAreCurrent'
    BY <1>1, <1>2, <2>1 DEF LocalsInv, GenerationsLag, CopiesAreCurrent, Searching
  <2>6. IndexInRange'
    BY <1>1, <1>2, <1>4, <2>1, <2>3 DEF LocalsInv, IndexInRange
  <2>7. \A j \in LayerIdx : j < idx'[p] <=> j < idx[p] \/ j = idx[p]
    BY <1>3, <2>3 DEF LayerIdx
  <2>8. SeenMissesAreTrue'
    <3>1. snapGen[p] = gen => View(idx[p], path[p]) = "absent" \/ pending[idx[p]]
      BY <1>1, <1>2, <1>3 DEF LocalsInv, CopiesAreCurrent, Probed, View, Searching
    <3> QED
      BY <1>1, <1>2, <2>1, <2>3, <2>7, <3>1 DEF LocalsInv, SeenMissesAreTrue, View, Searching
  <2>9. CalmSeesTheLayers'
    BY <1>1, <1>2, <1>3, <2>1, <2>3, <2>7 DEF LocalsInv, CalmSeesTheLayers, View, Searching
  <2>10. LocalsInv'
    BY <2>4, <2>5, <2>6, <2>8, <2>9 DEF LocalsInv
  <2>11. TypeOK'
    BY <1>1, <1>2, <2>1, <2>10 DEF TypeOK, LocalsInv, ResolverTypes
  <2>12. CacheInv' /\ CalmResolveIsRight'
    BY <1>1, <1>2, <2>1, CacheFrame, AnswersFrame
  <2> QED
    BY <2>10, <2>11, <2>12 DEF CoreInv, LocalsInv, CacheInv
<1>5. CASE idx[p] + 1 = NumLayers
  <2>1. LocalsInv'
    <3>1. Return(p)
      BY <1>3, <1>5, NegCacheAssumption DEF ProbeMiss, LayerIdx
    <3> QED
      BY <1>1, <1>2, <3>1, LeaveKeepsLocals DEF Return
  <2>2. CalmResolveIsRight' /\ answer' \in [Resolvers -> Answers]
    <3> DEFINE a == [out |-> "missing", at |-> NumLayers]
    <3>1. a \in Answers
      BY NegCacheAssumption DEF Answers
    <3>2. calm[p] => Right(path[p], a)
      <4>1. \A j \in LayerIdx : j < NumLayers => j < idx[p] \/ j = idx[p]
        BY <1>3, <1>5, NegCacheAssumption DEF LayerIdx
      <4> QED
        BY <1>3, <4>1 DEF Right
    <3>3. answer' = [answer EXCEPT ![p] = a]
      BY <1>3, <1>5, NegCacheAssumption DEF ProbeMiss, LayerIdx
    <3> HIDE DEF a
    <3> QED
      BY <1>1, <1>2, <3>1, <3>2, <3>3, NewAnswer
  <2>3. TypeOK'
    BY <1>1, <1>2, <2>1, <2>2 DEF TypeOK, LocalsInv, ResolverTypes
  <2>4. CacheInv'
    BY <1>1, <1>2, CacheFrame
  <2> QED
    BY <2>1, <2>2, <2>3, <2>4 DEF CoreInv, LocalsInv, CacheInv
<1> QED
  BY <1>4, <1>5 DEF ProbeMiss

\* A resolver stops at a layer that fails.
LEMMA ProbeErrorKeeps ==
  ASSUME IInv, NEW p \in Resolvers, ProbeError(p)
  PROVE  CoreInv'
<1>1. TypeOK /\ LocalsInv /\ CacheInv /\ CalmResolveIsRight
  BY IInvGivesParts
<1>2. /\ rpc[p] = "probe" /\ Probed(p) = "blocked"
      /\ UNCHANGED <<disk, layers, pending, entry, lru, size, gen, mu, shardMu,
                     path, oldest, ipc, target, nextLock, key, calm>>
  BY DEF ProbeError, vars, diskVars, cacheVars, lockVars, resVars, invVars
<1>3. /\ idx[p] \in LayerIdx
      /\ calm[p] => /\ View(idx[p], path[p]) = "blocked"
                    /\ \A j \in LayerIdx : j < idx[p] => View(j, path[p]) = "absent"
  <2>1. idx[p] \in LayerIdx
    BY <1>1, <1>2, NegCacheAssumption DEF LocalsInv, ResolverTypes, IndexInRange, LayerIdx
  <2> QED
    BY <1>1, <1>2, <2>1 DEF LocalsInv, CalmSeesTheLayers, Probed, View, Searching
<1>4. LocalsInv'
  BY <1>1, <1>2, LeaveKeepsLocals DEF ProbeError, Return
<1>5. CalmResolveIsRight' /\ answer' \in [Resolvers -> Answers]
  <2> DEFINE a == [out |-> "failed", at |-> idx[p]]
  <2>1. a \in Answers
    BY <1>3, NegCacheAssumption DEF Answers, LayerIdx
  <2>2. calm[p] => Right(path[p], a)
    BY <1>3 DEF Right
  <2>3. answer' = [answer EXCEPT ![p] = a]
    BY DEF ProbeError
  <2> HIDE DEF a
  <2> QED
    BY <1>1, <1>2, <2>1, <2>2, <2>3, NewAnswer
<1>6. TypeOK'
  BY <1>1, <1>2, <1>4, <1>5 DEF TypeOK, LocalsInv, ResolverTypes
<1>7. CacheInv'
  BY <1>1, <1>2, CacheFrame
<1> QED
  BY <1>4, <1>5, <1>6, <1>7 DEF CoreInv, LocalsInv, CacheInv

\* A resolver finds the file.
LEMMA ProbeHitKeeps ==
  ASSUME IInv, NEW p \in Resolvers, ProbeHit(p)
  PROVE  CoreInv'
<1>1. TypeOK /\ LocalsInv /\ CacheInv /\ CalmResolveIsRight
  BY IInvGivesParts
<1>2. /\ rpc[p] = "probe" /\ Probed(p) = "present"
      /\ UNCHANGED <<disk, layers, pending, entry, lru, size, gen, mu, shardMu,
                     path, oldest, ipc, target, nextLock, key, calm>>
  BY DEF ProbeHit, vars, diskVars, cacheVars, lockVars, resVars, invVars
<1>3. /\ idx[p] \in LayerIdx
      /\ calm[p] => /\ View(idx[p], path[p]) = "present"
                    /\ \A j \in LayerIdx : j < idx[p] => View(j, path[p]) = "absent"
  <2>1. idx[p] \in LayerIdx
    BY <1>1, <1>2, NegCacheAssumption DEF LocalsInv, ResolverTypes, IndexInRange, LayerIdx
  <2> QED
    BY <1>1, <1>2, <2>1 DEF LocalsInv, CalmSeesTheLayers, Probed, View, Searching
<1>4. LocalsInv'
  <2>1. CASE Served(p)
    BY <1>1, <1>2, <2>1, LeaveKeepsLocals DEF Served
  <2>2. CASE idx[p] > 0 /\ Goto(p, "store")
    <3>1. idx[p] \in 1 .. NumLayers - 1
      BY <1>3, <2>2, NegCacheAssumption DEF LayerIdx
    <3> QED
      BY <1>1, <1>2, <2>2, <3>1, GotoKeepsLocals DEF Searching
  <2> QED
    BY <2>1, <2>2 DEF ProbeHit
<1>5. CalmResolveIsRight' /\ answer' \in [Resolvers -> Answers]
  <2> DEFINE a == [out |-> "served", at |-> idx[p]]
  <2>1. a \in Answers
    BY <1>3, NegCacheAssumption DEF Answers, LayerIdx
  <2>2. calm[p] => Right(path[p], a)
    BY <1>3 DEF Right
  <2>3. answer' = [answer EXCEPT ![p] = a]
    BY DEF ProbeHit
  <2> HIDE DEF a
  <2> QED
    BY <1>1, <1>2, <2>1, <2>2, <2>3, NewAnswer
<1>6. TypeOK'
  BY <1>1, <1>2, <1>4, <1>5 DEF TypeOK, LocalsInv, ResolverTypes
<1>7. CacheInv'
  BY <1>1, <1>2, CacheFrame
<1> QED
  BY <1>4, <1>5, <1>6, <1>7 DEF CoreInv, LocalsInv, CacheInv

\* The first look at the generation decides nothing that lasts.
LEMMA StoreCheckKeeps ==
  ASSUME IInv, NEW p \in Resolvers, StoreCheck(p)
  PROVE  CoreInv'
<1>1. TypeOK /\ LocalsInv /\ CacheInv /\ CalmResolveIsRight
  BY IInvGivesParts
<1>2. UNCHANGED <<disk, layers, pending, entry, lru, size, gen, mu, shardMu, path,
                  oldest, answer, ipc, target, nextLock, key, calm>>
  BY DEF StoreCheck, vars, diskVars, cacheVars, lockVars, resVars, invVars
<1>3. LocalsInv'
  <2>1. CASE Served(p)
    BY <1>1, <1>2, <2>1, LeaveKeepsLocals DEF Served
  <2>2. CASE Goto(p, "insert")
    BY <1>1, <1>2, <2>2, GotoKeepsLocals DEF StoreCheck, LocalsInv, IndexInRange, Searching
  <2> QED
    BY <2>1, <2>2 DEF StoreCheck
<1>4. TypeOK'
  BY <1>1, <1>2, <1>3 DEF TypeOK, LocalsInv, ResolverTypes
<1>5. CacheInv' /\ CalmResolveIsRight'
  BY <1>1, <1>2, CacheFrame, AnswersFrame
<1> QED
  BY <1>3, <1>4, <1>5 DEF CoreInv, LocalsInv, CacheInv

\* A store that comes too late changes nothing.
LEMMA StoreStaleKeeps ==
  ASSUME IInv, NEW p \in Resolvers, StoreStale(p)
  PROVE  CoreInv'
<1>1. TypeOK /\ LocalsInv /\ CacheInv /\ CalmResolveIsRight
  BY IInvGivesParts
<1>2. UNCHANGED <<disk, layers, pending, entry, lru, size, gen, mu, shardMu, path,
                  oldest, answer, ipc, target, nextLock, key, calm>>
  BY DEF StoreStale, vars, diskVars, cacheVars, lockVars, resVars, invVars
<1>3. LocalsInv'
  BY <1>1, <1>2, LeaveKeepsLocals DEF StoreStale, Served
<1>4. TypeOK'
  BY <1>1, <1>2, <1>3 DEF TypeOK, LocalsInv, ResolverTypes
<1>5. CacheInv' /\ CalmResolveIsRight'
  BY <1>1, <1>2, CacheFrame, AnswersFrame
<1> QED
  BY <1>3, <1>4, <1>5 DEF CoreInv, LocalsInv, CacheInv

\* A store under the current generation overwrites an entry: no shard is locked,
\* so no invalidation is between its clearing and its bump.
LEMMA StoreUpdateKeeps ==
  ASSUME IInv, NEW p \in Resolvers, StoreUpdate(p)
  PROVE  CoreInv'
<1>1. TypeOK /\ LocalsInv /\ CacheInv /\ CalmResolveIsRight
  BY IInvGivesParts
<1>2. /\ rpc[p] = "insert" /\ shardMu[ShardOf[path[p]]] = Nobody /\ gen = snapGen[p]
      /\ UNCHANGED <<disk, layers, pending, gen, mu, shardMu, path, oldest, answer, ipc,
                     target, nextLock, key, calm>>
  BY DEF StoreUpdate, Fresh, vars, diskVars, cacheVars, lockVars, resVars, invVars
<1>3. idx[p] \in LayerIdx /\ idx[p] # 0 /\ path[p] \in Names /\ ShardOf[path[p]] \in ShardIdx
  BY <1>1, <1>2, NegCacheAssumption DEF LocalsInv, IndexInRange, LayerIdx, TypeOK
<1>4. LocalsInv'
  BY <1>1, <1>2, LeaveKeepsLocals DEF StoreUpdate, Served
<1>5. /\ entry' \in [Names -> LayerIdx] /\ size' \in Int
      /\ \A m \in Names : entry'[m] = IF m = path[p] THEN idx[p] ELSE entry[m]
  BY <1>1, <1>3 DEF TypeOK, StoreUpdate, Learned
<1>6. lru' \in [ShardIdx -> Seq(Names)] /\ ListsMatchMaps'
  BY ListsAfterUpdate DEF ListsMatchMaps
<1>7. TypeOK'
  BY <1>1, <1>2, <1>4, <1>5, <1>6 DEF TypeOK, LocalsInv, ResolverTypes
<1>8. EntriesAreTrue'
  BY <1>1, <1>2, <1>3, <1>5 DEF CacheInv, LocalsInv, EntriesAreTrue, SeenMissesAreTrue, View, Searching
<1>9. LocksHeld'
  BY <1>1, <1>2 DEF CacheInv, LocksHeld
<1>10. ClearedBeforeBump'
  <2>1. \A v \in Invalidators : ipc[v] # "bump" /\ ipc[v] # "zero"
    BY <1>1, <1>2, <1>3, NegCacheAssumption DEF CacheInv, LocksHeld
  <2> QED
    BY <1>2, <2>1 DEF ClearedBeforeBump
<1>11. CalmResolveIsRight'
  BY <1>1, <1>2, AnswersFrame
<1> QED
  BY <1>4, <1>6, <1>7, <1>8, <1>9, <1>10, <1>11 DEF CoreInv, LocalsInv

\* An eviction drops an entry: claims are only taken back.
LEMMA EvictOldestKeeps ==
  ASSUME IInv, NEW p \in Resolvers, EvictOldest(p)
  PROVE  CoreInv'
<1> DEFINE last == lru[ShardOf[path[p]]][Len(lru[ShardOf[path[p]]])]
<1>1. TypeOK /\ LocalsInv /\ CacheInv /\ CalmResolveIsRight
  BY IInvGivesParts
<1>2. /\ rpc[p] = "insert" /\ shardMu[ShardOf[path[p]]] = Nobody
      /\ UNCHANGED <<disk, layers, pending, size, gen, mu, path, answer, ipc,
                     target, nextLock, key, calm>>
      /\ shardMu' = [shardMu EXCEPT ![ShardOf[path[p]]] = p]
      /\ oldest' = [oldest EXCEPT ![p] = last]
      /\ entry' = [entry EXCEPT ![last] = 0]
      /\ Goto(p, "evicted")
  BY Zenon DEF EvictOldest, diskVars, invVars
<1>3. /\ lru' \in [ShardIdx -> Seq(Names)] /\ ListsMatchMaps'
      /\ last \in Names
  BY ListsAfterEvict DEF ListsMatchMaps
<1> HIDE DEF last
<1>4. LocalsInv'
  <2>1. idx[p] \in 1 .. NumLayers - 1 /\ Searching(p)
    BY <1>1, <1>2 DEF LocalsInv, IndexInRange, Searching
  <2> QED
    BY <1>1, <1>2, <2>1, GotoKeepsLocals
<1>5. /\ entry' \in [Names -> LayerIdx]
      /\ \A m \in Names : entry'[m] = entry[m] \/ entry'[m] = 0
  <2>1. entry \in [Names -> LayerIdx] /\ entry' = [entry EXCEPT ![last] = 0] /\ 0 \in LayerIdx
    BY <1>1, <1>2, NegCacheAssumption DEF TypeOK, LayerIdx
  <2> QED
    BY <2>1
<1>6. TypeOK'
  <2>1. /\ shardMu' \in [ShardIdx -> Resolvers \cup Invalidators \cup {Nobody}]
        /\ oldest' \in [Resolvers -> Names]
    BY <1>1, <1>2, <1>3 DEF TypeOK
  <2> QED
    BY <1>1, <1>2, <1>3, <1>4, <1>5, <2>1 DEF TypeOK, LocalsInv, ResolverTypes
<1>7. EntriesAreTrue'
  <2>1. \A j \in LayerIdx : ~(j < 0)
    BY DEF LayerIdx
  <2> QED
    BY <1>1, <1>2, <1>5, <2>1 DEF CacheInv, EntriesAreTrue, View
<1>8. LocksHeld'
  BY <1>1, <1>2, NegCacheAssumption DEF CacheInv, LocksHeld, TypeOK
<1>9. ClearedBeforeBump'
  BY <1>1, <1>2, <1>5 DEF CacheInv, ClearedBeforeBump
<1>10. CalmResolveIsRight'
  BY <1>1, <1>2, AnswersFrame
<1> QED
  BY <1>3, <1>4, <1>6, <1>7, <1>8, <1>9, <1>10 DEF CoreInv, LocalsInv

\* The counter is no part of the invariant.
LEMMA CountEvictionKeeps ==
  ASSUME IInv, NEW p \in Resolvers, CountEviction(p)
  PROVE  CoreInv'
<1>1. TypeOK /\ LocalsInv /\ CacheInv /\ CalmResolveIsRight
  BY IInvGivesParts
<1>2. /\ rpc[p] = "evicted"
      /\ UNCHANGED <<disk, layers, pending, entry, lru, gen, mu, shardMu, path, answer,
                     ipc, target, nextLock, key, calm>>
      /\ oldest' = [oldest EXCEPT ![p] = NoName] /\ size' = size - 1
      /\ Goto(p, "push")
  BY DEF CountEviction, Dropped, diskVars, lockVars, invVars
<1>3. LocalsInv'
  <2>1. idx[p] \in 1 .. NumLayers - 1 /\ Searching(p)
    BY <1>1, <1>2 DEF LocalsInv, IndexInRange, Searching
  <2> QED
    BY <1>1, <1>2, <2>1, GotoKeepsLocals
<1>4. TypeOK'
  <2>1. oldest' \in [Resolvers -> Names] /\ size' \in Int
    BY <1>1, <1>2, NoNameIsAName DEF TypeOK
  <2> QED
    BY <1>1, <1>2, <1>3, <2>1 DEF TypeOK, LocalsInv, ResolverTypes
<1>5. CacheInv' /\ CalmResolveIsRight'
  BY <1>1, <1>2, CacheFrame, AnswersFrame
<1> QED
  BY <1>3, <1>4, <1>5 DEF CoreInv, LocalsInv, CacheInv

\* An insert under the current generation: what it claims, the resolver has seen.
LEMMA InsertKeeps ==
  ASSUME IInv, NEW p \in Resolvers, Insert(p)
  PROVE  CoreInv'
<1>1. TypeOK /\ LocalsInv /\ CacheInv /\ CalmResolveIsRight
  BY IInvGivesParts
<1>2. /\ rpc[p] \in {"insert", "push"}
      /\ UNCHANGED <<disk, layers, pending, size, gen, mu, path, oldest, answer, ipc,
                     target, nextLock, key, calm>>
      /\ shardMu' = [shardMu EXCEPT ![ShardOf[path[p]]] = p]
      /\ entry' = [entry EXCEPT ![path[p]] = idx[p]]
      /\ Goto(p, "inserted")
  BY DEF Insert, Learned, diskVars, invVars
<1>3. idx[p] \in 1 .. NumLayers - 1 /\ idx[p] \in LayerIdx /\ path[p] \in Names /\ Searching(p)
  BY <1>1, <1>2, NegCacheAssumption DEF LocalsInv, IndexInRange, LayerIdx, TypeOK, Searching
<1>4. gen = snapGen[p] /\ \A v \in Invalidators : ipc[v] \in {"idle", "lock"}
  BY InsertHasRoom DEF Fresh
<1>5. LocalsInv'
  BY <1>1, <1>2, <1>3, GotoKeepsLocals
<1>6. /\ entry' \in [Names -> LayerIdx] /\ entry'[path[p]] = idx[p]
      /\ \A m \in Names : m # path[p] => entry'[m] = entry[m]
  BY <1>1, <1>2, <1>3 DEF TypeOK
<1>7. lru' \in [ShardIdx -> Seq(Names)] /\ ListsMatchMaps'
  BY ListsAfterInsert DEF ListsMatchMaps
<1>8. TypeOK'
  <2>1. shardMu' \in [ShardIdx -> Resolvers \cup Invalidators \cup {Nobody}]
    BY <1>1, <1>2 DEF TypeOK
  <2> QED
    BY <1>1, <1>2, <1>5, <1>6, <1>7, <2>1 DEF TypeOK, LocalsInv, ResolverTypes
<1>9. EntriesAreTrue'
  BY <1>1, <1>2, <1>3, <1>4, <1>6
  DEF CacheInv, LocalsInv, EntriesAreTrue, SeenMissesAreTrue, View
<1>10. LocksHeld' /\ ClearedBeforeBump'
  <2>1. ASSUME NEW v \in Invalidators
        PROVE  /\ ipc'[v] = "idle" => nextLock'[v] = 0
               /\ ipc'[v] = "lock" => /\ nextLock'[v] < NumShards
                                      /\ \A s \in ShardIdx : s < nextLock'[v] => shardMu'[s] = v
    <3>1. ipc[v] = "lock" => \A s \in ShardIdx : s < nextLock[v] => shardMu[s] = v
      BY <1>1 DEF CacheInv, LocksHeld
    <3>2. shardMu[ShardOf[path[p]]] # v
      BY InsertHoldsOrTakes, NegCacheAssumption
    <3>3. ipc[v] = "lock" => \A s \in ShardIdx : s < nextLock[v] => shardMu'[s] = v
      BY <1>1, <1>2, <3>1, <3>2 DEF TypeOK
    <3> QED
      BY <1>1, <1>2, <3>3 DEF CacheInv, LocksHeld
  <2>2. \A v \in Invalidators : ipc'[v] \in {"idle", "lock"}
    BY <1>2, <1>4
  <2> QED
    BY <2>1, <2>2 DEF LocksHeld, ClearedBeforeBump
<1>11. CalmResolveIsRight'
  BY <1>1, <1>2, AnswersFrame
<1> QED
  BY <1>5, <1>7, <1>8, <1>9, <1>10, <1>11 DEF CoreInv, LocalsInv

\* The store gives its shard back.
LEMMA CountInsertKeeps ==
  ASSUME IInv, NEW p \in Resolvers, CountInsert(p)
  PROVE  CoreInv'
<1>1. TypeOK /\ LocalsInv /\ CacheInv /\ CalmResolveIsRight
  BY IInvGivesParts
<1>2. /\ rpc[p] = "inserted"
      /\ UNCHANGED <<disk, layers, pending, entry, lru, gen, mu, path, oldest, answer,
                     ipc, target, nextLock, key, calm>>
      /\ shardMu' = [shardMu EXCEPT ![ShardOf[path[p]]] = Nobody]
      /\ size' = size + 1 /\ Leave(p, "name")
  BY DEF CountInsert, Served, diskVars, invVars
<1>3. LocalsInv'
  BY <1>1, <1>2, LeaveKeepsLocals
<1>4. TypeOK'
  <2>1. /\ shardMu' \in [ShardIdx -> Resolvers \cup Invalidators \cup {Nobody}]
        /\ size' \in Int
    <3>1. shardMu \in [ShardIdx -> Resolvers \cup Invalidators \cup {Nobody}] /\ size \in Int
      BY <1>1 DEF TypeOK
    <3>2. size' = size + 1 /\ shardMu' = [shardMu EXCEPT ![ShardOf[path[p]]] = Nobody]
      BY <1>2
    <3>3. size' \in Int
      BY <3>1, <3>2
    <3>4. shardMu' \in [ShardIdx -> Resolvers \cup Invalidators \cup {Nobody}]
      BY ONLY <3>1, <3>2
    <3> QED
      BY <3>3, <3>4
  <2> QED
    BY <1>1, <1>2, <1>3, <2>1 DEF TypeOK, LocalsInv, ResolverTypes
<1>5. shardMu[ShardOf[path[p]]] = p /\ p \notin Invalidators
  BY <1>2, NegCacheAssumption DEF IInv, StoresHoldTheirShard
<1>6. \A v \in Invalidators, s \in ShardIdx : shardMu[s] = v => shardMu'[s] = v
  BY <1>1, <1>2, <1>5 DEF TypeOK
<1>7. LocksHeld'
  BY <1>1, <1>2, <1>6 DEF CacheInv, LocksHeld
<1>8. EntriesAreTrue' /\ ListsMatchMaps' /\ ClearedBeforeBump'
  BY <1>1, <1>2 DEF CacheInv, EntriesAreTrue, View, ListsMatchMaps, ClearedBeforeBump
<1>9. CalmResolveIsRight'
  BY <1>1, <1>2, AnswersFrame
<1> QED
  BY <1>3, <1>4, <1>7, <1>8, <1>9 DEF CoreInv, LocalsInv

\* A resolver that has its answer asks for a name and returns.
LEMMA NameLayerKeeps ==
  ASSUME IInv, NEW p \in Resolvers, NameLayer(p)
  PROVE  CoreInv'
<1>1. TypeOK /\ LocalsInv /\ CacheInv /\ CalmResolveIsRight
  BY IInvGivesParts
<1>2. /\ rpc[p] = "name" /\ rpc' = [rpc EXCEPT ![p] = "idle"]
      /\ UNCHANGED <<disk, layers, pending, entry, lru, size, gen, mu, shardMu>>
      /\ UNCHANGED <<path, snap, snapGen, cached, idx, oldest, answer, calm>>
      /\ UNCHANGED <<ipc, target, nextLock, key>>
  BY DEF NameLayer, diskVars, cacheVars, lockVars, invVars
<1>3. /\ rpc' \in [Resolvers -> ResolverPlaces] /\ rpc'[p] = "idle"
      /\ \A o \in Resolvers : o # p => rpc'[o] = rpc[o]
  BY <1>1, <1>2 DEF TypeOK, ResolverPlaces
<1>4. LocalsInv'
  <2>1. ResolverTypes' /\ GenerationsLag'
    BY <1>1, <1>2, <1>3 DEF LocalsInv, ResolverTypes, GenerationsLag
  <2>2. CopiesAreCurrent' /\ IndexInRange'
    BY <1>1, <1>2, <1>3 DEF LocalsInv, CopiesAreCurrent, IndexInRange, Searching
  <2>3. SeenMissesAreTrue'
    BY <1>1, <1>2, <1>3 DEF LocalsInv, SeenMissesAreTrue, Searching, View
  <2>4. CalmSeesTheLayers'
    BY <1>1, <1>2, <1>3 DEF LocalsInv, CalmSeesTheLayers, Searching, View
  <2> QED
    BY <2>1, <2>2, <2>3, <2>4 DEF LocalsInv
<1>5. TypeOK'
  BY <1>1, <1>2, <1>3 DEF TypeOK
<1>6. CacheInv' /\ CalmResolveIsRight'
  BY <1>1, <1>2, CacheFrame, AnswersFrame
<1> QED
  BY <1>4, <1>5, <1>6 DEF CoreInv, LocalsInv, CacheInv

\* An invalidator that starts has its first shard to lock before it.
LEMMA StartKeepsLocks ==
  ASSUME TypeOK, LocksHeld, ClearedBeforeBump, NEW v \in Invalidators, ipc[v] = "idle",
         ipc' = [ipc EXCEPT ![v] = "lock"], NEW t, target' = [target EXCEPT ![v] = t],
         UNCHANGED <<shardMu, nextLock, entry>>
  PROVE  LocksHeld' /\ ClearedBeforeBump'
<1>1. /\ ipc'[v] = "lock" /\ nextLock'[v] = 0
      /\ \A w \in Invalidators : w # v => ipc'[w] = ipc[w] /\ target'[w] = target[w]
  BY DEF TypeOK, LocksHeld
<1>2. LocksHeld'
  <2>1. ASSUME NEW w \in Invalidators, w # v
        PROVE  ipc'[w] = ipc[w] /\ nextLock'[w] = nextLock[w]
    BY <1>1, <2>1
  <2>2. \A s \in ShardIdx : ~(s < 0)
    BY DEF ShardIdx
  <2>3. 0 < NumShards
    BY NegCacheAssumption
  <2> QED
    BY <1>1, <2>1, <2>2, <2>3 DEF LocksHeld
<1>3. ClearedBeforeBump'
  BY <1>1 DEF ClearedBeforeBump
<1> QED
  BY <1>2, <1>3

\* An invalidator that has every shard keeps them as it goes on.
LEMMA GoOnKeepsLocks ==
  ASSUME TypeOK, LocksHeld, NEW v \in Invalidators, ipc[v] \notin {"idle", "lock"},
         NEW l \in {"clear", "uncount", "zero", "bump", "unlock"},
         ipc' = [ipc EXCEPT ![v] = l], UNCHANGED <<shardMu, nextLock>>
  PROVE  /\ LocksHeld' /\ ipc' \in [Invalidators -> InvalidatorPlaces]
         /\ ipc'[v] = l /\ \A w \in Invalidators : w # v => ipc'[w] = ipc[w]
<1>1. ipc \in [Invalidators -> InvalidatorPlaces]
  BY DEF TypeOK
<1>2. l \in InvalidatorPlaces /\ l # "idle" /\ l # "lock"
  BY DEF InvalidatorPlaces
<1>3. /\ ipc' \in [Invalidators -> InvalidatorPlaces]
      /\ ipc'[v] = l /\ \A w \in Invalidators : w # v => ipc'[w] = ipc[w]
  BY <1>1, <1>2
<1>4. \A s \in ShardIdx : shardMu[s] = v
  BY DEF LocksHeld
<1> QED
  BY <1>2, <1>3, <1>4 DEF LocksHeld

\* An invalidator that has every shard is alone in that: what the others have
\* cleared is not in question.
LEMMA GoOnKeepsCleared ==
  ASSUME IInv, NEW v \in Invalidators, ipc[v] \notin {"idle", "lock"},
         \A w \in Invalidators : w # v => ipc'[w] = ipc[w],
         ipc'[v] = "zero" => \A n \in Names : entry'[n] = 0,
         ipc'[v] = "bump" => \A n \in Names : entry'[n] # 0 => entry'[n] < target'[v]
  PROVE  ClearedBeforeBump'
<1>1. ASSUME NEW w \in Invalidators, w # v
      PROVE  ipc[w] \in {"idle", "lock"}
  <2>1. 0 \in ShardIdx
    BY NegCacheAssumption DEF ShardIdx
  <2>2. shardMu[0] = v
    BY <2>1 DEF IInv, LocksHeld
  <2> QED
    BY <1>1, <2>1, <2>2 DEF IInv, LocksHeld
<1>2. \A w \in Invalidators : w # v => ipc'[w] # "zero" /\ ipc'[w] # "bump"
  BY <1>1
<1> QED
  BY <1>2 DEF ClearedBeforeBump

\* An invalidation of one layer begins.
LEMMA InvalidateLayerKeeps ==
  ASSUME IInv, NEW v \in Invalidators, NEW j \in LayerIdx, InvalidateLayer(v, j)
  PROVE  CoreInv'
<1> USE NegCacheAssumption DEF InvalidateLayer, StartInvalidate, diskVars, cacheVars, lockVars, resVars, invVars, LayerIdx, ShardIdx
<1>1. TypeOK'
  BY DEF IInv, TypeOK, InvalidatorPlaces, FileStates, AllLayers
<1>2. EntriesAreTrue'
  BY DEF IInv, TypeOK, EntriesAreTrue, View
<1>3. CalmResolveIsRight'
  BY AnswersFrame DEF IInv
<1>4. ListsMatchMaps'
  BY DEF IInv, TypeOK, ListsMatchMaps, InStep
<1>5. LocalsInv'
  BY LocalsFrame, IInvGivesParts
<1>6. LocksHeld' /\ ClearedBeforeBump'
  BY StartKeepsLocks DEF IInv
<1> QED
  BY <1>1, <1>2, <1>3, <1>4, <1>5, <1>6 DEF CoreInv, LocalsInv

\* An invalidation of every layer begins.
LEMMA InvalidateAllKeeps ==
  ASSUME IInv, NEW v \in Invalidators, InvalidateAll(v)
  PROVE  CoreInv'
<1> USE NegCacheAssumption DEF InvalidateAll, StartInvalidate, diskVars, cacheVars, lockVars, resVars, invVars, LayerIdx, ShardIdx
<1>1. TypeOK'
  BY DEF IInv, TypeOK, InvalidatorPlaces, FileStates, AllLayers
<1>2. EntriesAreTrue'
  BY DEF IInv, TypeOK, EntriesAreTrue, View
<1>3. CalmResolveIsRight'
  BY AnswersFrame DEF IInv
<1>4. ListsMatchMaps'
  BY DEF IInv, TypeOK, ListsMatchMaps, InStep
<1>5. LocalsInv'
  BY LocalsFrame, IInvGivesParts
<1>6. LocksHeld' /\ ClearedBeforeBump'
  BY StartKeepsLocks DEF IInv
<1> QED
  BY <1>1, <1>2, <1>3, <1>4, <1>5, <1>6 DEF CoreInv, LocalsInv

\* A layer is replaced and its invalidation begins.
LEMMA ReplaceLayerKeeps ==
  ASSUME IInv, NEW v \in Invalidators, NEW j \in LayerIdx, NEW b \in Backings, ReplaceLayer(v, j, b)
  PROVE  CoreInv'
<1> USE NegCacheAssumption DEF ReplaceLayer, StartInvalidate, Disturb, diskVars, cacheVars, lockVars, resVars, invVars, LayerIdx, ShardIdx
<1>1. TypeOK'
  BY DEF IInv, TypeOK, InvalidatorPlaces, FileStates, AllLayers
<1>2. EntriesAreTrue'
  BY DEF IInv, TypeOK, EntriesAreTrue, SeenMissesAreTrue, ClearedBeforeBump, IndexInRange, View, AllLayers, Searching
<1>3. CalmResolveIsRight'
  BY DEF IInv, TypeOK, CalmResolveIsRight, CalmSeesTheLayers, IndexInRange, View, Right, Searching
<1>4. ListsMatchMaps'
  BY DEF IInv, TypeOK, ListsMatchMaps, InStep
<1>5. GenerationsLag'
  BY DEF IInv, TypeOK, GenerationsLag
<1>6. CopiesAreCurrent'
  BY DEF IInv, TypeOK, CopiesAreCurrent, GenerationsLag, AllLayers, Searching
<1>7. SeenMissesAreTrue'
  BY DEF IInv, TypeOK, SeenMissesAreTrue, CopiesAreCurrent, EntriesAreTrue, GenerationsLag, IndexInRange, View, AllLayers, Searching
<1>8. LocksHeld' /\ ClearedBeforeBump'
  BY StartKeepsLocks DEF IInv
<1>10. IndexInRange'
  BY DEF IInv, TypeOK, IndexInRange
<1>11. CalmSeesTheLayers'
  BY DEF IInv, TypeOK, CalmSeesTheLayers, EntriesAreTrue, IndexInRange, View, AllLayers, Searching
<1> QED
  BY <1>1, <1>2, <1>3, <1>4, <1>5, <1>6, <1>7, <1>8, <1>10, <1>11 DEF CoreInv

\* An invalidation takes one more shard.
LEMMA LockShardKeeps ==
  ASSUME IInv, NEW v \in Invalidators, LockShard(v)
  PROVE  CoreInv'
<1> USE NegCacheAssumption DEF LockShard, ShardToLock, diskVars, cacheVars, lockVars, resVars, invVars, LayerIdx, ShardIdx
<1>1. TypeOK'
  <2>0. TypeOK /\ nextLock[v] \in ShardIdx
    <3>1. TypeOK /\ LocksHeld
      BY DEF IInv
    <3>2. nextLock[v] \in ShardIdx
      BY <3>1 DEF TypeOK, LocksHeld
    <3> QED
      BY <3>1, <3>2
  <2>1. shardMu' \in [ShardIdx -> Resolvers \cup Invalidators \cup {Nobody}]
    BY <2>0 DEF TypeOK
  <2>2. nextLock' \in [Invalidators -> 0 .. NumShards]
    <3>1. nextLock \in [Invalidators -> 0 .. NumShards]
      BY <2>0 DEF TypeOK
    <3>2. nextLock' = [nextLock EXCEPT ![v] = nextLock[v] + 1]
      OBVIOUS
    <3>3. NumShards \in Nat /\ nextLock[v] \in 0 .. NumShards - 1
      BY <2>0
    <3>4. nextLock[v] + 1 \in 0 .. NumShards
      BY <3>3
    <3> QED
      BY <3>1, <3>2, <3>4
  <2>3. ipc' \in [Invalidators -> InvalidatorPlaces]
    BY <2>0 DEF TypeOK, InvalidatorPlaces
  <2> QED
    BY <2>0, <2>1, <2>2, <2>3 DEF TypeOK
<1>2. EntriesAreTrue'
  BY DEF IInv, TypeOK, EntriesAreTrue, View
<1>3. CalmResolveIsRight'
  BY AnswersFrame DEF IInv
<1>4. ListsMatchMaps'
  BY DEF IInv, TypeOK, ListsMatchMaps, InStep
<1>5. LocalsInv'
  BY LocalsFrame, IInvGivesParts
<1>6. LocksHeld'
  <2>0. TypeOK /\ LocksHeld /\ nextLock[v] \in ShardIdx
    <3>1. TypeOK /\ LocksHeld
      BY DEF IInv
    <3>2. nextLock[v] \in 0 .. NumShards /\ nextLock[v] < NumShards
      BY <3>1 DEF TypeOK, LocksHeld
    <3> QED
      BY <3>1, <3>2
  <2>1. \A s \in ShardIdx : s # nextLock[v] => shardMu'[s] = shardMu[s]
    BY <2>0 DEF TypeOK
  <2>2. shardMu'[nextLock[v]] = v /\ shardMu[nextLock[v]] = Nobody
    BY <2>0 DEF TypeOK
  <2>3. ASSUME NEW w \in Invalidators, w # v
        PROVE  /\ ipc'[w] = ipc[w] /\ nextLock'[w] = nextLock[w]
               /\ ipc[w] = "lock" => \A s \in ShardIdx : s < nextLock[w] => shardMu'[s] = w
               /\ ipc[w] \notin {"idle", "lock"} => \A s \in ShardIdx : shardMu'[s] = w
    <3>1. ipc'[w] = ipc[w] /\ nextLock'[w] = nextLock[w]
      BY <2>0, <2>3 DEF TypeOK
    <3>2. w # Nobody /\ shardMu[nextLock[v]] # w
      BY <2>2
    <3>3. \A s \in ShardIdx : shardMu[s] = w => shardMu'[s] = w
      BY <2>1, <3>2
    <3> QED
      BY <2>0, <3>1, <3>3 DEF LocksHeld
  <2>4. \A s \in ShardIdx : s < nextLock[v] + 1 => shardMu'[s] = v
    BY <2>0, <2>1, <2>2 DEF TypeOK, LocksHeld
  <2>5. nextLock'[v] = nextLock[v] + 1
    BY <2>0 DEF TypeOK
  <2>6. CASE nextLock[v] + 1 = NumShards
    <3>1. ipc'[v] = "clear"
      BY <2>0, <2>6 DEF TypeOK
    <3> QED
      BY <2>0, <2>3, <2>4, <2>6, <3>1 DEF LocksHeld
  <2>7. CASE nextLock[v] + 1 # NumShards
    <3>1. ipc'[v] = "lock"
      BY <2>0, <2>7 DEF TypeOK
    <3> QED
      BY <2>0, <2>3, <2>4, <2>5, <2>7, <3>1 DEF LocksHeld
  <2> QED
    BY <2>6, <2>7
<1>7. ClearedBeforeBump'
  <2>1. /\ \A w \in Invalidators : w # v => ipc'[w] = ipc[w]
        /\ ipc'[v] # "zero" /\ ipc'[v] # "bump"
    BY DEF IInv, TypeOK
  <2> QED
    BY <2>1 DEF IInv, ClearedBeforeBump
<1> QED
  BY <1>1, <1>2, <1>3, <1>4, <1>5, <1>6, <1>7 DEF CoreInv, LocalsInv

\* An invalidation drops one entry of its claims.
LEMMA ClearEntryKeeps ==
  ASSUME IInv, NEW v \in Invalidators, NEW n \in Names, ClearEntry(v, n)
  PROVE  CoreInv'
<1> USE NegCacheAssumption DEF ClearEntry, Claimed, diskVars, cacheVars, lockVars, resVars, invVars, LayerIdx, ShardIdx
<1>1. TypeOK'
  <2>0. TypeOK
    BY DEF IInv
  <2>1. lru' \in [ShardIdx -> Seq(Names)]
    BY ListsAfterClearEntry
  <2>2. entry' \in [Names -> LayerIdx]
    BY <2>0 DEF TypeOK
  <2>3. ipc' \in [Invalidators -> InvalidatorPlaces] /\ key' \in [Invalidators -> Names]
    BY <2>0 DEF TypeOK, InvalidatorPlaces
  <2> QED
    BY <2>0, <2>1, <2>2, <2>3 DEF TypeOK
<1>2. EntriesAreTrue'
  BY DEF IInv, TypeOK, EntriesAreTrue, View
<1>3. CalmResolveIsRight'
  BY AnswersFrame DEF IInv
<1>4. ListsMatchMaps'
  BY ListsAfterClearEntry DEF ListsMatchMaps
<1>5. LocalsInv'
  BY LocalsFrame, IInvGivesParts
<1>6. LocksHeld' /\ ipc'[v] = "uncount" /\ \A w \in Invalidators : w # v => ipc'[w] = ipc[w]
  BY GoOnKeepsLocks DEF IInv
<1>7. ClearedBeforeBump'
  BY <1>6, GoOnKeepsCleared
<1> QED
  BY <1>1, <1>2, <1>3, <1>4, <1>5, <1>6, <1>7 DEF CoreInv, LocalsInv

\* An invalidation counts the entry it has dropped.
LEMMA CountClearedKeeps ==
  ASSUME IInv, NEW v \in Invalidators, CountCleared(v)
  PROVE  CoreInv'
<1> USE NegCacheAssumption DEF CountCleared, Dropped, diskVars, lockVars, resVars
<1>1. TypeOK'
  <2>1. /\ ipc' \in [Invalidators -> InvalidatorPlaces] /\ key' \in [Invalidators -> Names]
        /\ size' \in Int
    BY NoNameIsAName DEF IInv, TypeOK, InvalidatorPlaces
  <2> QED
    BY <2>1 DEF IInv, TypeOK
<1>2. EntriesAreTrue'
  BY DEF IInv, EntriesAreTrue, View
<1>3. CalmResolveIsRight'
  BY AnswersFrame DEF IInv
<1>4. ListsMatchMaps'
  BY DEF IInv, ListsMatchMaps
<1>5. LocalsInv'
  BY LocalsFrame, IInvGivesParts
<1>6. LocksHeld' /\ ipc'[v] = "clear" /\ \A w \in Invalidators : w # v => ipc'[w] = ipc[w]
  BY GoOnKeepsLocks DEF IInv
<1>7. ClearedBeforeBump'
  BY <1>6, GoOnKeepsCleared
<1> QED
  BY <1>1, <1>2, <1>3, <1>4, <1>5, <1>6, <1>7 DEF CoreInv, LocalsInv

\* InvalidateAll stores the counter of its empty maps.
LEMMA StoreZeroKeeps ==
  ASSUME IInv, NEW v \in Invalidators, StoreZero(v)
  PROVE  CoreInv'
<1> USE NegCacheAssumption DEF StoreZero, diskVars, lockVars, resVars
<1>1. TypeOK'
  <2>1. ipc' \in [Invalidators -> InvalidatorPlaces] /\ size' \in Int
    BY DEF IInv, TypeOK, InvalidatorPlaces
  <2> QED
    BY <2>1 DEF IInv, TypeOK
<1>2. EntriesAreTrue'
  BY DEF IInv, EntriesAreTrue, View
<1>3. CalmResolveIsRight'
  BY AnswersFrame DEF IInv
<1>4. ListsMatchMaps'
  BY DEF IInv, ListsMatchMaps
<1>5. LocalsInv'
  BY LocalsFrame, IInvGivesParts
<1>6. LocksHeld' /\ ipc'[v] = "bump" /\ \A w \in Invalidators : w # v => ipc'[w] = ipc[w]
  BY GoOnKeepsLocks DEF IInv
<1>7. ClearedBeforeBump'
  <2>1. \A n \in Names : entry'[n] = 0
    BY DEF IInv, ClearedBeforeBump
  <2> QED
    BY <1>6, <2>1, GoOnKeepsCleared
<1> QED
  BY <1>1, <1>2, <1>3, <1>4, <1>5, <1>6, <1>7 DEF CoreInv, LocalsInv

\* An invalidation has dropped its claims.
LEMMA ClearDoneKeeps ==
  ASSUME IInv, NEW v \in Invalidators, ClearDone(v)
  PROVE  CoreInv'
<1> USE NegCacheAssumption DEF ClearDone, Claimed, diskVars, cacheVars, lockVars, resVars, invVars, LayerIdx, ShardIdx
<1>1. TypeOK'
  BY DEF IInv, TypeOK, InvalidatorPlaces, FileStates, AllLayers
<1>2. EntriesAreTrue'
  BY DEF IInv, TypeOK, EntriesAreTrue, View
<1>3. CalmResolveIsRight'
  BY AnswersFrame DEF IInv
<1>4. ListsMatchMaps'
  BY DEF IInv, TypeOK, ListsMatchMaps, InStep
<1>5. LocalsInv'
  BY LocalsFrame, IInvGivesParts
<1>6. LocksHeld' /\ ipc'[v] = "bump" /\ \A w \in Invalidators : w # v => ipc'[w] = ipc[w]
  BY GoOnKeepsLocks DEF IInv
<1>7. ClearedBeforeBump'
  <2>1. target[v] \in Nat /\ \A n \in Names : entry[n] \in Nat
    BY DEF IInv, TypeOK
  <2>2. \A n \in Names : entry[n] # 0 => entry[n] < target[v]
    BY <2>1
  <2> QED
    BY <1>6, <2>2, GoOnKeepsCleared
<1> QED
  BY <1>1, <1>2, <1>3, <1>4, <1>5, <1>6, <1>7 DEF CoreInv, LocalsInv

\* An invalidation drops every entry.
LEMMA ClearAllKeeps ==
  ASSUME IInv, NEW v \in Invalidators, ClearAll(v)
  PROVE  CoreInv'
<1> USE NegCacheAssumption DEF ClearAll, diskVars, cacheVars, lockVars, resVars, invVars, LayerIdx, ShardIdx
<1>1. TypeOK'
  <2>1. /\ ipc' \in [Invalidators -> InvalidatorPlaces] /\ entry' \in [Names -> LayerIdx]
        /\ lru' \in [ShardIdx -> Seq(Names)]
    BY DEF IInv, TypeOK, InvalidatorPlaces
  <2> QED
    BY <2>1 DEF IInv, TypeOK
<1>2. EntriesAreTrue'
  BY DEF IInv, TypeOK, EntriesAreTrue, View
<1>3. CalmResolveIsRight'
  BY AnswersFrame DEF IInv
<1>4. ListsMatchMaps'
  <2>1. \A n \in Names : entry'[n] = 0
    OBVIOUS
  <2>2. \A s \in ShardIdx : lru'[s] = <<>> /\ Len(<<>>) = 0
    OBVIOUS
  <2> QED
    BY <2>1, <2>2, CapacityIsPositive DEF ListsMatchMaps, InStep, Occurs, NoDuplicates
<1>5. LocalsInv'
  BY LocalsFrame, IInvGivesParts
<1>6. LocksHeld' /\ ipc'[v] = "zero" /\ \A w \in Invalidators : w # v => ipc'[w] = ipc[w]
  BY GoOnKeepsLocks DEF IInv
<1>7. ClearedBeforeBump'
  <2>1. \A n \in Names : entry'[n] = 0
    OBVIOUS
  <2> QED
    BY <1>6, <2>1, GoOnKeepsCleared
<1> QED
  BY <1>1, <1>2, <1>3, <1>4, <1>5, <1>6, <1>7 DEF CoreInv, LocalsInv

\* The generation moves on: what was seen under the old one counts no more.
LEMMA BumpKeeps ==
  ASSUME IInv, NEW v \in Invalidators, Bump(v)
  PROVE  CoreInv'
<1> USE NegCacheAssumption DEF Bump, diskVars, cacheVars, lockVars, resVars, invVars, LayerIdx, ShardIdx
<1>1. TypeOK'
  <2>1. /\ ipc' \in [Invalidators -> InvalidatorPlaces] /\ gen' \in Nat
        /\ pending' \in [LayerIdx -> BOOLEAN]
    BY DEF IInv, TypeOK, InvalidatorPlaces
  <2> QED
    BY <2>1 DEF IInv, TypeOK
<1>2. EntriesAreTrue'
  <2> SUFFICES ASSUME NEW n \in Names, NEW j \in LayerIdx, j < entry'[n]
               PROVE  View(j, n)' = "absent" \/ pending'[j]
    BY DEF EntriesAreTrue
  <2>0. TypeOK /\ ClearedBeforeBump /\ entry[n] \in 0 .. NumLayers - 1 /\ j < entry[n]
    BY DEF IInv, TypeOK
  <2>1. entry[n] # 0 /\ entry[n] < target[v] /\ j < entry[n]
    <3>1. entry[n] # 0
      BY <2>0
    <3>2. entry[n] < target[v]
      BY <2>0, <3>1 DEF ClearedBeforeBump
    <3> QED
      BY <2>0, <3>1, <3>2
  <2>2. target[v] # AllLayers /\ j # target[v]
    <3>1. target[v] \in Int /\ entry[n] \in Nat /\ j \in Nat
      BY <2>0 DEF TypeOK, AllLayers
    <3> QED
      BY ONLY <2>1, <3>1 DEF AllLayers
  <2> QED
    BY <2>1, <2>2 DEF IInv, TypeOK, EntriesAreTrue, View
<1>3. CalmResolveIsRight'
  BY AnswersFrame DEF IInv
<1>4. ListsMatchMaps'
  BY DEF IInv, TypeOK, ListsMatchMaps, InStep
<1>5. GenerationsLag'
  BY DEF IInv, TypeOK, GenerationsLag
<1>6. CopiesAreCurrent'
  BY DEF IInv, TypeOK, CopiesAreCurrent, GenerationsLag, AllLayers, Searching
<1>7. SeenMissesAreTrue'
  BY DEF IInv, TypeOK, SeenMissesAreTrue, CopiesAreCurrent, EntriesAreTrue, GenerationsLag, IndexInRange, View, AllLayers, Searching
<1>8. LocksHeld' /\ ipc'[v] = "unlock" /\ \A w \in Invalidators : w # v => ipc'[w] = ipc[w]
  BY GoOnKeepsLocks DEF IInv
<1>9. ClearedBeforeBump'
  BY <1>8, GoOnKeepsCleared
<1>10. IndexInRange'
  BY DEF IInv, TypeOK, IndexInRange
<1>11. CalmSeesTheLayers'
  BY DEF IInv, TypeOK, CalmSeesTheLayers, EntriesAreTrue, IndexInRange, View, AllLayers, Searching
<1> QED
  BY <1>1, <1>2, <1>3, <1>4, <1>5, <1>6, <1>7, <1>8, <1>9, <1>10, <1>11 DEF CoreInv

\* An invalidation returns.
LEMMA UnlockKeeps ==
  ASSUME IInv, NEW v \in Invalidators, Unlock(v)
  PROVE  CoreInv'
<1> USE NegCacheAssumption DEF Unlock, AllFree, diskVars, cacheVars, lockVars, resVars, invVars, LayerIdx, ShardIdx
<1>1. TypeOK'
  <2>0. TypeOK
    BY DEF IInv
  <2>1. /\ mu' \in Invalidators \cup {Nobody}
        /\ shardMu' \in [ShardIdx -> Resolvers \cup Invalidators \cup {Nobody}]
    BY <2>0 DEF TypeOK
  <2>2. /\ ipc' \in [Invalidators -> InvalidatorPlaces]
        /\ target' \in [Invalidators -> LayerIdx \cup {AllLayers}]
        /\ nextLock' \in [Invalidators -> 0 .. NumShards]
    BY <2>0 DEF TypeOK, InvalidatorPlaces
  <2> QED
    BY <2>0, <2>1, <2>2 DEF TypeOK
<1>2. EntriesAreTrue'
  BY DEF IInv, TypeOK, EntriesAreTrue, View
<1>3. CalmResolveIsRight'
  BY AnswersFrame DEF IInv
<1>4. ListsMatchMaps'
  BY DEF IInv, TypeOK, ListsMatchMaps, InStep
<1>5. LocalsInv'
  BY LocalsFrame, IInvGivesParts
<1>6. /\ ipc'[v] = "idle" /\ nextLock'[v] = 0
      /\ \A w \in Invalidators :
           w # v => ipc'[w] = ipc[w] /\ nextLock'[w] = nextLock[w] /\ target'[w] = target[w]
  BY DEF IInv, TypeOK
<1>7. LocksHeld' /\ ClearedBeforeBump'
  <2>1. 0 \in ShardIdx /\ \A s \in ShardIdx : ~(s < 0)
    OBVIOUS
  <2>2. \A s \in ShardIdx : shardMu[s] = v
    BY DEF IInv, LocksHeld
  <2>3. ASSUME NEW w \in Invalidators, w # v
        PROVE  ipc[w] \in {"idle", "lock"} /\ nextLock[w] = 0
    <3>1. shardMu[0] # w
      BY <2>1, <2>2, <2>3
    <3>2. nextLock[w] \in Nat
      BY DEF IInv, TypeOK
    <3> QED
      BY <2>1, <3>1, <3>2 DEF IInv, TypeOK, LocksHeld, InvalidatorPlaces
  <2>4. \A w \in Invalidators : ipc'[w] \in {"idle", "lock"} /\ nextLock'[w] = 0
    BY <1>6, <2>3
  <2>5. 0 < NumShards
    OBVIOUS
  <2>6. LocksHeld'
    BY <2>1, <2>4, <2>5 DEF LocksHeld
  <2>7. ClearedBeforeBump'
    BY <2>4 DEF ClearedBeforeBump
  <2> QED
    BY <2>6, <2>7
<1> QED
  BY <1>1, <1>2, <1>3, <1>4, <1>5, <1>6, <1>7 DEF CoreInv, LocalsInv

\* Every step of every goroutine, and every change of a file, keeps the
\* invariant.
LEMMA NextKeepsCore ==
  ASSUME IInv, [Next]_vars
  PROVE  CoreInv'
<1>1. CASE UNCHANGED vars
  <2>1. UNCHANGED <<disk, layers, pending, entry, lru, size, gen, mu, shardMu>>
    BY <1>1 DEF vars, diskVars, cacheVars, lockVars
  <2>2. /\ UNCHANGED <<rpc, path, snap, snapGen, cached, idx, oldest, answer>>
      /\ UNCHANGED <<ipc, target, nextLock, key, calm>>
    BY <1>1 DEF vars, resVars, invVars
  <2>3. TypeOK' /\ EntriesAreTrue' /\ CalmResolveIsRight' /\ ListsMatchMaps'
    BY <2>1, <2>2 DEF IInv, TypeOK, EntriesAreTrue, CalmResolveIsRight, ListsMatchMaps, Right, View
  <2>4. GenerationsLag' /\ CopiesAreCurrent' /\ SeenMissesAreTrue' /\ LocksHeld'
    BY <2>1, <2>2 DEF IInv, GenerationsLag, CopiesAreCurrent, SeenMissesAreTrue, LocksHeld, View, Searching
  <2>5. ClearedBeforeBump' /\ IndexInRange' /\ CalmSeesTheLayers'
    BY <2>1, <2>2 DEF IInv, ClearedBeforeBump, IndexInRange, CalmSeesTheLayers, View, Searching
  <2> QED
    BY <2>3, <2>4, <2>5 DEF CoreInv
<1>2. CASE \E b \in Backings, n \in Names, st \in FileStates : ChangeFile(b, n, st)
  BY <1>2, ChangeFileKeeps
<1>3. ASSUME NEW p \in Resolvers, (\E n \in Names : Snapshot(p, n)) \/ ResolverStep(p)
      PROVE  CoreInv'
  <2>1. CASE \E n \in Names : Snapshot(p, n)
    BY <2>1, SnapshotKeeps
  <2>2. CASE ResolverStep(p)
    BY <2>2, LookupKeeps, ProbeMissKeeps, ProbeErrorKeeps, ProbeHitKeeps,
       StoreCheckKeeps, StoreStaleKeeps, StoreUpdateKeeps, EvictOldestKeeps,
       CountEvictionKeeps, InsertKeeps, CountInsertKeeps, NameLayerKeeps
    DEF ResolverStep
  <2> QED
    BY <1>3, <2>1, <2>2
<1>4. ASSUME NEW v \in Invalidators,
             \/ \E j \in LayerIdx : InvalidateLayer(v, j)
             \/ InvalidateAll(v)
             \/ \E j \in LayerIdx, b \in Backings : ReplaceLayer(v, j, b)
      PROVE  CoreInv'
  BY <1>4, InvalidateLayerKeeps, InvalidateAllKeeps, ReplaceLayerKeeps
<1>5. ASSUME NEW v \in Invalidators, InvalidatorStep(v)
      PROVE  CoreInv'
  BY <1>5, LockShardKeeps, ClearEntryKeeps, CountClearedKeeps, ClearDoneKeeps,
     ClearAllKeeps, StoreZeroKeeps,
     BumpKeeps, UnlockKeeps
  DEF InvalidatorStep
<1> QED
  BY <1>1, <1>2, <1>3, <1>4, <1>5 DEF Next

\* A store that has its shard keeps it: whoever else takes a shard finds it
\* free, and whoever moves the generation on has them all.
LEMMA StoresFrame ==
  ASSUME StoresHoldTheirShard, UNCHANGED <<entry, lru, shardMu, gen>>,
         \A o \in Resolvers :
           rpc'[o] \in {"evicted", "push", "inserted"}
             => rpc'[o] = rpc[o] /\ path'[o] = path[o] /\ snapGen'[o] = snapGen[o]
  PROVE  StoresHoldTheirShard'
<1> SUFFICES ASSUME NEW o \in Resolvers, rpc'[o] \in {"evicted", "push", "inserted"}
             PROVE  /\ shardMu'[ShardOf[path'[o]]] = o
                    /\ rpc'[o] \in {"evicted", "push"} =>
                         /\ Fresh(o)' /\ entry'[path'[o]] = 0
                         /\ Len(lru'[ShardOf[path'[o]]]) < ShardCapacity
  BY DEF StoresHoldTheirShard
<1>1. rpc'[o] = rpc[o] /\ path'[o] = path[o] /\ snapGen'[o] = snapGen[o]
  OBVIOUS
<1> QED
  BY <1>1 DEF StoresHoldTheirShard, Fresh

\* A resolver's step within the critical section of its own shard leaves the
\* stores in the other shards as they are.
LEMMA OtherStoresFrame ==
  ASSUME IInv, NEW p \in Resolvers, NEW s \in ShardIdx, shardMu[s] \in {p, Nobody},
         \A t \in ShardIdx : t # s => lru'[t] = lru[t] /\ shardMu'[t] = shardMu[t],
         \A n \in Names : ShardOf[n] # s => entry'[n] = entry[n],
         UNCHANGED <<path, gen>>,
         \A o \in Resolvers : o # p => rpc'[o] = rpc[o] /\ snapGen'[o] = snapGen[o],
         LET u == ShardOf[path'[p]]
         IN  /\ rpc'[p] \in {"evicted", "push", "inserted"} => shardMu'[u] = p
             /\ rpc'[p] \in {"evicted", "push"} =>
                  Fresh(p)' /\ entry'[path'[p]] = 0 /\ Len(lru'[u]) < ShardCapacity
  PROVE  StoresHoldTheirShard'
<1> SUFFICES ASSUME NEW o \in Resolvers, o # p, rpc'[o] \in {"evicted", "push", "inserted"}
             PROVE  /\ shardMu'[ShardOf[path'[o]]] = o
                    /\ rpc'[o] \in {"evicted", "push"} =>
                         /\ Fresh(o)' /\ entry'[path'[o]] = 0
                         /\ Len(lru'[ShardOf[path'[o]]]) < ShardCapacity
  BY DEF StoresHoldTheirShard
<1>1. /\ shardMu[ShardOf[path[o]]] = o
      /\ rpc[o] \in {"evicted", "push"} =>
           Fresh(o) /\ entry[path[o]] = 0 /\ Len(lru[ShardOf[path[o]]]) < ShardCapacity
  BY DEF IInv, StoresHoldTheirShard
<1>2. path[o] \in Names /\ ShardOf[path[o]] \in ShardIdx /\ ShardOf[path[o]] # s
  BY <1>1, NegCacheAssumption DEF IInv, TypeOK
<1> QED
  BY <1>1, <1>2 DEF Fresh

\* Resolvers keep out of each other's critical sections.
LEMMA ResolverKeepsStores ==
  ASSUME IInv, NEW p \in Resolvers, ResolverStep(p)
  PROVE  StoresHoldTheirShard'
<1> DEFINE s == ShardOf[path[p]]
<1>1. /\ rpc \in [Resolvers -> ResolverPlaces] /\ snapGen \in [Resolvers -> Nat]
      /\ shardMu \in [ShardIdx -> Resolvers \cup Invalidators \cup {Nobody}]
      /\ lru \in [ShardIdx -> Seq(Names)] /\ entry \in [Names -> LayerIdx]
      /\ path[p] \in Names /\ s \in ShardIdx
      /\ StoresHoldTheirShard
  BY NegCacheAssumption DEF IInv, TypeOK
<1>2. CASE Lookup(p)
  <2>1. /\ shardMu[s] = Nobody /\ UNCHANGED <<shardMu, path, gen, entry, snapGen>>
        /\ rpc' = [rpc EXCEPT ![p] = "probe"]
        /\ \A t \in ShardIdx : t # s => lru'[t] = lru[t]
    BY <1>1, <1>2 DEF Lookup, lockVars
  <2>2. rpc'[p] = "probe" /\ \A o \in Resolvers : o # p => rpc'[o] = rpc[o] /\ snapGen'[o] = snapGen[o]
    BY <1>1, <2>1
  <2> HIDE DEF s
  <2> QED
    BY <1>1, <2>1, <2>2, OtherStoresFrame
<1>3. CASE ProbeMiss(p) \/ ProbeError(p) \/ ProbeHit(p) \/ StoreCheck(p) \/ StoreStale(p) \/ NameLayer(p)
  <2>1. UNCHANGED <<entry, lru, shardMu, gen, path>>
    BY <1>3 DEF ProbeMiss, ProbeError, ProbeHit, StoreCheck, StoreStale, NameLayer,
                cacheVars, lockVars
  <2>2. \A o \in Resolvers :
          rpc'[o] \in {"evicted", "push", "inserted"}
            => rpc'[o] = rpc[o] /\ snapGen'[o] = snapGen[o]
    BY <1>1, <1>3 DEF ProbeMiss, ProbeError, ProbeHit, StoreCheck, StoreStale, NameLayer,
                      Return, Served, Leave, Goto
  <2> QED
    BY <1>1, <2>1, <2>2, StoresFrame
<1>4. CASE StoreUpdate(p)
  <2>1. /\ shardMu[s] = Nobody /\ UNCHANGED <<shardMu, path, gen>>
        /\ rpc' = [rpc EXCEPT ![p] = "name"] /\ snapGen' = [snapGen EXCEPT ![p] = 0]
        /\ \A t \in ShardIdx : t # s => lru'[t] = lru[t]
        /\ \A n \in Names : ShardOf[n] # s => entry'[n] = entry[n]
    BY <1>1, <1>4 DEF StoreUpdate, Served, Leave, lockVars
  <2>2. rpc'[p] = "name" /\ \A o \in Resolvers : o # p => rpc'[o] = rpc[o] /\ snapGen'[o] = snapGen[o]
    BY <1>1, <2>1
  <2> HIDE DEF s
  <2> QED
    BY <1>1, <2>1, <2>2, OtherStoresFrame
<1>5. CASE EvictOldest(p)
  <2> DEFINE last == lru[s][Len(lru[s])]
  <2>1. /\ shardMu[s] = Nobody /\ Fresh(p) /\ UNCHANGED <<path, gen, snapGen>>
        /\ rpc' = [rpc EXCEPT ![p] = "evicted"] /\ shardMu' = [shardMu EXCEPT ![s] = p]
        /\ lru' = [lru EXCEPT ![s] = SubSeq(lru[s], 1, Len(lru[s]) - 1)]
        /\ entry' = [entry EXCEPT ![last] = 0] /\ entry[path[p]] = 0
    BY <1>5, Zenon DEF EvictOldest, Goto
  <2>2. last \in Names /\ ShardOf[last] = s /\ Len(lru'[s]) < ShardCapacity
    BY <1>5, ListsAfterEvict
  <2> HIDE DEF last, s
  <2>3. /\ \A t \in ShardIdx : t # s => lru'[t] = lru[t] /\ shardMu'[t] = shardMu[t]
        /\ \A n \in Names : ShardOf[n] # s => entry'[n] = entry[n]
        /\ entry'[path[p]] = 0 /\ shardMu'[s] = p
    BY <1>1, <2>1, <2>2
  <2>4. rpc'[p] = "evicted" /\ \A o \in Resolvers : o # p => rpc'[o] = rpc[o] /\ snapGen'[o] = snapGen[o]
    BY <1>1, <2>1
  <2>5. /\ s = ShardOf[path'[p]] /\ Fresh(p)' /\ entry'[path'[p]] = 0
    BY <2>1, <2>3 DEF s, Fresh
  <2> QED
    BY <1>1, <2>1, <2>2, <2>3, <2>4, <2>5, OtherStoresFrame
<1>6. CASE CountEviction(p)
  <2>1. /\ rpc[p] = "evicted" /\ UNCHANGED <<shardMu, path, gen, snapGen, entry, lru>>
        /\ rpc' = [rpc EXCEPT ![p] = "push"]
    BY <1>6 DEF CountEviction, Goto, lockVars
  <2>2. shardMu[s] = p /\ Fresh(p) /\ entry[path[p]] = 0 /\ Len(lru[s]) < ShardCapacity
    BY <1>1, <2>1 DEF StoresHoldTheirShard
  <2>3. rpc'[p] = "push" /\ Fresh(p)' /\ \A o \in Resolvers : o # p => rpc'[o] = rpc[o]
    BY <1>1, <2>1, <2>2 DEF Fresh
  <2> QED
    BY <1>1, <2>1, <2>2, <2>3, OtherStoresFrame
<1>7. CASE Insert(p)
  <2>1. /\ UNCHANGED <<path, gen, snapGen>>
        /\ rpc' = [rpc EXCEPT ![p] = "inserted"] /\ shardMu' = [shardMu EXCEPT ![s] = p]
        /\ lru' = [lru EXCEPT ![s] = <<path[p]>> \o @]
        /\ entry' = [entry EXCEPT ![path[p]] = idx[p]]
    BY <1>7 DEF Insert, Goto, Learned
  <2>2. shardMu[s] \in {p, Nobody}
    BY <1>7, InsertHoldsOrTakes
  <2>3. /\ \A t \in ShardIdx : t # s => lru'[t] = lru[t] /\ shardMu'[t] = shardMu[t]
        /\ \A n \in Names : ShardOf[n] # s => entry'[n] = entry[n]
        /\ shardMu'[s] = p /\ rpc'[p] = "inserted" /\ s = ShardOf[path'[p]]
        /\ \A o \in Resolvers : o # p => rpc'[o] = rpc[o] /\ snapGen'[o] = snapGen[o]
    BY <1>1, <2>1
  <2>4. UNCHANGED <<path, gen>>
    BY <2>1
  <2> HIDE DEF s
  <2> QED
    BY <1>1, <2>2, <2>3, <2>4, OtherStoresFrame
<1>8. CASE CountInsert(p)
  <2>1. /\ rpc[p] = "inserted" /\ UNCHANGED <<path, gen, entry, lru>>
        /\ rpc' = [rpc EXCEPT ![p] = "name"] /\ shardMu' = [shardMu EXCEPT ![s] = Nobody]
        /\ snapGen' = [snapGen EXCEPT ![p] = 0]
    BY <1>8 DEF CountInsert, Served, Leave
  <2>2. shardMu[s] = p
    BY <1>1, <2>1 DEF StoresHoldTheirShard
  <2>3. /\ \A t \in ShardIdx : t # s => shardMu'[t] = shardMu[t]
        /\ rpc'[p] = "name"
        /\ \A o \in Resolvers : o # p => rpc'[o] = rpc[o] /\ snapGen'[o] = snapGen[o]
    BY <1>1, <2>1
  <2> QED
    BY <1>1, <2>1, <2>2, <2>3, OtherStoresFrame
<1> QED
  BY <1>2, <1>3, <1>4, <1>5, <1>6, <1>7, <1>8 DEF ResolverStep

\* While an invalidator has every shard, no store is under way.
LEMMA NoStoreUnderInvalidation ==
  ASSUME IInv, NEW v \in Invalidators, ipc[v] \notin {"idle", "lock"}, NEW o \in Resolvers
  PROVE  rpc[o] \notin {"evicted", "push", "inserted"}
<1>1. path[o] \in Names /\ ShardOf[path[o]] \in ShardIdx /\ o # v
  BY NegCacheAssumption DEF IInv, TypeOK
<1>2. shardMu[ShardOf[path[o]]] = v
  BY <1>1 DEF IInv, LocksHeld
<1> QED
  BY <1>1, <1>2 DEF IInv, StoresHoldTheirShard

\* Invalidators take free shards and clear under all locks.
LEMMA InvalidatorKeepsStores ==
  ASSUME IInv, NEW v \in Invalidators, InvalidatorStep(v)
  PROVE  StoresHoldTheirShard'
<1>1. UNCHANGED <<rpc, path, snapGen>>
  BY DEF InvalidatorStep, LockShard, ClearEntry, CountCleared, ClearDone, ClearAll,
         StoreZero, Bump, Unlock, resVars
<1>2. CASE LockShard(v)
  <2>1. /\ shardMu[nextLock[v]] = Nobody
        /\ shardMu' = [shardMu EXCEPT ![nextLock[v]] = v]
        /\ UNCHANGED <<entry, lru, gen>>
    BY <1>2 DEF LockShard, ShardToLock, cacheVars
  <2>2. \A s \in ShardIdx, o \in Resolvers : shardMu[s] = o => shardMu'[s] = o
    BY <2>1, NegCacheAssumption DEF IInv, TypeOK
  <2>3. \A o \in Resolvers : ShardOf[path[o]] \in ShardIdx
    BY NegCacheAssumption DEF IInv, TypeOK
  <2> QED
    BY <1>1, <2>1, <2>2, <2>3 DEF IInv, StoresHoldTheirShard, Fresh
<1>3. CASE ~LockShard(v)
  <2>1. ipc[v] \notin {"idle", "lock"}
    BY <1>3 DEF InvalidatorStep, ClearEntry, CountCleared, ClearDone, ClearAll,
         StoreZero, Bump, Unlock
  <2>2. \A o \in Resolvers : rpc'[o] \notin {"evicted", "push", "inserted"}
    BY <1>1, <2>1, NoStoreUnderInvalidation
  <2> QED
    BY <2>2 DEF StoresHoldTheirShard
<1> QED
  BY <1>2, <1>3

\* Every step keeps the stores in their shards.
LEMMA NextKeepsStores ==
  ASSUME IInv, [Next]_vars
  PROVE  StoresHoldTheirShard'
<1>1. StoresHoldTheirShard /\ rpc \in [Resolvers -> ResolverPlaces]
      /\ path \in [Resolvers -> Names] /\ snapGen \in [Resolvers -> Nat]
  BY DEF IInv, TypeOK
<1>2. CASE UNCHANGED vars
  BY <1>1, <1>2, StoresFrame DEF vars, cacheVars, lockVars, resVars
<1>3. CASE \E b \in Backings, n \in Names, st \in FileStates : ChangeFile(b, n, st)
  BY <1>1, <1>3, StoresFrame DEF ChangeFile, cacheVars, lockVars, resVars
<1>4. ASSUME NEW p \in Resolvers, NEW n \in Names, Snapshot(p, n)
      PROVE  StoresHoldTheirShard'
  <2>1. /\ UNCHANGED <<entry, lru, shardMu, gen>>
        /\ rpc' = [rpc EXCEPT ![p] = "lookup"] /\ path' = [path EXCEPT ![p] = n]
        /\ snapGen' = [snapGen EXCEPT ![p] = gen]
    BY <1>4 DEF Snapshot, cacheVars, lockVars
  <2> QED
    BY <1>1, <2>1, StoresFrame
<1>5. ASSUME NEW v \in Invalidators,
             \/ \E j \in LayerIdx : InvalidateLayer(v, j)
             \/ InvalidateAll(v)
             \/ \E j \in LayerIdx, b \in Backings : ReplaceLayer(v, j, b)
      PROVE  StoresHoldTheirShard'
  <2>1. UNCHANGED <<entry, lru, shardMu, gen, rpc, path, snapGen>>
    BY <1>5 DEF InvalidateLayer, InvalidateAll, ReplaceLayer, cacheVars, lockVars, resVars
  <2> QED
    BY <1>1, <2>1, StoresFrame
<1> QED
  BY <1>2, <1>3, <1>4, <1>5, ResolverKeepsStores, InvalidatorKeepsStores DEF Next

\* Every step keeps IInv.
LEMMA NextKeepsIInv ==
  ASSUME IInv, [Next]_vars
  PROVE  IInv'
  BY NextKeepsCore, NextKeepsStores DEF IInv, CoreInv

\* An overlay that has just been built, with nothing cached.
LEMMA InitGivesIInv ==
  ASSUME Init
  PROVE  IInv
<1> USE NegCacheAssumption DEF LayerIdx, ShardIdx
<1>1. TypeOK
  <2>1. disk \in [Backings -> [Names -> FileStates]] /\ layers \in [LayerIdx -> Backings]
    BY DEF Init
  <2>2. NoCopy \in [LayerIdx -> Backings] /\ NoAnswer \in Answers
    BY <2>1, NoAnswerIsAnAnswer DEF NoCopy
  <2>3. entry \in [Names -> LayerIdx] /\ lru \in [ShardIdx -> Seq(Names)]
        /\ size \in Int /\ gen \in Nat
    BY DEF Init
  <2>4. mu \in Invalidators \cup {Nobody} /\ shardMu \in [ShardIdx -> Resolvers \cup Invalidators \cup {Nobody}]
    BY DEF Init
  <2>5. /\ rpc \in [Resolvers -> ResolverPlaces]
        /\ path \in [Resolvers -> Names]
        /\ snap \in [Resolvers -> [LayerIdx -> Backings]]
        /\ snapGen \in [Resolvers -> Nat]
        /\ cached \in [Resolvers -> LayerIdx]
        /\ idx \in [Resolvers -> 0 .. NumLayers]
        /\ oldest \in [Resolvers -> Names]
        /\ answer \in [Resolvers -> Answers]
    BY <2>2, NoNameIsAName DEF Init, ResolverPlaces
  <2>6. /\ ipc \in [Invalidators -> InvalidatorPlaces]
        /\ target \in [Invalidators -> LayerIdx \cup {AllLayers}]
        /\ nextLock \in [Invalidators -> 0 .. NumShards]
        /\ key \in [Invalidators -> Names]
        /\ pending \in [LayerIdx -> BOOLEAN]
        /\ calm \in [Resolvers -> BOOLEAN]
    BY NoNameIsAName DEF Init, InvalidatorPlaces
  <2> QED
    BY <2>1, <2>3, <2>4, <2>5, <2>6 DEF TypeOK
<1>2. ListsMatchMaps
  <2>1. \A n \in Names : entry[n] = 0
    BY DEF Init
  <2>2. \A s \in ShardIdx : lru[s] = <<>> /\ Len(<<>>) = 0
    BY DEF Init
  <2> QED
    BY <2>1, <2>2, CapacityIsPositive DEF ListsMatchMaps, InStep, Occurs, NoDuplicates
<1>3. EntriesAreTrue /\ ClearedBeforeBump
  BY DEF Init, EntriesAreTrue, ClearedBeforeBump
<1>4. CalmResolveIsRight /\ CalmSeesTheLayers
  BY DEF Init, CalmResolveIsRight, CalmSeesTheLayers, Searching
<1>5. GenerationsLag /\ CopiesAreCurrent /\ SeenMissesAreTrue /\ IndexInRange
  BY DEF Init, GenerationsLag, CopiesAreCurrent, SeenMissesAreTrue, IndexInRange, Searching
<1>6. LocksHeld /\ StoresHoldTheirShard
  BY DEF Init, LocksHeld, StoresHoldTheirShard
<1> QED
  BY <1>1, <1>2, <1>3, <1>4, <1>5, <1>6 DEF IInv

\* The invariant every argument about the cache rests on, for any number of
\* layers, shards, paths, goroutines and invalidations.
THEOREM IInvHolds == Spec => []IInv
<1>1. Init => IInv
  BY InitGivesIInv
<1>2. IInv /\ [Next]_vars => IInv'
  BY NextKeepsIInv
<1> QED
  BY <1>1, <1>2, PTL DEF Spec

\* The variables keep their types.
THEOREM TypeIsCorrect == Spec => []TypeOK
<1>1. IInv => TypeOK
  BY DEF IInv
<1> QED
  BY <1>1, IInvHolds, PTL

\* A cached miss is never stale once the layer's invalidation took effect.
THEOREM NoStaleMiss == Spec => []EntriesAreTrue
<1>1. IInv => EntriesAreTrue
  BY DEF IInv
<1> QED
  BY <1>1, IInvHolds, PTL

\* An undisturbed Open, ReadFile or Stat answers as if there were no cache.
THEOREM CacheIsTransparent == Spec => []CalmResolveIsRight
<1>1. IInv => CalmResolveIsRight
  BY DEF IInv
<1> QED
  BY <1>1, IInvHolds, PTL

\* Maps and LRU lists never part, and no shard outgrows its capacity.
THEOREM ListsAndMapsAgree == Spec => []ListsMatchMaps
<1>1. IInv => ListsMatchMaps
  BY DEF IInv
<1> QED
  BY <1>1, IInvHolds, PTL

-----------------------------------------------------------------------------
(* The counter and the bound on it *)

\* Two invalidators are never both beyond their locks.
LEMMA OneInvalidatorInside ==
  ASSUME IInv, NEW v \in Invalidators, NEW w \in Invalidators,
         ipc[v] \notin {"idle", "lock"}, ipc[w] \notin {"idle", "lock"}
  PROVE  v = w
<1>1. 0 \in ShardIdx
  BY NegCacheAssumption DEF ShardIdx
<1>2. shardMu[0] = v /\ shardMu[0] = w
  BY <1>1 DEF IInv, LocksHeld
<1> QED
  BY <1>2

\* No invalidator is beyond its locks while a shard is free or a resolver's.
LEMMA NoInvalidatorInside ==
  ASSUME IInv, NEW p \in Resolvers, NEW s \in ShardIdx, shardMu[s] \in {p, Nobody},
         NEW v \in Invalidators
  PROVE  ipc[v] \in {"idle", "lock"}
<1>1. p # v /\ Nobody # v
  BY NegCacheAssumption
<1> QED
  BY <1>1 DEF IInv, LocksHeld

\* Where a path is inserted or evicted, nobody else is.
LEMMA OneStoreInShard ==
  ASSUME IInv, NEW p \in Resolvers, shardMu[ShardOf[path[p]]] \in {p, Nobody},
         NEW o \in Resolvers, o # p, rpc[o] \in {"evicted", "push", "inserted"}
  PROVE  ShardOf[path[o]] # ShardOf[path[p]]
<1>1. shardMu[ShardOf[path[o]]] = o /\ o # Nobody
  BY NegCacheAssumption DEF IInv, StoresHoldTheirShard
<1> QED
  BY <1>1

\* Paths of one shard that are still counted are one path: the lock of the shard
\* has one holder.
LEMMA OneStillCounted ==
  ASSUME IInv, CountsFollow, NEW m \in Names, NEW n \in Names,
         StillCounted(m), StillCounted(n), ShardOf[m] = ShardOf[n]
  PROVE  m = n
<1>1. ASSUME NEW k \in Names, StillCounted(k)
      PROVE  \/ \E o \in Resolvers : rpc[o] = "evicted" /\ oldest[o] = k /\ shardMu[ShardOf[k]] = o
             \/ \E v \in Invalidators : ipc[v] = "uncount" /\ key[v] = k /\ shardMu[ShardOf[k]] = v
  <2>1. ShardOf[k] \in ShardIdx
    BY NegCacheAssumption
  <2>2. ASSUME NEW o \in Resolvers, rpc[o] = "evicted", oldest[o] = k
        PROVE  shardMu[ShardOf[k]] = o
    BY <2>2 DEF IInv, StoresHoldTheirShard, CountsFollow
  <2>3. ASSUME NEW v \in Invalidators, ipc[v] = "uncount", key[v] = k
        PROVE  shardMu[ShardOf[k]] = v
    BY <2>1, <2>3 DEF IInv, LocksHeld
  <2> QED
    BY <1>1, <2>2, <2>3 DEF StillCounted
<1>2. /\ \/ \E o \in Resolvers : rpc[o] = "evicted" /\ oldest[o] = m /\ shardMu[ShardOf[m]] = o
         \/ \E v \in Invalidators : ipc[v] = "uncount" /\ key[v] = m /\ shardMu[ShardOf[m]] = v
      /\ \/ \E o \in Resolvers : rpc[o] = "evicted" /\ oldest[o] = n /\ shardMu[ShardOf[n]] = o
         \/ \E v \in Invalidators : ipc[v] = "uncount" /\ key[v] = n /\ shardMu[ShardOf[n]] = v
  BY <1>1
<1> QED
  BY <1>2, NegCacheAssumption

\* A path that is still counted left room in its shard.
LEMMA StillCountedLeftRoom ==
  ASSUME IInv, CountsFollow, NEW n \in Names, StillCounted(n)
  PROVE  entry[n] = 0 /\ Len(lru[ShardOf[n]]) < ShardCapacity
<1>1. ASSUME NEW o \in Resolvers, rpc[o] = "evicted", oldest[o] = n
      PROVE  entry[n] = 0 /\ Len(lru[ShardOf[n]]) < ShardCapacity
  BY <1>1 DEF IInv, StoresHoldTheirShard, CountsFollow
<1>2. ASSUME NEW v \in Invalidators, ipc[v] = "uncount", key[v] = n
      PROVE  entry[n] = 0 /\ Len(lru[ShardOf[n]]) < ShardCapacity
  BY <1>2 DEF CountsFollow
<1> QED
  BY <1>1, <1>2 DEF StillCounted

\* The shards' capacities are the maximum divided among them and rounded up.
LEMMA CapacityRounding ==
  ASSUME MaxEntries > 0
  PROVE  NumShards * ShardCapacity <= MaxEntries + NumShards - 1
<1> DEFINE whole == MaxEntries \div NumShards
           rest  == MaxEntries % NumShards
<1>1. /\ NumShards \in Nat \ {0} /\ MaxEntries \in Nat
      /\ whole \in Nat /\ rest \in 0 .. NumShards - 1
      /\ MaxEntries = NumShards * whole + rest
  BY NegCacheAssumption
<1>2. NumShards * (whole + 1) = NumShards * whole + NumShards
  BY <1>1
<1>3. CASE rest = 0
  <2>1. whole >= 1
    BY <1>1, <1>3
  <2>2. ShardCapacity = whole
    BY <1>1, <1>3, <2>1 DEF ShardCapacity
  <2> QED
    BY <1>1, <1>3, <2>2
<1>4. CASE rest # 0
  <2>1. ShardCapacity = whole + 1
    BY <1>1, <1>4 DEF ShardCapacity
  <2> QED
    BY <1>1, <1>2, <1>4, <2>1
<1> QED
  BY <1>3, <1>4

\* A counted path is at one place of one shard's list, or was the last there: no
\* more paths are counted than there are places.
LEMMA CountedFitShards ==
  ASSUME IInv, CountsFollow
  PROVE  Cardinality(Counted) <= NumShards * ShardCapacity
<1> DEFINE places == ShardIdx \X (1 .. ShardCapacity)
           q(n) == lru[ShardOf[n]]
           At(n, i) == IF entry[n] = 0 THEN i = Len(q(n)) + 1
                       ELSE i <= Len(q(n)) /\ q(n)[i] = n
           f == [n \in Counted |-> <<ShardOf[n], CHOOSE i \in 1 .. ShardCapacity : At(n, i)>>]
<1>1. ASSUME NEW n \in Counted
      PROVE  /\ n \in Names /\ ShardOf[n] \in ShardIdx /\ Len(q(n)) \in Nat
             /\ entry[n] = 0 => StillCounted(n) /\ Len(q(n)) < ShardCapacity
             /\ entry[n] # 0 => Occurs(n, q(n)) /\ Len(q(n)) <= ShardCapacity
  <2>1. n \in Names /\ ShardOf[n] \in ShardIdx /\ q(n) \in Seq(Names)
    BY NegCacheAssumption DEF IInv, TypeOK, Counted
  <2>2. entry[n] = 0 => StillCounted(n) /\ Len(q(n)) < ShardCapacity
    BY <2>1, StillCountedLeftRoom DEF Counted
  <2>3. entry[n] # 0 => Occurs(n, q(n)) /\ Len(q(n)) <= ShardCapacity
    BY <2>1 DEF IInv, ListsMatchMaps, InStep
  <2> QED
    BY <2>1, <2>2, <2>3
<1> HIDE DEF q
<1>2. ASSUME NEW n \in Counted
      PROVE  \E i \in 1 .. ShardCapacity : At(n, i)
  <2>1. CASE entry[n] = 0
    BY <1>1, <2>1, CapacityIsPositive
  <2>2. CASE entry[n] # 0
    BY <1>1, <2>2, CapacityIsPositive DEF Occurs
  <2> QED
    BY <2>1, <2>2
<1>3. ASSUME NEW n \in Counted
      PROVE  f[n] \in places /\ f[n][1] = ShardOf[n] /\ At(n, f[n][2])
  <2> HIDE DEF At
  <2> QED
    BY <1>1, <1>2
<1>4. f \in Injection(Counted, places)
  <2>1. f \in [Counted -> places]
    <3>1. f = [n \in Counted |-> f[n]]
      OBVIOUS
    <3> HIDE DEF f, places
    <3> QED
      BY <1>3, <3>1
  <2>2. ASSUME NEW m \in Counted, NEW n \in Counted, f[m] = f[n]
        PROVE  m = n
    <3>1. /\ ShardOf[m] = ShardOf[n] /\ At(m, f[n][2]) /\ At(n, f[n][2])
          /\ f[n][2] \in 1 .. ShardCapacity
      <4> HIDE DEF f, At
      <4> QED
        BY <1>3, <2>2
    <3>2. q(m) = q(n)
      BY <3>1 DEF q
    <3> HIDE DEF f
    <3>3. CASE entry[m] = 0 /\ entry[n] = 0
      BY <1>1, <3>1, <3>3, OneStillCounted
    <3>4. CASE entry[m] # 0 /\ entry[n] # 0
      BY <3>1, <3>2, <3>4
    <3>5. CASE (entry[m] = 0) # (entry[n] = 0)
      BY <1>1, <3>1, <3>2, <3>5, CapacityIsPositive
    <3> QED
      BY <3>3, <3>4, <3>5
  <2>3. DOMAIN f = Counted
    OBVIOUS
  <2> HIDE DEF f, places
  <2> QED
    BY <2>1, <2>2, <2>3 DEF Injection, IsInjective
<1>5. IsFiniteSet(places) /\ Cardinality(places) = NumShards * ShardCapacity
  <2>1. /\ IsFiniteSet(ShardIdx) /\ Cardinality(ShardIdx) = NumShards
    BY FS_Interval, NegCacheAssumption DEF ShardIdx
  <2>2. /\ IsFiniteSet(1 .. ShardCapacity) /\ Cardinality(1 .. ShardCapacity) = ShardCapacity
    BY FS_Interval, CapacityIsPositive
  <2> QED
    BY <2>1, <2>2, FS_Product
<1> HIDE DEF f, places
<1> QED
  BY <1>4, <1>5, FS_Injection

\* Where a resolver may be with the cache switched off.
OffPlaces == {"idle", "lookup", "probe", "store", "name"}

\* What counts nothing, removes nothing and inserts nothing leaves the counter
\* right.
LEMMA SizeFrame ==
  ASSUME SizeInv, UNCHANGED size,
         \A n \in Names : entry'[n] = 0 <=> entry[n] = 0,
         \A s \in ShardIdx : Len(lru'[s]) = Len(lru[s]),
         \A p \in Resolvers :
           /\ path[p] \in Names /\ oldest[p] \in Names
           /\ rpc'[p] = "evicted" <=> rpc[p] = "evicted"
           /\ rpc'[p] = "inserted" <=> rpc[p] = "inserted"
           /\ rpc[p] \in {"evicted", "inserted"} => path'[p] = path[p] /\ oldest'[p] = oldest[p]
           /\ MaxEntries <= 0 => rpc'[p] \in OffPlaces,
         \A v \in Invalidators :
           /\ key[v] \in Names
           /\ ipc'[v] = "uncount" <=> ipc[v] = "uncount"
           /\ ipc'[v] = "zero" <=> ipc[v] = "zero"
           /\ ipc[v] = "uncount" => key'[v] = key[v]
  PROVE  SizeInv'
<1>1. ASSUME NEW n \in Names
      PROVE  (StillCounted(n)' <=> StillCounted(n)) /\ (Uncounted(n)' <=> Uncounted(n))
  BY DEF StillCounted, Uncounted
<1>2. Counted' = Counted
  BY <1>1 DEF Counted
<1>3. CountsFollow'
  <2>1. \A v \in Invalidators : ShardOf[key[v]] \in ShardIdx
    BY NegCacheAssumption
  <2> QED
    BY <2>1 DEF SizeInv, CountsFollow
<1> QED
  BY <1>2, <1>3 DEF SizeInv, OffPlaces

\* A path that moves to the front of its list leaves every list its length.
LEMMA MoveKeepsLengths ==
  ASSUME IInv, NEW n \in Names, entry[n] # 0,
         lru' = [lru EXCEPT ![ShardOf[n]] = MoveToFront(@, n)]
  PROVE  \A s \in ShardIdx : Len(lru'[s]) = Len(lru[s])
<1> DEFINE t == ShardOf[n]
<1>1. /\ t \in ShardIdx /\ lru \in [ShardIdx -> Seq(Names)] /\ lru[t] \in Seq(Names)
      /\ Occurs(n, lru[t]) /\ NoDuplicates(lru[t])
  BY NegCacheAssumption DEF IInv, TypeOK, ListsMatchMaps, InStep
<1>2. Len(MoveToFront(lru[t], n)) = Len(lru[t])
  BY <1>1, MoveToFrontKeeps
<1> QED
  BY <1>1, <1>2

\* The evicted path stays counted for now.
LEMMA EvictKeepsSize ==
  ASSUME IInv, SizeInv, NEW p \in Resolvers, EvictOldest(p)
  PROVE  SizeInv'
<1> DEFINE s == ShardOf[path[p]]
           last == lru[s][Len(lru[s])]
<1>1. /\ rpc[p] = "insert" /\ shardMu[s] = Nobody
      /\ rpc' = [rpc EXCEPT ![p] = "evicted"] /\ oldest' = [oldest EXCEPT ![p] = last]
      /\ entry' = [entry EXCEPT ![last] = 0] /\ UNCHANGED <<size, path, ipc, key>>
  BY Zenon DEF EvictOldest, Goto, invVars
<1>2. last \in Names /\ ShardOf[last] = s /\ entry[last] # 0
  BY ListsAfterEvict
<1> HIDE DEF last
<1>3. /\ rpc \in [Resolvers -> ResolverPlaces] /\ oldest \in [Resolvers -> Names]
      /\ entry \in [Names -> LayerIdx] /\ path[p] \in Names /\ s \in ShardIdx
  BY NegCacheAssumption DEF IInv, TypeOK
<1>4. /\ \A v \in Invalidators : ipc[v] \in {"idle", "lock"}
      /\ \A o \in Resolvers : o # p /\ rpc[o] \in {"evicted", "push", "inserted"}
                              => ShardOf[path[o]] # s
  BY <1>1, <1>3, NoInvalidatorInside, OneStoreInShard
<1> HIDE DEF s
<1>5. /\ rpc'[p] = "evicted" /\ oldest'[p] = last
      /\ \A o \in Resolvers : o # p => rpc'[o] = rpc[o] /\ oldest'[o] = oldest[o]
      /\ entry'[last] = 0 /\ \A n \in Names : n # last => entry'[n] = entry[n]
  BY <1>1, <1>2, <1>3
<1>6. CountsFollow'
  <2>1. ASSUME NEW o \in Resolvers, o # p
        PROVE  /\ rpc'[o] = "inserted" => entry'[path[o]] # 0
               /\ rpc'[o] = "evicted" =>
                    ShardOf[oldest'[o]] = ShardOf[path[o]] /\ entry'[oldest'[o]] = 0
    <3>1. path[o] \in Names /\ oldest[o] \in Names
      BY DEF IInv, TypeOK
    <3> QED
      BY <1>2, <1>4, <1>5, <2>1, <3>1 DEF SizeInv, CountsFollow
  <2>2. ShardOf[oldest'[p]] = ShardOf[path[p]] /\ entry'[oldest'[p]] = 0
    BY <1>2, <1>5 DEF s
  <2>3. \A v \in Invalidators : ipc'[v] # "uncount"
    BY <1>1, <1>4
  <2> QED
    BY <1>1, <1>5, <2>1, <2>2, <2>3 DEF CountsFollow
<1>7. Counted' = Counted
  <2>1. ASSUME NEW n \in Names
        PROVE  (StillCounted(n)' <=> StillCounted(n) \/ n = last) /\ (Uncounted(n)' <=> Uncounted(n))
    BY <1>1, <1>5 DEF StillCounted, Uncounted
  <2>2. ~Uncounted(last)
    BY <1>1, <1>2, <1>4 DEF Uncounted
  <2> QED
    BY <1>2, <1>5, <2>1, <2>2 DEF Counted
<1>8. MaxEntries > 0
  BY <1>1, NegCacheAssumption DEF SizeInv
<1>9. size = Cardinality(Counted)
  BY <1>4 DEF SizeInv
<1> QED
  BY <1>1, <1>6, <1>7, <1>8, <1>9, NegCacheAssumption DEF SizeInv

\* The counter goes down by the evicted path.
LEMMA CountEvictionKeepsSize ==
  ASSUME IInv, SizeInv, NEW p \in Resolvers, CountEviction(p)
  PROVE  SizeInv'
<1>1. /\ rpc[p] = "evicted" /\ rpc' = [rpc EXCEPT ![p] = "push"]
      /\ oldest' = [oldest EXCEPT ![p] = NoName] /\ size' = size - 1
      /\ UNCHANGED <<entry, lru, path, ipc, key>>
  BY DEF CountEviction, Dropped, Goto, invVars
<1>2. /\ rpc \in [Resolvers -> ResolverPlaces] /\ oldest \in [Resolvers -> Names]
      /\ ShardOf[path[p]] \in ShardIdx
  BY NegCacheAssumption DEF IInv, TypeOK
<1> PICK last \in Names : last = oldest[p]
  BY <1>2
<1>a. rpc[p] = "evicted" /\ oldest[p] = last
  BY <1>1
<1>3. /\ rpc'[p] = "push"
      /\ \A o \in Resolvers : o # p => rpc'[o] = rpc[o] /\ oldest'[o] = oldest[o]
  BY <1>1, <1>2
<1>4. /\ shardMu[ShardOf[path[p]]] = p /\ ShardOf[last] = ShardOf[path[p]] /\ entry[last] = 0
  BY <1>a DEF IInv, StoresHoldTheirShard, SizeInv, CountsFollow
<1>5. /\ \A v \in Invalidators : ipc[v] \in {"idle", "lock"}
      /\ \A o \in Resolvers : o # p /\ rpc[o] \in {"evicted", "push", "inserted"}
                              => ShardOf[path[o]] # ShardOf[path[p]]
  BY <1>2, <1>4, NoInvalidatorInside, OneStoreInShard
<1>6. CountsFollow'
  BY <1>1, <1>3 DEF SizeInv, CountsFollow
<1>7. last \in Counted /\ Counted' = Counted \ {last}
  <2>1. ASSUME NEW n \in Names
        PROVE  Uncounted(n)' <=> Uncounted(n)
    BY <1>1, <1>3 DEF Uncounted
  <2>2. ~StillCounted(last)'
    <3>1. ASSUME NEW o \in Resolvers, o # p, rpc[o] = "evicted"
          PROVE  oldest[o] # last
      BY <1>4, <1>5, <3>1 DEF SizeInv, CountsFollow
    <3>2. \A o \in Resolvers : ~(rpc'[o] = "evicted" /\ oldest'[o] = last)
      BY <1>3, <3>1
    <3>3. \A v \in Invalidators : ipc'[v] # "uncount"
      BY <1>1, <1>5
    <3> QED
      BY <3>2, <3>3 DEF StillCounted
  <2>3. ASSUME NEW n \in Names, n # last
        PROVE  StillCounted(n)' <=> StillCounted(n)
    <3>1. \A o \in Resolvers : rpc'[o] = "evicted" /\ oldest'[o] = n <=> rpc[o] = "evicted" /\ oldest[o] = n
      BY <1>a, <1>3, <2>3
    <3>2. \A v \in Invalidators : ipc'[v] = ipc[v] /\ key'[v] = key[v]
      BY <1>1
    <3> QED
      BY <3>1, <3>2 DEF StillCounted
  <2>4. StillCounted(last)
    BY <1>a DEF StillCounted
  <2>5. entry'[last] = 0 /\ entry' = entry
    BY <1>1, <1>4
  <2>6. ASSUME NEW n \in Names
        PROVE  (n \in Counted)' <=> n \in Counted /\ n # last
    <3>1. (n \in Counted)' <=> StillCounted(n)' \/ (entry[n] # 0 /\ ~Uncounted(n)')
      BY <2>5 DEF Counted
    <3>2. n \in Counted <=> StillCounted(n) \/ (entry[n] # 0 /\ ~Uncounted(n))
      BY DEF Counted
    <3>3. CASE n = last
      BY <1>4, <2>2, <3>1, <3>3
    <3>4. CASE n # last
      BY <2>1, <2>3, <3>1, <3>2, <3>4
    <3> QED
      BY <3>3, <3>4
  <2> QED
    BY <1>2, <2>4, <2>6 DEF Counted
<1>8. MaxEntries > 0 /\ size = Cardinality(Counted) /\ IsFiniteSet(Counted)
  BY <1>1, <1>5, NegCacheAssumption DEF SizeInv
<1>9. IsFiniteSet(Counted') /\ size' = Cardinality(Counted')
  BY <1>1, <1>7, <1>8, FS_RemoveElement
<1> QED
  BY <1>6, <1>8, <1>9, NegCacheAssumption DEF SizeInv

\* The inserted path is not counted yet.
LEMMA InsertKeepsSize ==
  ASSUME IInv, SizeInv, NEW p \in Resolvers, Insert(p)
  PROVE  SizeInv'
<1> DEFINE n == path[p]
<1>1. /\ rpc[p] \in {"insert", "push"} /\ rpc' = [rpc EXCEPT ![p] = "inserted"]
      /\ entry' = [entry EXCEPT ![n] = idx[p]]
      /\ UNCHANGED <<size, path, oldest, ipc, key>>
  BY DEF Insert, Learned, Goto, invVars
<1>2. /\ rpc \in [Resolvers -> ResolverPlaces] /\ entry \in [Names -> LayerIdx]
      /\ n \in Names /\ ShardOf[n] \in ShardIdx /\ idx[p] # 0 /\ entry[n] = 0
  <2>1. /\ rpc \in [Resolvers -> ResolverPlaces] /\ entry \in [Names -> LayerIdx]
        /\ n \in Names /\ ShardOf[n] \in ShardIdx
    BY NegCacheAssumption DEF IInv, TypeOK
  <2>2. entry[n] = 0
    BY InsertHasRoom
  <2>3. idx[p] \in 1 .. NumLayers - 1
    BY <1>1 DEF IInv, IndexInRange
  <2>4. idx[p] # 0
    BY <2>3
  <2> QED
    BY <2>1, <2>2, <2>4
<1>3. /\ rpc'[p] = "inserted" /\ \A o \in Resolvers : o # p => rpc'[o] = rpc[o]
      /\ entry'[n] # 0 /\ \A m \in Names : m # n => entry'[m] = entry[m]
  BY <1>1, <1>2
<1>4. shardMu[ShardOf[n]] \in {p, Nobody}
  BY InsertHoldsOrTakes
<1>5. /\ \A v \in Invalidators : ipc[v] \in {"idle", "lock"}
      /\ \A o \in Resolvers : o # p /\ rpc[o] \in {"evicted", "push", "inserted"}
                              => ShardOf[path[o]] # ShardOf[n]
  BY <1>2, <1>4, NoInvalidatorInside, OneStoreInShard
<1>6. \A o \in Resolvers : rpc[o] = "evicted" => oldest[o] \in Names /\ oldest[o] # n
  BY <1>1, <1>5 DEF SizeInv, CountsFollow, IInv, TypeOK
<1>7. CountsFollow'
  <2>1. ASSUME NEW o \in Resolvers, o # p
        PROVE  /\ rpc'[o] = "inserted" => entry'[path[o]] # 0
               /\ rpc'[o] = "evicted" =>
                    ShardOf[oldest[o]] = ShardOf[path[o]] /\ entry'[oldest[o]] = 0
    <3>1. path[o] \in Names
      BY DEF IInv, TypeOK
    <3> QED
      BY <1>3, <1>6, <2>1, <3>1 DEF SizeInv, CountsFollow
  <2>2. \A v \in Invalidators : ipc'[v] # "uncount"
    BY <1>1, <1>5
  <2> QED
    BY <1>1, <1>3, <2>1, <2>2 DEF CountsFollow
<1>8. Counted' = Counted
  <2>1. ASSUME NEW m \in Names
        PROVE  (StillCounted(m)' <=> StillCounted(m)) /\ (Uncounted(m)' <=> Uncounted(m) \/ m = n)
    BY <1>1, <1>3 DEF StillCounted, Uncounted
  <2>2. ~StillCounted(n)
    BY <1>5, <1>6 DEF StillCounted
  <2> QED
    BY <1>2, <1>3, <2>1, <2>2 DEF Counted
<1>9. MaxEntries > 0 /\ size = Cardinality(Counted)
  BY <1>1, <1>5, NegCacheAssumption DEF SizeInv
<1> QED
  BY <1>1, <1>7, <1>8, <1>9, NegCacheAssumption DEF SizeInv

\* The counter goes up by the inserted path.
LEMMA CountInsertKeepsSize ==
  ASSUME IInv, SizeInv, NEW p \in Resolvers, CountInsert(p)
  PROVE  SizeInv'
<1> DEFINE n == path[p]
<1>1. /\ rpc[p] = "inserted" /\ rpc' = [rpc EXCEPT ![p] = "name"] /\ size' = size + 1
      /\ UNCHANGED <<entry, lru, path, oldest, ipc, key>>
  BY DEF CountInsert, Served, Leave, invVars
<1>2. /\ rpc \in [Resolvers -> ResolverPlaces] /\ n \in Names /\ ShardOf[n] \in ShardIdx
  BY NegCacheAssumption DEF IInv, TypeOK
<1>3. rpc'[p] = "name" /\ \A o \in Resolvers : o # p => rpc'[o] = rpc[o]
  BY <1>1, <1>2
<1>4. shardMu[ShardOf[n]] = p /\ entry[n] # 0
  BY <1>1 DEF IInv, StoresHoldTheirShard, SizeInv, CountsFollow
<1>5. /\ \A v \in Invalidators : ipc[v] \in {"idle", "lock"}
      /\ \A o \in Resolvers : o # p /\ rpc[o] \in {"evicted", "push", "inserted"}
                              => ShardOf[path[o]] # ShardOf[n]
  BY <1>2, <1>4, NoInvalidatorInside, OneStoreInShard
<1>6. CountsFollow'
  BY <1>1, <1>3 DEF SizeInv, CountsFollow
<1>7. n \notin Counted /\ Counted' = Counted \cup {n}
  <2>1. ASSUME NEW m \in Names
        PROVE  (StillCounted(m)' <=> StillCounted(m)) /\ (m # n => (Uncounted(m)' <=> Uncounted(m)))
    BY <1>1, <1>3 DEF StillCounted, Uncounted
  <2>2. Uncounted(n) /\ ~Uncounted(n)'
    BY <1>1, <1>3, <1>5 DEF Uncounted
  <2>3. ~StillCounted(n)
    BY <1>2, <1>4, StillCountedLeftRoom DEF SizeInv
  <2> QED
    BY <1>1, <1>2, <1>4, <2>1, <2>2, <2>3 DEF Counted
<1>8. MaxEntries > 0 /\ size = Cardinality(Counted) /\ IsFiniteSet(Counted)
  BY <1>1, <1>5, NegCacheAssumption DEF SizeInv
<1>9. IsFiniteSet(Counted') /\ size' = Cardinality(Counted')
  BY <1>1, <1>7, <1>8, FS_AddElement
<1> QED
  BY <1>6, <1>8, <1>9, NegCacheAssumption DEF SizeInv

\* The dropped path stays counted for now.
LEMMA ClearEntryKeepsSize ==
  ASSUME IInv, SizeInv, NEW v \in Invalidators, NEW n \in Names, ClearEntry(v, n)
  PROVE  SizeInv'
<1>1. /\ ipc[v] = "clear" /\ entry[n] # 0
      /\ ipc' = [ipc EXCEPT ![v] = "uncount"] /\ key' = [key EXCEPT ![v] = n]
      /\ entry' = [entry EXCEPT ![n] = 0]
      /\ lru' = [lru EXCEPT ![ShardOf[n]] = Remove(@, n)]
      /\ UNCHANGED <<size, rpc, path, oldest>>
  BY DEF ClearEntry, Claimed, resVars
<1>2. /\ ipc \in [Invalidators -> InvalidatorPlaces] /\ key \in [Invalidators -> Names]
      /\ entry \in [Names -> LayerIdx] /\ lru \in [ShardIdx -> Seq(Names)]
      /\ ShardOf[n] \in ShardIdx
  BY NegCacheAssumption DEF IInv, TypeOK
<1>3. /\ \A o \in Resolvers : rpc[o] \notin {"evicted", "push", "inserted"}
      /\ \A w \in Invalidators : w # v => ipc[w] \in {"idle", "lock"}
  BY <1>1, NoStoreUnderInvalidation, OneInvalidatorInside
<1>4. /\ ipc'[v] = "uncount" /\ key'[v] = n
      /\ \A w \in Invalidators : w # v => ipc'[w] = ipc[w]
      /\ entry'[n] = 0 /\ \A m \in Names : m # n => entry'[m] = entry[m]
  BY <1>1, <1>2
<1>5. Len(lru'[ShardOf[n]]) < ShardCapacity
  <2>1. /\ lru[ShardOf[n]] \in Seq(Names) /\ Occurs(n, lru[ShardOf[n]])
        /\ NoDuplicates(lru[ShardOf[n]]) /\ Len(lru[ShardOf[n]]) <= ShardCapacity
    BY <1>1, <1>2 DEF IInv, ListsMatchMaps, InStep
  <2>2. Len(Remove(lru[ShardOf[n]], n)) = Len(lru[ShardOf[n]]) - 1
    BY <2>1, RemoveLeavesTheOthers
  <2>3. lru'[ShardOf[n]] = Remove(lru[ShardOf[n]], n) /\ Len(lru[ShardOf[n]]) \in Nat
    BY <1>1, <1>2
  <2> QED
    BY <2>1, <2>2, <2>3, CapacityIsPositive
<1>6. CountsFollow'
  BY <1>1, <1>3, <1>4, <1>5 DEF CountsFollow
<1>7. Counted' = Counted
  <2>1. ASSUME NEW m \in Names
        PROVE  (StillCounted(m)' <=> m = n) /\ ~StillCounted(m) /\ ~Uncounted(m) /\ ~Uncounted(m)'
    BY <1>1, <1>3, <1>4 DEF StillCounted, Uncounted
  <2> QED
    BY <1>1, <1>4, <2>1 DEF Counted
<1>8. size = Cardinality(Counted)
  BY <1>1, <1>3 DEF SizeInv
<1> QED
  BY <1>1, <1>6, <1>7, <1>8 DEF SizeInv

\* The counter goes down by the dropped path.
LEMMA CountClearedKeepsSize ==
  ASSUME IInv, SizeInv, NEW v \in Invalidators, CountCleared(v)
  PROVE  SizeInv'
<1> DEFINE n == key[v]
<1>1. /\ ipc[v] = "uncount" /\ ipc' = [ipc EXCEPT ![v] = "clear"]
      /\ key' = [key EXCEPT ![v] = NoName] /\ size' = size - 1
      /\ UNCHANGED <<entry, lru, rpc, path, oldest>>
  BY DEF CountCleared, Dropped, resVars
<1>2. /\ ipc \in [Invalidators -> InvalidatorPlaces] /\ n \in Names
  BY DEF IInv, TypeOK
<1>3. /\ \A o \in Resolvers : rpc[o] \notin {"evicted", "push", "inserted"}
      /\ \A w \in Invalidators : w # v => ipc[w] \in {"idle", "lock"}
  BY <1>1, NoStoreUnderInvalidation, OneInvalidatorInside
<1>4. ipc'[v] = "clear" /\ \A w \in Invalidators : w # v => ipc'[w] = ipc[w]
  BY <1>1, <1>2
<1>5. CountsFollow'
  BY <1>1, <1>3, <1>4 DEF CountsFollow
<1>6. n \in Counted /\ Counted' = Counted \ {n}
  <2>1. ASSUME NEW m \in Names
        PROVE  ~StillCounted(m)' /\ (StillCounted(m) <=> m = n) /\ ~Uncounted(m) /\ ~Uncounted(m)'
    BY <1>1, <1>3, <1>4 DEF StillCounted, Uncounted
  <2>2. entry[n] = 0
    BY <1>1 DEF SizeInv, CountsFollow
  <2> QED
    BY <1>1, <1>2, <2>1, <2>2 DEF Counted
<1>7. size = Cardinality(Counted) /\ IsFiniteSet(Counted)
  BY <1>1, <1>3 DEF SizeInv
<1>8. IsFiniteSet(Counted') /\ size' = Cardinality(Counted')
  BY <1>1, <1>6, <1>7, FS_RemoveElement
<1>9. MaxEntries > 0
  <2>1. size # 0
    BY <1>6, <1>7, FS_EmptySet
  <2> QED
    BY <2>1, NegCacheAssumption DEF SizeInv
<1> QED
  BY <1>5, <1>8, <1>9, NegCacheAssumption DEF SizeInv

\* InvalidateAll has emptied the maps and not yet reset the counter.
LEMMA ClearAllKeepsSize ==
  ASSUME IInv, SizeInv, NEW v \in Invalidators, ClearAll(v)
  PROVE  SizeInv'
<1>1. /\ ipc[v] = "clear" /\ ipc' = [ipc EXCEPT ![v] = "zero"]
      /\ entry' = [n \in Names |-> 0] /\ UNCHANGED <<size, rpc, path, oldest, key>>
  BY DEF ClearAll, resVars
<1>2. ipc \in [Invalidators -> InvalidatorPlaces]
  BY DEF IInv, TypeOK
<1>3. /\ \A o \in Resolvers : rpc[o] \notin {"evicted", "push", "inserted"}
      /\ \A w \in Invalidators : w # v => ipc[w] \in {"idle", "lock"}
  BY <1>1, NoStoreUnderInvalidation, OneInvalidatorInside
<1>4. ipc'[v] = "zero" /\ \A w \in Invalidators : w # v => ipc'[w] = ipc[w]
  BY <1>1, <1>2
<1>5. CountsFollow' /\ Counted' = {}
  BY <1>1, <1>3, <1>4 DEF CountsFollow, Counted, StillCounted
<1>6. size = Cardinality(Counted) /\ IsFiniteSet(Counted) /\ CountsFollow
  BY <1>1, <1>3 DEF SizeInv
<1>7. size \in 0 .. NumShards * ShardCapacity
  <2>1. Cardinality(Counted) <= NumShards * ShardCapacity /\ Cardinality(Counted) \in Nat
    BY <1>6, CountedFitShards, FS_CardinalityType
  <2>2. NumShards * ShardCapacity \in Nat
    BY NegCacheAssumption, CapacityIsPositive
  <2> QED
    BY <1>6, <2>1, <2>2
<1> QED
  BY <1>1, <1>4, <1>5, <1>7, FS_EmptySet DEF SizeInv

\* The counter of the emptied maps is reset.
LEMMA StoreZeroKeepsSize ==
  ASSUME IInv, SizeInv, NEW v \in Invalidators, StoreZero(v)
  PROVE  SizeInv'
<1>1. /\ ipc[v] = "zero" /\ ipc' = [ipc EXCEPT ![v] = "bump"] /\ size' = 0
      /\ UNCHANGED <<entry, lru, rpc, path, oldest, key>>
  BY DEF StoreZero, resVars
<1>2. ipc \in [Invalidators -> InvalidatorPlaces] /\ \A n \in Names : entry[n] = 0
  BY <1>1 DEF IInv, TypeOK, ClearedBeforeBump
<1>3. /\ \A o \in Resolvers : rpc[o] \notin {"evicted", "push", "inserted"}
      /\ \A w \in Invalidators : w # v => ipc[w] \in {"idle", "lock"}
  BY <1>1, NoStoreUnderInvalidation, OneInvalidatorInside
<1>4. ipc'[v] = "bump" /\ \A w \in Invalidators : w # v => ipc'[w] = ipc[w]
  BY <1>1, <1>2
<1>5. CountsFollow' /\ Counted' = {}
  BY <1>1, <1>2, <1>3, <1>4 DEF CountsFollow, Counted, StillCounted
<1> QED
  BY <1>1, <1>5, FS_EmptySet DEF SizeInv

\* The counter follows the maps through every step.
LEMMA NextKeepsSize ==
  ASSUME IInv, SizeInv, [Next]_vars
  PROVE  SizeInv'
<1>0. /\ \A p \in Resolvers : path[p] \in Names /\ oldest[p] \in Names
      /\ \A v \in Invalidators : key[v] \in Names
      /\ rpc \in [Resolvers -> ResolverPlaces] /\ ipc \in [Invalidators -> InvalidatorPlaces]
      /\ MaxEntries <= 0 => \A p \in Resolvers : rpc[p] \in OffPlaces
  BY DEF IInv, TypeOK, SizeInv, OffPlaces
<1>1. CASE UNCHANGED vars
  <2>1. /\ UNCHANGED <<entry, lru, size, rpc, path, oldest, ipc, key>>
    BY <1>1 DEF vars, cacheVars, resVars, invVars
  <2> QED
    BY <1>0, <2>1, SizeFrame
<1>2. ASSUME NEW b \in Backings, NEW n \in Names, NEW st \in FileStates, ChangeFile(b, n, st)
      PROVE  SizeInv'
  <2>1. UNCHANGED <<entry, lru, size, rpc, path, oldest, ipc, key>>
    BY <1>2 DEF ChangeFile, cacheVars, resVars, invVars
  <2> QED
    BY <1>0, <2>1, SizeFrame
<1>3. ASSUME NEW p \in Resolvers, NEW n \in Names, Snapshot(p, n)
      PROVE  SizeInv'
  <2>1. /\ rpc[p] = "idle" /\ rpc' = [rpc EXCEPT ![p] = "lookup"]
        /\ path' = [path EXCEPT ![p] = n]
        /\ UNCHANGED <<entry, lru, size, oldest, ipc, key>>
    BY <1>3 DEF Snapshot, cacheVars, invVars
  <2>2. \A o \in Resolvers : rpc[o] # "idle" => rpc'[o] = rpc[o] /\ path'[o] = path[o]
    BY <1>0, <2>1 DEF IInv, TypeOK
  <2>3. \A o \in Resolvers : rpc[o] = "idle" => rpc'[o] \in {"idle", "lookup"}
    BY <1>0, <2>1
  <2> QED
    BY <1>0, <2>1, <2>2, <2>3, SizeFrame DEF OffPlaces
<1>4. ASSUME NEW p \in Resolvers, ResolverStep(p)
      PROVE  SizeInv'
  <2>1. CASE Lookup(p)
    <3>1. /\ rpc[p] = "lookup" /\ rpc' = [rpc EXCEPT ![p] = "probe"]
          /\ UNCHANGED <<entry, size, path, oldest, ipc, key>>
      BY <2>1 DEF Lookup, invVars
    <3>2. \A s \in ShardIdx : Len(lru'[s]) = Len(lru[s])
      <4>1. CASE entry[path[p]] = 0
        BY <2>1, <4>1 DEF Lookup
      <4>2. CASE entry[path[p]] # 0
        BY <1>0, <2>1, <4>2, MoveKeepsLengths DEF Lookup
      <4> QED
        BY <4>1, <4>2
    <3>3. rpc'[p] = "probe" /\ \A o \in Resolvers : o # p => rpc'[o] = rpc[o]
      BY <1>0, <3>1
    <3> QED
      BY <1>0, <3>1, <3>2, <3>3, SizeFrame DEF OffPlaces
  <2>2. CASE ProbeMiss(p) \/ ProbeError(p) \/ ProbeHit(p) \/ StoreStale(p) \/ NameLayer(p)
    <3>1. UNCHANGED <<entry, lru, size, path, oldest, ipc, key>>
      BY <2>2 DEF ProbeMiss, ProbeError, ProbeHit, StoreStale, NameLayer, cacheVars, invVars
    <3>2. /\ rpc'[p] \in OffPlaces /\ rpc[p] \notin {"evicted", "inserted"}
          /\ \A o \in Resolvers : o # p => rpc'[o] = rpc[o]
      BY <1>0, <2>2 DEF ProbeMiss, ProbeError, ProbeHit, StoreStale, NameLayer, Return,
                        Served, Leave, Goto, OffPlaces
    <3> QED
      BY <1>0, <3>1, <3>2, SizeFrame DEF OffPlaces
  <2>3. CASE StoreCheck(p)
    <3>1. UNCHANGED <<entry, lru, size, path, oldest, ipc, key>>
      BY <2>3 DEF StoreCheck, cacheVars, invVars
    <3>2. /\ rpc[p] = "store" /\ rpc'[p] \in OffPlaces \cup {"insert"}
          /\ MaxEntries <= 0 => rpc'[p] \in OffPlaces
          /\ \A o \in Resolvers : o # p => rpc'[o] = rpc[o]
      BY <1>0, <2>3 DEF StoreCheck, Served, Leave, Goto, OffPlaces
    <3> QED
      BY <1>0, <3>1, <3>2, SizeFrame DEF OffPlaces
  <2>4. CASE StoreUpdate(p)
    <3>1. /\ rpc[p] = "insert" /\ rpc' = [rpc EXCEPT ![p] = "name"]
          /\ entry[path[p]] # 0 /\ idx[p] # 0
          /\ entry' = [entry EXCEPT ![path[p]] = idx[p]]
          /\ lru' = [lru EXCEPT ![ShardOf[path[p]]] = MoveToFront(@, path[p])]
          /\ UNCHANGED <<size, path, oldest, ipc, key>> /\ entry \in [Names -> LayerIdx]
      BY <2>4 DEF StoreUpdate, Learned, Served, Leave, invVars, IInv, IndexInRange, TypeOK
    <3>2. \A s \in ShardIdx : Len(lru'[s]) = Len(lru[s])
      BY <1>0, <3>1, MoveKeepsLengths
    <3>3. \A n \in Names : entry'[n] = 0 <=> entry[n] = 0
      BY <3>1
    <3>4. rpc'[p] = "name" /\ \A o \in Resolvers : o # p => rpc'[o] = rpc[o]
      BY <1>0, <3>1
    <3> QED
      BY <1>0, <3>1, <3>2, <3>3, <3>4, SizeFrame DEF OffPlaces
  <2> QED
    BY <1>4, <2>1, <2>2, <2>3, <2>4, EvictKeepsSize, CountEvictionKeepsSize,
       InsertKeepsSize, CountInsertKeepsSize
    DEF ResolverStep
<1>5. ASSUME NEW v \in Invalidators,
             \/ \E j \in LayerIdx : InvalidateLayer(v, j)
             \/ InvalidateAll(v)
             \/ \E j \in LayerIdx, b \in Backings : ReplaceLayer(v, j, b)
      PROVE  SizeInv'
  <2>1. /\ ipc[v] = "idle" /\ ipc' = [ipc EXCEPT ![v] = "lock"]
        /\ UNCHANGED <<entry, lru, size, rpc, path, oldest, key>>
    BY <1>5 DEF InvalidateLayer, InvalidateAll, ReplaceLayer, StartInvalidate, cacheVars, resVars
  <2>2. ipc'[v] = "lock" /\ \A w \in Invalidators : w # v => ipc'[w] = ipc[w]
    BY <1>0, <2>1
  <2> QED
    BY <1>0, <2>1, <2>2, SizeFrame
<1>6. ASSUME NEW v \in Invalidators, InvalidatorStep(v)
      PROVE  SizeInv'
  <2>1. CASE LockShard(v) \/ ClearDone(v) \/ Bump(v) \/ Unlock(v)
    <3>1. /\ ipc[v] \notin {"uncount", "zero"}
          /\ \E l \in {"lock", "clear", "bump", "unlock", "idle"} : ipc' = [ipc EXCEPT ![v] = l]
          /\ UNCHANGED <<entry, lru, size, rpc, path, oldest, key>>
      BY <2>1 DEF LockShard, ClearDone, Bump, Unlock, cacheVars, resVars
    <3>2. /\ ipc'[v] \notin {"uncount", "zero"}
          /\ \A w \in Invalidators : w # v => ipc'[w] = ipc[w]
      BY <1>0, <3>1
    <3> QED
      BY <1>0, <3>1, <3>2, SizeFrame
  <2> QED
    BY <1>6, <2>1, ClearEntryKeepsSize, CountClearedKeepsSize, ClearAllKeepsSize,
       StoreZeroKeepsSize
    DEF InvalidatorStep
<1> QED
  BY <1>1, <1>2, <1>3, <1>4, <1>5, <1>6 DEF Next

\* The counter is that of the counted paths in every reachable state.
LEMMA SizeInvHolds == Spec => []SizeInv
<1>1. Init => SizeInv
  <2> SUFFICES ASSUME Init
               PROVE  SizeInv
    OBVIOUS
  <2>1. Counted = {} /\ size = 0 /\ CountsFollow
    BY DEF Init, Counted, StillCounted, CountsFollow
  <2> QED
    BY <2>1, FS_EmptySet DEF Init, SizeInv
<1>2. IInv /\ SizeInv /\ [Next]_vars => SizeInv'
  BY NextKeepsSize
<1> QED
  BY <1>1, <1>2, IInvHolds, PTL DEF Spec

\* negCacheSize is the number of entries whenever no shard is locked: the
\* changes that are counted apart from the maps never drift from them.
THEOREM SizeIsCount == Spec => []SizeCountsEntries
<1>1. IInv /\ SizeInv => SizeCountsEntries
  <2> SUFFICES ASSUME IInv, SizeInv, \A s \in ShardIdx : shardMu[s] = Nobody
               PROVE  size = Cardinality(Cached)
    BY DEF SizeCountsEntries
  <2>1. ASSUME NEW p \in Resolvers
        PROVE  rpc[p] \notin {"evicted", "push", "inserted"}
    <3>1. ShardOf[path[p]] \in ShardIdx /\ p # Nobody
      BY NegCacheAssumption DEF IInv, TypeOK
    <3> QED
      BY <3>1 DEF IInv, StoresHoldTheirShard
  <2>2. ASSUME NEW v \in Invalidators
        PROVE  ipc[v] \in {"idle", "lock"}
    <3>1. 0 \in ShardIdx /\ v # Nobody
      BY NegCacheAssumption DEF ShardIdx
    <3> QED
      BY <3>1 DEF IInv, LocksHeld
  <2>3. Counted = Cached
    BY <2>1, <2>2 DEF Counted, Cached, StillCounted, Uncounted
  <2> QED
    BY <2>2, <2>3 DEF SizeInv
<1> QED
  BY <1>1, IInvHolds, SizeInvHolds, PTL

\* Whatever a scrape reads, at whatever moment of resolves, evictions and
\* invalidations, is not negative and exceeds the maximum by less than one entry
\* for each shard.
THEOREM SizeIsBounded == Spec => []SizeStaysBounded
<1>1. IInv /\ SizeInv => SizeStaysBounded
  <2> SUFFICES ASSUME IInv, SizeInv
               PROVE  SizeStaysBounded
    OBVIOUS
  <2>1. CASE MaxEntries <= 0
    BY <2>1 DEF SizeInv, SizeStaysBounded
  <2>2. CASE ~(MaxEntries <= 0)
    <3>1. NumShards * ShardCapacity <= MaxEntries + NumShards - 1
      BY <2>2, CapacityRounding, NegCacheAssumption
    <3>2. NumShards * ShardCapacity \in Int /\ MaxEntries + NumShards - 1 \in Int
      BY NegCacheAssumption, CapacityIsPositive
    <3> DEFINE total == NumShards * ShardCapacity
    <3>3. size \in Nat /\ size <= total
      <4>1. CASE size = Cardinality(Counted)
        BY <4>1, CountedFitShards, FS_CardinalityType DEF SizeInv
      <4>2. CASE size \in 0 .. total
        BY <3>2, <4>2
      <4> QED
        BY <4>1, <4>2 DEF SizeInv
    <3> HIDE DEF total
    <3>4. total <= MaxEntries + NumShards - 1 /\ total \in Int
      BY <3>1, <3>2 DEF total
    <3> QED
      BY <2>2, <3>2, <3>3, <3>4 DEF SizeStaysBounded
  <2> QED
    BY <2>1, <2>2
<1> QED
  BY <1>1, IInvHolds, SizeInvHolds, PTL

-----------------------------------------------------------------------------
(* NegCache implements MissCache. *)

view == [j \in LayerIdx |-> [n \in Names |-> View(j, n)]]

\* What MissCache does not see is a stutter.
LEMMA HiddenStep ==
  ASSUME UNCHANGED <<disk, layers, pending, entry>>
  PROVE  UNCHANGED Miss!mvars
  BY DEF Miss!mvars, View

\* A change of a file is a change of the layers that lie on its backing.
LEMMA ChangeFileIsChange ==
  ASSUME IInv, IInv', NEW b \in Backings, NEW n \in Names, NEW st \in FileStates,
         ChangeFile(b, n, st)
  PROVE  Miss!MissNext
<1> DEFINE J == {j \in LayerIdx : layers[j] = b}
<1>1. /\ disk' = [disk EXCEPT ![b][n] = st] /\ UNCHANGED <<layers, entry>>
      /\ pending' = [j \in LayerIdx |-> pending[j] \/ j \in J]
  BY DEF ChangeFile, Disturb, cacheVars
<1>2. view' \in [LayerIdx -> [Names -> FileStates]]
  BY DEF IInv, TypeOK, view, View
<1>3. \A j \in LayerIdx \ J : view'[j] = view[j]
  BY <1>1 DEF IInv, TypeOK, view, View
<1>4. Miss!Change(J)
  BY <1>1, <1>2, <1>3 DEF Miss!Change, Miss!Layers, LayerIdx, view
<1>5. J \in SUBSET Miss!Layers
  BY DEF Miss!Layers, LayerIdx
<1> QED
  BY <1>4, <1>5 DEF Miss!MissNext

\* A replacement changes its layer.
LEMMA ReplaceLayerIsChange ==
  ASSUME IInv, IInv', NEW v \in Invalidators, NEW i \in LayerIdx, NEW b \in Backings,
         ReplaceLayer(v, i, b)
  PROVE  Miss!MissNext
<1>1. /\ layers' = [layers EXCEPT ![i] = b] /\ UNCHANGED <<disk, entry>>
      /\ pending' = [j \in LayerIdx |-> pending[j] \/ j \in {i}]
  BY DEF ReplaceLayer, Disturb, cacheVars
<1>2. view' \in [LayerIdx -> [Names -> FileStates]]
  BY DEF IInv, TypeOK, view, View
<1>3. \A j \in LayerIdx \ {i} : view'[j] = view[j]
  BY <1>1 DEF IInv, TypeOK, view, View
<1>4. Miss!Change({i})
  BY <1>1, <1>2, <1>3 DEF Miss!Change, Miss!Layers, LayerIdx, view
<1>5. {i} \in SUBSET Miss!Layers
  BY DEF Miss!Layers, LayerIdx
<1> QED
  BY <1>4, <1>5 DEF Miss!MissNext

\* What a resolver stores, it has seen: the second look at the generation,
\* under the shard's lock, is what makes this so.
LEMMA StoreIsLearn ==
  ASSUME IInv, NEW p \in Resolvers, rpc[p] \in {"insert", "push"}, Fresh(p),
         UNCHANGED <<disk, layers, pending>>, entry' = [entry EXCEPT ![path[p]] = idx[p]]
  PROVE  Miss!MissNext
<1> DEFINE E == {}
<1>1. /\ idx[p] \in LayerIdx /\ path[p] \in Names /\ Searching(p)
      /\ entry \in [Names -> LayerIdx]
  BY NegCacheAssumption DEF IInv, TypeOK, IndexInRange, LayerIdx, Searching
<1>2. \A j \in LayerIdx : j < idx[p] => view[j][path[p]] = "absent" \/ pending[j]
  BY <1>1 DEF IInv, SeenMissesAreTrue, Fresh, view
<1>3. view' = view
  BY DEF view, View
<1>4. entry' = [m \in Names |-> IF m = path[p] THEN idx[p]
                                ELSE IF m \in E THEN 0 ELSE entry[m]]
  BY <1>1
<1>5. E \in SUBSET Names
  OBVIOUS
<1> HIDE DEF E
<1>6. Miss!Learn(path[p], idx[p], E)
  BY <1>2, <1>3, <1>4 DEF Miss!Learn, Miss!Layers, LayerIdx, view
<1> QED
  BY <1>1, <1>5, <1>6 DEF Miss!MissNext, Miss!Layers, LayerIdx

\* Overwriting an entry and inserting one learn a miss.
LEMMA StoreUpdateIsLearn ==
  ASSUME IInv, NEW p \in Resolvers, StoreUpdate(p) \/ Insert(p)
  PROVE  Miss!MissNext
<1>1. CASE StoreUpdate(p)
  BY <1>1, StoreIsLearn DEF StoreUpdate, Learned, diskVars
<1>2. CASE Insert(p)
  <2>1. /\ rpc[p] \in {"insert", "push"} /\ UNCHANGED <<disk, layers, pending>>
        /\ entry' = [entry EXCEPT ![path[p]] = idx[p]]
    BY <1>2 DEF Insert, Learned, diskVars
  <2> QED
    BY <1>2, <2>1, InsertHasRoom, StoreIsLearn
<1> QED
  BY <1>1, <1>2

\* Evicting and clearing forget, one path at a time or all at once.
LEMMA DropIsForget ==
  ASSUME IInv, UNCHANGED <<disk, layers, pending>>, NEW E \in SUBSET Names,
         entry' = [m \in Names |-> IF m \in E THEN 0 ELSE entry[m]]
  PROVE  Miss!MissNext
<1>1. Miss!Forget(E)
  BY DEF Miss!Forget, View
<1> QED
  BY <1>1 DEF Miss!MissNext

\* An eviction forgets the oldest path of its shard.
LEMMA EvictIsForget ==
  ASSUME IInv, NEW p \in Resolvers, EvictOldest(p)
  PROVE  Miss!MissNext
<1> DEFINE q == lru[ShardOf[path[p]]]
           last == q[Len(q)]
           E == {last}
<1>1. /\ entry' = [entry EXCEPT ![last] = 0] /\ UNCHANGED <<disk, layers, pending>>
  BY Zenon DEF EvictOldest, diskVars
<1>2. last \in Names /\ entry \in [Names -> LayerIdx]
  BY ListsAfterEvict DEF IInv, TypeOK
<1> HIDE DEF last
<1>3. E \in SUBSET Names /\ entry' = [m \in Names |-> IF m \in E THEN 0 ELSE entry[m]]
  BY <1>1, <1>2
<1> HIDE DEF E
<1> QED
  BY <1>1, <1>3, DropIsForget

\* An invalidation forgets what it clears.
LEMMA ClearIsForget ==
  ASSUME IInv, NEW v \in Invalidators,
         (\E n \in Names : ClearEntry(v, n)) \/ ClearAll(v)
  PROVE  Miss!MissNext
<1>1. entry \in [Names -> LayerIdx]
  BY DEF IInv, TypeOK
<1>2. CASE \E n \in Names : ClearEntry(v, n)
  <2>1. PICK n \in Names : ClearEntry(v, n)
    BY <1>2
  <2> DEFINE E == {n}
  <2>2. E \in SUBSET Names /\ entry' = [m \in Names |-> IF m \in E THEN 0 ELSE entry[m]]
    BY <1>1, <2>1 DEF ClearEntry
  <2>3. UNCHANGED <<disk, layers, pending>>
    BY <2>1 DEF ClearEntry, diskVars
  <2> HIDE DEF E
  <2> QED
    BY <2>2, <2>3, DropIsForget
<1>3. CASE ClearAll(v)
  <2>1. Names \in SUBSET Names /\ entry' = [m \in Names |-> IF m \in Names THEN 0 ELSE entry[m]]
    BY <1>3 DEF ClearAll
  <2>2. UNCHANGED <<disk, layers, pending>>
    BY <1>3 DEF ClearAll, diskVars
  <2> QED
    BY <2>1, <2>2, DropIsForget
<1> QED
  BY <1>2, <1>3

\* When the generation moves on, nothing is claimed of the layers the
\* invalidation is for.
LEMMA BumpIsClean ==
  ASSUME IInv, NEW v \in Invalidators, Bump(v)
  PROVE  Miss!MissNext
<1> DEFINE J == {j \in LayerIdx : target[v] = AllLayers \/ j = target[v]}
<1>1. /\ ipc[v] = "bump" /\ UNCHANGED <<disk, layers, entry>>
      /\ pending' = [j \in LayerIdx |-> pending[j] /\ target[v] # AllLayers /\ j # target[v]]
  BY DEF Bump, cacheVars
<1>2. pending' = [j \in LayerIdx |-> pending[j] /\ j \notin J]
  BY <1>1
<1>3. \A n \in Names, j \in J : entry[n] <= j
  <2>1. entry \in [Names -> LayerIdx] /\ target[v] \in LayerIdx \cup {AllLayers}
    BY DEF IInv, TypeOK
  <2>2. \A n \in Names : entry[n] # 0 => entry[n] < target[v]
    BY <1>1 DEF IInv, ClearedBeforeBump
  <2> QED
    BY <2>1, <2>2, NegCacheAssumption DEF LayerIdx, AllLayers
<1>4. Miss!Clean(J)
  BY <1>1, <1>2, <1>3 DEF Miss!Clean, Miss!Layers, LayerIdx, View
<1>5. J \in SUBSET Miss!Layers
  BY DEF Miss!Layers, LayerIdx
<1> QED
  BY <1>4, <1>5 DEF Miss!MissNext

\* Every step is a step of MissCache or one it does not see.
LEMMA StepImplementsMissCache ==
  ASSUME IInv, IInv', [Next]_vars
  PROVE  [Miss!MissNext]_(Miss!mvars)
<1> USE HiddenStep DEF vars, diskVars, cacheVars
<1>1. CASE UNCHANGED vars
  BY <1>1
<1>2. CASE \E b \in Backings, n \in Names, st \in FileStates : ChangeFile(b, n, st)
  BY <1>2, ChangeFileIsChange
<1>3. ASSUME NEW p \in Resolvers, NEW n \in Names, Snapshot(p, n)
      PROVE  UNCHANGED Miss!mvars
  BY <1>3 DEF Snapshot
<1>4. ASSUME NEW p \in Resolvers, ResolverStep(p)
      PROVE  [Miss!MissNext]_(Miss!mvars)
  <2>1. CASE Lookup(p)
    BY <2>1 DEF Lookup
  <2>2. CASE ProbeMiss(p) \/ ProbeError(p) \/ ProbeHit(p)
    BY <2>2 DEF ProbeMiss, ProbeError, ProbeHit
  <2>3. CASE \/ StoreCheck(p) \/ StoreStale(p)
             \/ CountEviction(p) \/ CountInsert(p) \/ NameLayer(p)
    BY <2>3 DEF StoreCheck, StoreStale, CountEviction, CountInsert, NameLayer
  <2>4. CASE StoreUpdate(p) \/ Insert(p) \/ EvictOldest(p)
    BY <2>4, StoreUpdateIsLearn, EvictIsForget
  <2> QED
    BY <1>4, <2>1, <2>2, <2>3, <2>4 DEF ResolverStep
<1>5. ASSUME NEW v \in Invalidators,
             (\E j \in LayerIdx : InvalidateLayer(v, j)) \/ InvalidateAll(v)
      PROVE  UNCHANGED Miss!mvars
  BY <1>5 DEF InvalidateLayer, InvalidateAll
<1>6. ASSUME NEW v \in Invalidators, NEW j \in LayerIdx, NEW b \in Backings,
             ReplaceLayer(v, j, b)
      PROVE  Miss!MissNext
  BY <1>6, ReplaceLayerIsChange
<1>7. ASSUME NEW v \in Invalidators, InvalidatorStep(v)
      PROVE  [Miss!MissNext]_(Miss!mvars)
  <2>1. CASE LockShard(v) \/ CountCleared(v) \/ ClearDone(v) \/ StoreZero(v) \/ Unlock(v)
    BY <2>1 DEF LockShard, CountCleared, ClearDone, StoreZero, Unlock
  <2>2. CASE (\E n \in Names : ClearEntry(v, n)) \/ ClearAll(v)
    BY <2>2, ClearIsForget
  <2>3. CASE Bump(v)
    BY <2>3, BumpIsClean
  <2> QED
    BY <1>7, <2>1, <2>2, <2>3 DEF InvalidatorStep
<1> QED
  BY <1>1, <1>2, <1>3, <1>4, <1>5, <1>6, <1>7 DEF Next

\* An empty cache over any layers is where MissCache starts.
LEMMA InitImplementsMissCache ==
  ASSUME Init
  PROVE  Miss!MissInit
<1>1. view \in [LayerIdx -> [Names -> FileStates]]
  BY DEF Init, view, View
<1> QED
  BY <1>1 DEF Init, Miss!MissInit, Miss!Layers, LayerIdx, view

\* The cache with its generations, shards, lists and locks implements the
\* cache that may forget and may never remember a false miss.
THEOREM ImplementsMissCache == Spec => MissSpec
<1>1. Init => Miss!MissInit
  BY InitImplementsMissCache
<1>2. IInv /\ IInv' /\ [Next]_vars => [Miss!MissNext]_(Miss!mvars)
  BY StepImplementsMissCache
<1> QED
  BY <1>1, <1>2, IInvHolds, PTL DEF Spec, MissSpec, Miss!MissSpec

=============================================================================
