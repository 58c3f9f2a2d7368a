--------------------------- MODULE PublishProofs ----------------------------
(***************************************************************************)
(* Proofs about module Publish and the modules it is made of.              *)
(***************************************************************************)
EXTENDS Publish, FiniteSetTheorems, SequenceTheorems, WellFoundedInduction, TLAPS

(***************************************************************************)
(* Natural numbers and finite sets.                                        *)
(***************************************************************************)
\* Induction, for a set of numbers instead of a predicate.
LEMMA NatInductionOnSets ==
  ASSUME NEW P, 0 \in P, \A n \in Nat : n \in P => n + 1 \in P
  PROVE  \A n \in Nat : n \in P
<1> DEFINE Q == {n \in Nat : n \notin P}
<1> SUFFICES ASSUME Q # {} PROVE FALSE
  OBVIOUS
<1>1. PICK x \in Q : \A y \in Q : <<y, x>> \notin OpToRel(<, Nat)
  BY WFMin, NatLessThanWellFounded
<1>2. x # 0 /\ x \in Nat /\ x - 1 \in Nat /\ x - 1 < x /\ (x - 1) + 1 = x
  OBVIOUS
<1>3. x - 1 \notin Q
  BY <1>1, <1>2 DEF OpToRel
<1> QED
  BY <1>2, <1>3

\* A finite set of numbers has a greatest one.
LEMMA GreatestExists ==
  ASSUME NEW n \in Nat, NEW T, T \subseteq 0 .. n, T # {}
  PROVE  \E x \in T : \A y \in T : y <= x
<1> DEFINE P == {m \in Nat : (\E y \in T : n - y <= m) => \E x \in T : \A y \in T : y <= x}
<1>1. 0 \in P
  OBVIOUS
<1>2. ASSUME NEW m \in Nat, m \in P PROVE m + 1 \in P
  <2> SUFFICES ASSUME NEW y \in T, n - y <= m + 1 PROVE \E x \in T : \A z \in T : z <= x
    OBVIOUS
  <2>1. CASE \A z \in T : z <= y
    BY <2>1
  <2>2. CASE \E z \in T : ~(z <= y)
    <3>1. PICK z \in T : ~(z <= y)
      BY <2>2
    <3>2. n - z <= m
      BY <3>1
    <3> QED
      BY <1>2, <3>2
  <2> QED
    BY <2>1, <2>2
<1>3. n \in P
  <2> HIDE DEF P
  <2> QED
    BY <1>1, <1>2, NatInductionOnSets
<1>4. PICK y \in T : TRUE
  OBVIOUS
<1>5. n - y <= n
  BY <1>4
<1> QED
  BY <1>3, <1>4, <1>5

\* A set of places has a last one.
LEMMA LastPlace ==
  ASSUME NEW n \in Nat, NEW T \in SUBSET (1 .. n), T # {}
  PROVE  Max(T) \in T /\ \A y \in T : y <= Max(T)
<1>1. \E x \in T : \A y \in T : y <= x
  <2>1. T \subseteq 0 .. n
    OBVIOUS
  <2> QED
    BY <2>1, GreatestExists
<1>2. \E x \in T : \A y \in T : x >= y
  BY <1>1
<1> QED
  BY <1>2 DEF Max

\* What the folds of the community modules compute: a function on the subsets
\* of S that takes one chosen element off each.
FoldsOf(S, V, base, some, op) ==
  {g \in [SUBSET S -> V] :
     \A s \in SUBSET S : g[s] = IF s = {} THEN base ELSE op[<<some[s], g[s \ {some[s]}]>>]}

\* There is such a function.
LEMMA FoldExists ==
  ASSUME NEW S, IsFiniteSet(S), NEW V, NEW base \in V,
         NEW some, \A s \in SUBSET S : s # {} => some[s] \in s,
         NEW op, \A x \in S : \A v \in V : op[<<x, v>>] \in V
  PROVE  FoldsOf(S, V, base, some, op) # {}
<1> DEFINE Step(g, s) == IF s = {} THEN base ELSE op[<<some[s], g[s \ {some[s]}]>>]
           Solves(g, n) == \A s \in SUBSET S : Cardinality(s) <= n => g[s] = Step(g, s)
           P == {n \in Nat : \E g \in [SUBSET S -> V] : Solves(g, n)}
<1>0. \A s \in SUBSET S : /\ Cardinality(s) \in Nat
                          /\ Cardinality(s) <= Cardinality(S)
                          /\ Cardinality(s) = 0 <=> s = {}
                          /\ s # {} => Cardinality(s \ {some[s]}) = Cardinality(s) - 1
                          /\ s \ {some[s]} \in SUBSET S
  BY FS_Subset, FS_CardinalityType, FS_EmptySet, FS_RemoveElement
<1>1. 0 \in P
  <2> DEFINE g == [s \in SUBSET S |-> base]
  <2>1. ASSUME NEW s \in SUBSET S, Cardinality(s) <= 0 PROVE g[s] = Step(g, s)
    <3>1. s = {}
      <4> HIDE DEF g, P, Solves, Step
      <4>1. Cardinality(s) \in Nat /\ (Cardinality(s) = 0 <=> s = {})
        BY <1>0
      <4> QED
        BY <2>1, <4>1
    <3> QED
      BY <3>1
  <2>2. g \in [SUBSET S -> V] /\ Solves(g, 0)
    BY <2>1
  <2> HIDE DEF g, Solves
  <2> QED
    BY <2>2
<1>2. ASSUME NEW n \in Nat, n \in P PROVE n + 1 \in P
  <2>1. PICK g \in [SUBSET S -> V] : Solves(g, n)
    BY <1>2
  <2> DEFINE h == [s \in SUBSET S |-> IF Cardinality(s) <= n THEN g[s] ELSE Step(g, s)]
  <2>2. \A s \in SUBSET S : Step(g, s) \in V
    <3> SUFFICES ASSUME NEW s \in SUBSET S, s # {} PROVE op[<<some[s], g[s \ {some[s]}]>>] \in V
      OBVIOUS
    <3>1. some[s] \in S /\ s \ {some[s]} \in SUBSET S
      OBVIOUS
    <3> QED
      BY <3>1
  <2>3. h \in [SUBSET S -> V]
    BY <2>2
  <2>4. ASSUME NEW s \in SUBSET S, Cardinality(s) <= n + 1 PROVE h[s] = Step(h, s)
    <3>1. CASE s = {}
      BY <1>0, <2>1, <3>1
    <3>2. CASE s # {}
      <4> DEFINE u == s \ {some[s]}
      <4>1. u \in SUBSET S /\ Cardinality(u) <= n
        BY <1>0, <2>4, <3>2
      <4>2. h[u] = g[u]
        BY <4>1
      <4>3. h[s] = Step(g, s)
        BY <2>1
      <4> QED
        BY <3>2, <4>2, <4>3
    <3> QED
      BY <3>1, <3>2
  <2> HIDE DEF h, Step
  <2>5. h \in [SUBSET S -> V] /\ Solves(h, n + 1) /\ n + 1 \in Nat
    BY <2>3, <2>4
  <2> HIDE DEF h, Solves
  <2> QED
    BY <2>5
<1>3. Cardinality(S) \in P
  <2> HIDE DEF P
  <2>1. Cardinality(S) \in Nat
    BY FS_CardinalityType
  <2> QED
    BY <1>1, <1>2, <2>1, NatInductionOnSets
<1>4. PICK g \in [SUBSET S -> V] : Solves(g, Cardinality(S))
  BY <1>3
<1>5. \A s \in SUBSET S : g[s] = Step(g, s)
  BY <1>0, <1>4
<1> QED
  BY <1>5 DEF FoldsOf

(***************************************************************************)
(* Sums.                                                                   *)
(***************************************************************************)
\* What is summed, one unit at a time.
Units(f, T) == UNION {{x} \X (1 .. f[x]) : x \in T}

\* Units of another element are others.
LEMMA UnitsAdd ==
  ASSUME NEW f, NEW T, NEW x, x \notin T, f[x] \in Nat, IsFiniteSet(Units(f, T))
  PROVE  /\ IsFiniteSet(Units(f, T \cup {x}))
         /\ Cardinality(Units(f, T \cup {x})) = Cardinality(Units(f, T)) + f[x]
<1> DEFINE A == Units(f, T)
           B == {x} \X (1 .. f[x])
<1>1. Units(f, T \cup {x}) = A \cup B
  BY DEF Units
<1>2. IsFiniteSet(B) /\ Cardinality(B) = f[x]
  <2>1. IsFiniteSet({x}) /\ Cardinality({x}) = 1
    BY FS_Singleton
  <2>2. IsFiniteSet(1 .. f[x]) /\ Cardinality(1 .. f[x]) = f[x]
    BY FS_Interval, SMTT(30)
  <2>3. IsFiniteSet(B) /\ Cardinality(B) = Cardinality({x}) * Cardinality(1 .. f[x])
    BY <2>1, <2>2, FS_Product
  <2> HIDE DEF B
  <2> QED
    BY <2>1, <2>2, <2>3
<1>3. A \cap B = {}
  BY DEF Units
<1> HIDE DEF A, B
<1>4. /\ IsFiniteSet(A \cup B)
      /\ Cardinality(A \cup B) = Cardinality(A) + Cardinality(B) - Cardinality(A \cap B)
  BY <1>2, FS_Union DEF A
<1>5. Cardinality(A) \in Nat /\ Cardinality(A \cap B) = 0
  BY <1>3, FS_CardinalityType, FS_EmptySet DEF A
<1>6. Cardinality(A \cup B) = Cardinality(A) + f[x]
  BY <1>2, <1>4, <1>5
<1> QED
  BY <1>1, <1>4, <1>6 DEF A

\* The sum that the fold computes, in whatever order it takes the elements.
LEMMA SumIsCount ==
  ASSUME NEW S, IsFiniteSet(S), NEW f, \A x \in S : f[x] \in Nat
  PROVE  IsFiniteSet(Units(f, S)) /\ SumFunctionOnSet(f, S) = Cardinality(Units(f, S))
<1> DEFINE Some(s) == CHOOSE x \in s : TRUE
           some == [s \in SUBSET S |-> Some(s)]
           op == [xv \in S \X Nat |-> f[xv[1]] + xv[2]]
           Is(g) == g = [s \in SUBSET S |-> IF s = {} THEN 0 ELSE f[Some(s)] + g[s \ {Some(s)}]]
           h == CHOOSE g : Is(g)
<1>1. SumFunctionOnSet(f, S) = h[S]
  BY DEF SumFunctionOnSet, FoldFunctionOnSet, MapThenFoldSet
<1>2. \E g : Is(g)
  <2>1. PICK g \in [SUBSET S -> Nat] :
          \A s \in SUBSET S : g[s] = IF s = {} THEN 0 ELSE op[<<some[s], g[s \ {some[s]}]>>]
    <3>1. \A s \in SUBSET S : s # {} => some[s] \in s
      OBVIOUS
    <3>2. \A x \in S : \A v \in Nat : op[<<x, v>>] \in Nat
      OBVIOUS
    <3> HIDE DEF some, op, Is, h, Some
    <3>3. FoldsOf(S, Nat, 0, some, op) # {}
      BY <3>1, <3>2, FoldExists
    <3> QED
      BY <3>3 DEF FoldsOf
  <2>2. ASSUME NEW s \in SUBSET S, s # {}
        PROVE  op[<<some[s], g[s \ {some[s]}]>>] = f[Some(s)] + g[s \ {Some(s)}]
    <3>1. Some(s) \in S /\ some[s] = Some(s)
      BY <2>2
    <3>2. s \ {Some(s)} \in SUBSET S
      OBVIOUS
    <3>3. g[s \ {Some(s)}] \in Nat
      BY <3>2
    <3> HIDE DEF Some, some
    <3> QED
      BY <3>1, <3>3
  <2>3. Is(g)
    <3> HIDE DEF op, some, Some
    <3> QED
      BY <2>1, <2>2
  <2> QED
    BY <2>3
<1>3. Is(h)
  BY <1>2
<1>4. \A s \in SUBSET S : s # {} => Some(s) \in s
  OBVIOUS
<1> HIDE DEF h, Some
<1> DEFINE P == {n \in Nat : \A s \in SUBSET S : Cardinality(s) = n =>
                    IsFiniteSet(Units(f, s)) /\ h[s] = Cardinality(Units(f, s))}
<1>5. 0 \in P
  <2> SUFFICES ASSUME NEW s \in SUBSET S, Cardinality(s) = 0
               PROVE  IsFiniteSet(Units(f, s)) /\ h[s] = Cardinality(Units(f, s))
    OBVIOUS
  <2>1. s = {}
    BY FS_EmptySet, FS_Subset
  <2>2. h[s] = 0 /\ Units(f, s) = {}
    BY <1>3, <2>1 DEF Units
  <2> QED
    BY <2>2, FS_EmptySet
<1>6. ASSUME NEW n \in Nat, n \in P PROVE n + 1 \in P
  <2> SUFFICES ASSUME NEW s \in SUBSET S, Cardinality(s) = n + 1
               PROVE  IsFiniteSet(Units(f, s)) /\ h[s] = Cardinality(Units(f, s))
    OBVIOUS
  <2> DEFINE x == Some(s)
             r == s \ {x}
  <2>1. IsFiniteSet(s) /\ s # {}
    BY FS_EmptySet, FS_Subset
  <2>2. x \in s /\ x \in S /\ r \in SUBSET S /\ x \notin r /\ s = r \cup {x}
    BY <1>4, <2>1
  <2>3. Cardinality(r) = n
    <3>1. Cardinality(r) = Cardinality(s) - 1
      BY <2>1, <2>2, FS_RemoveElement
    <3> QED
      BY <3>1
  <2>4. IsFiniteSet(Units(f, r)) /\ h[r] = Cardinality(Units(f, r))
    BY <1>6, <2>2, <2>3
  <2>5. h[s] = f[x] + h[r]
    BY <1>3, <2>1
  <2>6. f[x] \in Nat
    BY <2>2
  <2> HIDE DEF r, x
  <2>7. /\ IsFiniteSet(Units(f, s))
        /\ Cardinality(Units(f, s)) = Cardinality(Units(f, r)) + f[x]
    BY <2>2, <2>4, <2>6, UnitsAdd
  <2>8. Cardinality(Units(f, r)) \in Nat
    BY <2>4, FS_CardinalityType
  <2> QED
    BY <2>4, <2>5, <2>6, <2>7, <2>8
<1>7. Cardinality(S) \in P
  <2> HIDE DEF P
  <2>1. Cardinality(S) \in Nat
    BY FS_CardinalityType
  <2> QED
    BY <1>5, <1>6, <2>1, NatInductionOnSets
<1> QED
  BY <1>1, <1>7

\* A sum over a set is a natural number, nothing for the empty set, and grows
\* by what an element that is added adds.
LEMMA SumProperties ==
  ASSUME NEW S, IsFiniteSet(S), NEW f, \A x \in S : f[x] \in Nat
  PROVE  /\ SumFunctionOnSet(f, S) \in Nat
         /\ S = {} => SumFunctionOnSet(f, S) = 0
         /\ \A x : x \notin S /\ f[x] \in Nat =>
              SumFunctionOnSet(f, S \cup {x}) = SumFunctionOnSet(f, S) + f[x]
<1>1. IsFiniteSet(Units(f, S)) /\ SumFunctionOnSet(f, S) = Cardinality(Units(f, S))
  BY SumIsCount
<1>2. SumFunctionOnSet(f, S) \in Nat
  BY <1>1, FS_CardinalityType
<1>3. S = {} => SumFunctionOnSet(f, S) = 0
  BY <1>1, FS_EmptySet DEF Units
<1>4. ASSUME NEW x, x \notin S, f[x] \in Nat
      PROVE  SumFunctionOnSet(f, S \cup {x}) = SumFunctionOnSet(f, S) + f[x]
  <2>1. IsFiniteSet(S \cup {x}) /\ \A y \in S \cup {x} : f[y] \in Nat
    BY <1>4, FS_AddElement
  <2>2. SumFunctionOnSet(f, S \cup {x}) = Cardinality(Units(f, S \cup {x}))
    BY <2>1, SumIsCount
  <2>3. Cardinality(Units(f, S \cup {x})) = Cardinality(Units(f, S)) + f[x]
    BY <1>1, <1>4, UnitsAdd
  <2> QED
    BY <1>1, <2>2, <2>3
<1> QED
  BY <1>2, <1>3, <1>4

\* A sum over two sets that share nothing is the sum of the sums.
LEMMA SumOfTwo ==
  ASSUME NEW S, IsFiniteSet(S), NEW T, IsFiniteSet(T), S \cap T = {},
         NEW f, \A x \in S \cup T : f[x] \in Nat
  PROVE  SumFunctionOnSet(f, S \cup T) = SumFunctionOnSet(f, S) + SumFunctionOnSet(f, T)
<1>1. IsFiniteSet(S \cup T)
  BY FS_Union
<1>2. /\ IsFiniteSet(Units(f, S)) /\ SumFunctionOnSet(f, S) = Cardinality(Units(f, S))
      /\ IsFiniteSet(Units(f, T)) /\ SumFunctionOnSet(f, T) = Cardinality(Units(f, T))
  BY SumIsCount
<1>3. SumFunctionOnSet(f, S \cup T) = Cardinality(Units(f, S \cup T))
  BY <1>1, SumIsCount
<1>4. Units(f, S \cup T) = Units(f, S) \cup Units(f, T) /\ Units(f, S) \cap Units(f, T) = {}
  BY DEF Units
<1>6. Cardinality(Units(f, S)) \in Nat /\ Cardinality(Units(f, T)) \in Nat
  BY <1>2, FS_CardinalityType
<1>5. Cardinality(Units(f, S) \cup Units(f, T)) =
        Cardinality(Units(f, S)) + Cardinality(Units(f, T))
  <2>1. Cardinality(Units(f, S) \cup Units(f, T)) =
          Cardinality(Units(f, S)) + Cardinality(Units(f, T))
            - Cardinality(Units(f, S) \cap Units(f, T))
    BY <1>2, FS_Union
  <2>2. Cardinality(Units(f, S) \cap Units(f, T)) = 0
    BY <1>4, FS_EmptySet
  <2> QED
    BY <1>6, <2>1, <2>2
<1> QED
  BY <1>2, <1>3, <1>4, <1>5

(***************************************************************************)
(* Folds over a sequence.                                                  *)
(***************************************************************************)
LastOf(n) == [s \in SUBSET (1 .. n) |-> Max(s)]

\* FoldLeft goes through the places from the last one back.
LEMMA FoldLeftExists ==
  ASSUME NEW n \in Nat, NEW V, NEW base \in V,
         NEW op, \A i \in 1 .. n : \A v \in V : op[<<i, v>>] \in V
  PROVE  FoldsOf(1 .. n, V, base, LastOf(n), op) # {}
<1>1. IsFiniteSet(1 .. n)
  BY FS_Interval
<1>2. \A s \in SUBSET (1 .. n) : s # {} => LastOf(n)[s] \in s
  BY LastPlace DEF LastOf
<1> QED
  BY <1>1, <1>2, FoldExists

LEMMA PrefixOfPlaces ==
  ASSUME NEW n \in Nat, NEW i \in 1 .. n
  PROVE  /\ 1 .. i \in SUBSET (1 .. n) /\ 1 .. i # {}
         /\ Max(1 .. i) = i
         /\ (1 .. i) \ {i} = 1 .. (i - 1)
<1>1. 1 .. i \in SUBSET (1 .. n) /\ i \in 1 .. i
  OBVIOUS
<1>2. Max(1 .. i) \in 1 .. i /\ \A y \in 1 .. i : y <= Max(1 .. i)
  BY <1>1, LastPlace
<1>3. Max(1 .. i) = i
  BY <1>1, <1>2
<1> QED
  BY <1>1, <1>3

(***************************************************************************)
(* The index.                                                              *)
(***************************************************************************)
EntrySet == {Entry(f, doc) : f \in Files, doc \in Docs}

PostingsOf(found) == [i \in 1 .. Len(found) |-> Postings(found[i].doc)]
FixedOf(found) == [i \in 1 .. Len(found) |-> FixedBytes(found[i].doc)]
TermsOf(found, n) == UNION {Terms(found[i].doc) : i \in 1 .. n}

LEMMA FitsCapsMeans ==
  ASSUME NEW found, NEW n, NEW caps
  PROVE  FitsCaps(found, n, caps) <=>
           /\ n <= caps.maxDocs
           /\ SumFunctionOnSet(PostingsOf(found), 1 .. n) <= caps.maxTokens
           /\ SumFunctionOnSet(FixedOf(found), 1 .. n) + BytesOf(TermsOf(found, n))
                <= caps.maxIndexBytes
BY DEF FitsCaps, PostingsOf, FixedOf, TermsOf

LEMMA DocNumbers ==
  ASSUME NEW doc \in Docs
  PROVE  /\ Postings(doc) \in Nat /\ FixedBytes(doc) \in Nat
         /\ IsFiniteSet(Terms(doc)) /\ Terms(doc) \subseteq DOMAIN TermBytes
<1>1. /\ IsFiniteSet(doc.titleTerms) /\ IsFiniteSet(doc.tagTerms) /\ IsFiniteSet(doc.bodyTerms)
      /\ doc.titleTerms \cup doc.tagTerms \cup doc.bodyTerms \subseteq DOMAIN TermBytes
      /\ doc.bytes \in Nat
  BY SiteAssumption
<1>2. Postings(doc) \in Nat
  <2>1. /\ Cardinality(doc.titleTerms) \in Nat
        /\ Cardinality(doc.tagTerms) \in Nat
        /\ Cardinality(doc.bodyTerms) \in Nat
    BY <1>1, FS_CardinalityType
  <2> QED
    BY <2>1 DEF Postings
<1>3. IsFiniteSet(Terms(doc))
  BY <1>1, FS_Union DEF Terms
<1> QED
  BY <1>1, <1>2, <1>3 DEF Terms, FixedBytes

LEMMA BytesOfTerms ==
  ASSUME NEW T, IsFiniteSet(T), T \subseteq DOMAIN TermBytes
  PROVE  /\ BytesOf(T) \in Nat
         /\ \A U : IsFiniteSet(U) /\ U \subseteq DOMAIN TermBytes =>
              BytesOf(T \cup U) = BytesOf(T) + BytesOf(U \ T)
<1>1. \A x \in DOMAIN TermBytes : TermBytes[x] \in Nat
  BY SiteAssumption
<1>2. BytesOf(T) \in Nat
  BY <1>1, SumProperties DEF BytesOf
<1>3. ASSUME NEW U, IsFiniteSet(U), U \subseteq DOMAIN TermBytes
      PROVE  BytesOf(T \cup U) = BytesOf(T) + BytesOf(U \ T)
  <2>1. IsFiniteSet(U \ T) /\ T \cup U = T \cup (U \ T) /\ T \cap (U \ T) = {}
    BY <1>3, FS_Difference
  <2>2. \A x \in T \cup (U \ T) : TermBytes[x] \in Nat
    BY <1>1, <1>3
  <2> QED
    BY <2>1, <2>2, SumOfTwo DEF BytesOf
<1> QED
  BY <1>2, <1>3

Reasons == {"none", "max_docs", "max_tokens", "max_index_bytes"}

IndexSet(caps) ==
  [docs : Seq(EntrySet), terms : {T \in SUBSET DOMAIN TermBytes : IsFiniteSet(T)},
   tokenCount : Nat, logicalBytes : Nat, reason : Reasons, caps : {caps}]

\* What an index knows when n of the posts have been looked at.
IndexAfter(ix, found, n) ==
  LET m == Len(ix.docs)
  IN  /\ m <= n /\ ix.docs = SubSeq(found, 1, m)
      /\ ix.terms = TermsOf(found, m)
      /\ ix.tokenCount = SumFunctionOnSet(PostingsOf(found), 1 .. m)
      /\ ix.logicalBytes = SumFunctionOnSet(FixedOf(found), 1 .. m) + BytesOf(ix.terms)
      /\ FitsCaps(found, m, ix.caps)
      /\ ix.reason = "none" => m = n
      /\ ix.reason # "none" => m < n /\ ~FitsCaps(found, m + 1, ix.caps)

LEMMA EntryDoc ==
  ASSUME NEW e \in EntrySet
  PROVE  e.doc \in Docs /\ e.path \in Files /\ e = Entry(e.path, e.doc)
BY DEF EntrySet, Entry

LEMMA EmptyIndexKnows ==
  ASSUME NEW found \in Seq(EntrySet), NEW caps \in Configs
  PROVE  EmptyIndex(caps) \in IndexSet(caps) /\ IndexAfter(EmptyIndex(caps), found, 0)
<1> DEFINE ix == EmptyIndex(caps)
<1>1. /\ ix.docs = << >> /\ Len(ix.docs) = 0 /\ ix.terms = {} /\ ix.tokenCount = 0
      /\ ix.logicalBytes = 0 /\ ix.reason = "none" /\ ix.caps = caps
  BY DEF EmptyIndex
<1>2. ix \in IndexSet(caps)
  BY FS_EmptySet DEF EmptyIndex, IndexSet, Reasons
<1>3. IsFiniteSet({}) /\ 1 .. 0 = {}
  BY FS_EmptySet
<1>4. /\ SumFunctionOnSet(PostingsOf(found), 1 .. 0) = 0
      /\ SumFunctionOnSet(FixedOf(found), 1 .. 0) = 0
      /\ BytesOf({}) = 0
  BY <1>3, SumProperties DEF BytesOf
<1>5. TermsOf(found, 0) = {}
  BY <1>3 DEF TermsOf
<1>6. SubSeq(found, 1, 0) = << >>
  BY SubSeqEmpty
<1>7. FitsCaps(found, 0, caps)
  <2>1. 0 <= caps.maxDocs /\ 0 <= caps.maxTokens /\ 0 <= caps.maxIndexBytes
    BY ConfigAssumption
  <2>2. SumFunctionOnSet(FixedOf(found), 1 .. 0) + BytesOf(TermsOf(found, 0)) = 0
    <3>1. BytesOf(TermsOf(found, 0)) = 0
      BY <1>4, <1>5
    <3>2. \A a, b : a = 0 /\ b = 0 => a + b = 0
      OBVIOUS
    <3> QED
      BY <1>4, <3>1, <3>2
  <2> QED
    BY <1>4, <2>1, <2>2, FitsCapsMeans
<1> HIDE DEF ix
<1> QED
  BY <1>1, <1>2, <1>4, <1>5, <1>6, <1>7 DEF IndexAfter, ix

\* What one more post changes.
LEMMA AdmitKnows ==
  ASSUME NEW found \in Seq(EntrySet), NEW caps \in Configs, NEW n \in 1 .. Len(found),
         NEW ix \in IndexSet(caps), IndexAfter(ix, found, n - 1)
  PROVE  /\ Admit(ix, found[n]) \in IndexSet(caps)
         /\ IndexAfter(Admit(ix, found[n]), found, n)
<1> DEFINE doc == found[n].doc
           m == Len(ix.docs)
           next == Admit(ix, found[n])
           fits == FitsCaps(found, n, caps)
<1> SUFFICES next \in IndexSet(caps) /\ IndexAfter(next, found, n)
  OBVIOUS
<1>0. /\ Len(found) \in Nat /\ found[n] \in EntrySet /\ doc \in Docs
      /\ \A i \in 1 .. Len(found) : found[i].doc \in Docs
  BY EntryDoc
<1>1. /\ ix.docs \in Seq(EntrySet) /\ ix.terms \subseteq DOMAIN TermBytes
      /\ IsFiniteSet(ix.terms) /\ ix.tokenCount \in Nat /\ ix.logicalBytes \in Nat
      /\ ix.reason \in Reasons /\ ix.caps = caps /\ m \in Nat
  BY DEF IndexSet
<1>2. CASE ix.reason # "none"
  <2>1. next = ix
    BY <1>2 DEF Admit
  <2> QED
    BY <1>1, <1>2, <2>1 DEF IndexAfter
<1>3. CASE ix.reason = "none"
  <2> DEFINE postings == PostingsOf(found)
             fixed == FixedOf(found)
  <2>1. m = n - 1 /\ m + 1 = n /\ 1 .. n = (1 .. m) \cup {n} /\ n \notin 1 .. m
    BY <1>1, <1>3 DEF IndexAfter
  <2>2. /\ Postings(doc) \in Nat /\ FixedBytes(doc) \in Nat
        /\ IsFiniteSet(Terms(doc)) /\ Terms(doc) \subseteq DOMAIN TermBytes
    BY <1>0, DocNumbers
  <2>3. TermsOf(found, n) = ix.terms \cup Terms(doc)
    BY <2>1, <1>3 DEF TermsOf, IndexAfter
  <2>4. /\ \A i \in 1 .. Len(found) : postings[i] \in Nat /\ fixed[i] \in Nat
        /\ postings[n] = Postings(doc) /\ fixed[n] = FixedBytes(doc)
    BY <1>0, DocNumbers DEF PostingsOf, FixedOf
  <2>5. IsFiniteSet(1 .. m) /\ 1 .. m \subseteq 1 .. Len(found) /\ n \in 1 .. Len(found)
    BY <1>0, <1>1, <2>1, FS_Interval
  <2>6. /\ SumFunctionOnSet(postings, 1 .. n) = ix.tokenCount + Postings(doc)
        /\ SumFunctionOnSet(fixed, 1 .. n) = SumFunctionOnSet(fixed, 1 .. m) + FixedBytes(doc)
        /\ SumFunctionOnSet(fixed, 1 .. m) \in Nat
    <3> HIDE DEF postings, fixed
    <3>1. \A i \in 1 .. m : postings[i] \in Nat /\ fixed[i] \in Nat
      BY <2>4, <2>5
    <3>2. postings[n] \in Nat /\ fixed[n] \in Nat
      BY <2>4
    <3> DEFINE before == 1 .. m
    <3>3. IsFiniteSet(before) /\ n \notin before /\ 1 .. n = before \cup {n}
      BY <2>1, <2>5
    <3> HIDE DEF before
    <3>4. SumFunctionOnSet(postings, before \cup {n}) =
            SumFunctionOnSet(postings, before) + postings[n]
      BY <3>1, <3>2, <3>3, SumProperties DEF before
    <3>5. /\ SumFunctionOnSet(fixed, before \cup {n}) =
               SumFunctionOnSet(fixed, before) + fixed[n]
          /\ SumFunctionOnSet(fixed, before) \in Nat
      BY <3>1, <3>2, <3>3, SumProperties DEF before
    <3>6. ix.tokenCount = SumFunctionOnSet(postings, before)
      BY DEF IndexAfter, postings, before
    <3> QED
      BY <2>4, <3>3, <3>4, <3>5, <3>6 DEF before
  <2>7. /\ BytesOf(TermsOf(found, n)) = BytesOf(ix.terms) + BytesOf(Terms(doc) \ ix.terms)
        /\ BytesOf(ix.terms) \in Nat /\ BytesOf(Terms(doc) \ ix.terms) \in Nat
    <3>1. IsFiniteSet(Terms(doc) \ ix.terms) /\ Terms(doc) \ ix.terms \subseteq DOMAIN TermBytes
      BY <2>2, FS_Difference
    <3> QED
      BY <1>1, <2>2, <2>3, <3>1, BytesOfTerms
  <2>8. /\ CandidateBytes(ix, doc) \in Nat
        /\ SumFunctionOnSet(fixed, 1 .. n) + BytesOf(TermsOf(found, n)) =
             ix.logicalBytes + CandidateBytes(ix, doc)
    <3>1. CandidateBytes(ix, doc) = FixedBytes(doc) + BytesOf(Terms(doc) \ ix.terms)
      BY DEF CandidateBytes
    <3>2. ix.logicalBytes = SumFunctionOnSet(fixed, 1 .. m) + BytesOf(ix.terms)
      BY DEF IndexAfter
    <3> HIDE DEF fixed, doc, m
    <3> QED
      BY <2>2, <2>6, <2>7, <3>1, <3>2
  <2>9. fits <=> /\ n <= caps.maxDocs
                 /\ ix.tokenCount + Postings(doc) <= caps.maxTokens
                 /\ ix.logicalBytes + CandidateBytes(ix, doc) <= caps.maxIndexBytes
    BY <2>6, <2>8, FitsCapsMeans
  <2>10. Exceeded(ix, doc) \in Reasons /\ (Exceeded(ix, doc) = "none" <=> fits)
    <3>1. /\ caps.maxDocs \in Nat \ {0} /\ caps.maxTokens \in Nat \ {0}
          /\ caps.maxIndexBytes \in Nat \ {0}
      BY ConfigAssumption
    <3> DEFINE t == ix.tokenCount + Postings(doc)
               b == ix.logicalBytes + CandidateBytes(ix, doc)
    <3>2. t \in Nat /\ b \in Nat
      BY <1>1, <2>2, <2>8, SMTT(30)
    <3>3. Exceeded(ix, doc) = IF n > caps.maxDocs THEN "max_docs"
                              ELSE IF t > caps.maxTokens THEN "max_tokens"
                              ELSE IF b > caps.maxIndexBytes THEN "max_index_bytes" ELSE "none"
      <4> HIDE DEF doc
      <4> QED
        BY <1>1, <2>1, <3>1 DEF Exceeded
    <3> HIDE DEF fits, doc, t, b
    <3> QED
      BY <2>9, <3>1, <3>2, <3>3 DEF Reasons, t, b
  <2>11. CASE ~fits
    <3>1. next = [ix EXCEPT !.reason = Exceeded(ix, doc)]
      BY <1>3, <2>10, <2>11 DEF Admit
    <3>2. /\ next \in IndexSet(caps)
          /\ next.docs = ix.docs /\ next.terms = ix.terms /\ next.tokenCount = ix.tokenCount
          /\ next.logicalBytes = ix.logicalBytes /\ next.caps = ix.caps
          /\ next.reason # "none"
      <4> HIDE DEF next, fits
      <4> QED
        BY <2>10, <2>11, <3>1 DEF IndexSet
    <3> HIDE DEF next
    <3> QED
      BY <1>1, <2>1, <2>11, <3>2 DEF IndexAfter
  <2>12. CASE fits
    <3>1. next = [ix EXCEPT !.docs = Append(@, found[n]),
                            !.terms = @ \cup Terms(doc),
                            !.tokenCount = @ + Postings(doc),
                            !.logicalBytes = @ + CandidateBytes(ix, doc)]
      BY <1>3, <2>10, <2>12 DEF Admit
    <3>2. Append(ix.docs, found[n]) \in Seq(EntrySet) /\ Len(Append(ix.docs, found[n])) = n
      BY <1>0, <1>1, <2>1
    <3>3. IsFiniteSet(ix.terms \cup Terms(doc)) /\ ix.terms \cup Terms(doc) \subseteq DOMAIN TermBytes
      BY <1>1, <2>2, FS_Union
    <3>4. next \in IndexSet(caps)
      <4>1. /\ ix.tokenCount + Postings(doc) \in Nat
            /\ ix.logicalBytes + CandidateBytes(ix, doc) \in Nat
        BY <1>1, <2>2, <2>8, SMTT(30)
      <4> HIDE DEF next, doc
      <4> QED
        BY <3>1, <3>2, <3>3, <4>1 DEF IndexSet
    <3>5. /\ next.docs = Append(ix.docs, found[n]) /\ next.terms = ix.terms \cup Terms(doc)
          /\ next.tokenCount = ix.tokenCount + Postings(doc)
          /\ next.logicalBytes = ix.logicalBytes + CandidateBytes(ix, doc)
          /\ next.reason = "none" /\ next.caps = caps
      <4> HIDE DEF next
      <4> QED
        BY <1>1, <1>3, <3>1 DEF IndexSet
    <3>6. Append(ix.docs, found[n]) = SubSeq(found, 1, n)
      <4>1. ix.docs = SubSeq(found, 1, n - 1)
        BY <2>1 DEF IndexAfter
      <4>2. SubSeq(found, 1, n) = SubSeq(found, 1, n - 1) \o <<found[n]>>
        BY <1>0, SubSeqRecursiveSecond
      <4> QED
        BY <1>0, <1>1, <4>1, <4>2, AppendIsConcat
    <3> HIDE DEF next
    <3> QED
      BY <2>3, <2>6, <2>8, <2>12, <3>2, <3>4, <3>5, <3>6 DEF IndexAfter
  <2> QED
    BY <2>11, <2>12
<1> QED
  BY <1>2, <1>3

\* Build goes through the posts with Admit.
LEMMA BuildKnows ==
  ASSUME NEW found \in Seq(EntrySet), NEW caps \in Configs
  PROVE  /\ Build(found, caps) \in IndexSet(caps)
         /\ IndexAfter(Build(found, caps), found, Len(found))
<1> DEFINE n == Len(found)
           V == IndexSet(caps)
           empty == EmptyIndex(caps)
           Good(ix, i) == ix \in V /\ IndexAfter(ix, found, i)
           Is(g) == g = [s \in SUBSET (1 .. n) |->
                           IF s = {} THEN empty ELSE Admit(g[s \ {Max(s)}], found[Max(s)])]
           h == CHOOSE g : Is(g)
<1>1. n \in Nat /\ DOMAIN found = 1 .. n
  OBVIOUS
<1>2. Build(found, caps) = h[1 .. n]
  BY <1>1 DEF Build, FoldLeft, MapThenFoldSet
<1>3. Good(empty, 0)
  BY EmptyIndexKnows
<1>4. ASSUME NEW i \in 1 .. n, NEW ix, Good(ix, i - 1) PROVE Good(Admit(ix, found[i]), i)
  BY <1>4, AdmitKnows
<1>5. \A i \in 1 .. n : \A ix \in V : Admit(ix, found[i]) \in V
  <2> SUFFICES ASSUME NEW i \in 1 .. n, NEW ix \in V PROVE Admit(ix, found[i]) \in V
    OBVIOUS
  <2>1. found[i] \in EntrySet
    BY <1>1
  <2>2. /\ ix.docs \in Seq(EntrySet) /\ ix.terms \subseteq DOMAIN TermBytes
        /\ IsFiniteSet(ix.terms) /\ ix.tokenCount \in Nat /\ ix.logicalBytes \in Nat
        /\ ix.reason \in Reasons /\ ix.caps = caps
    BY DEF IndexSet
  <2> DEFINE doc == found[i].doc
  <2>3. /\ Postings(doc) \in Nat /\ FixedBytes(doc) \in Nat
        /\ IsFiniteSet(Terms(doc)) /\ Terms(doc) \subseteq DOMAIN TermBytes
    BY <2>1, EntryDoc, DocNumbers
  <2>4. CandidateBytes(ix, doc) \in Nat
    <3>1. IsFiniteSet(Terms(doc) \ ix.terms) /\ Terms(doc) \ ix.terms \subseteq DOMAIN TermBytes
      BY <2>3, FS_Difference
    <3>2. BytesOf(Terms(doc) \ ix.terms) \in Nat
      BY <3>1, BytesOfTerms
    <3> QED
      BY <2>3, <3>2 DEF CandidateBytes
  <2>5. Exceeded(ix, doc) \in Reasons
    BY DEF Exceeded, Reasons
  <2>6. IsFiniteSet(ix.terms \cup Terms(doc)) /\ ix.terms \cup Terms(doc) \subseteq DOMAIN TermBytes
    BY <2>2, <2>3, FS_Union
  <2>7. /\ ix.tokenCount + Postings(doc) \in Nat
        /\ ix.logicalBytes + CandidateBytes(ix, doc) \in Nat
        /\ Append(ix.docs, found[i]) \in Seq(EntrySet)
    BY <2>1, <2>2, <2>3, <2>4, SMTT(30)
  <2>8. \/ Admit(ix, found[i]) = ix
        \/ Admit(ix, found[i]) = [ix EXCEPT !.reason = Exceeded(ix, doc)]
        \/ Admit(ix, found[i]) = [ix EXCEPT !.docs = Append(@, found[i]),
                                            !.terms = @ \cup Terms(doc),
                                            !.tokenCount = @ + Postings(doc),
                                            !.logicalBytes = @ + CandidateBytes(ix, doc)]
    BY DEF Admit
  <2> HIDE DEF doc
  <2> QED
    BY <2>5, <2>6, <2>7, <2>8 DEF IndexSet
<1>6. Is(h)
  <2> DEFINE op == [iv \in (1 .. n) \X V |-> Admit(iv[2], found[iv[1]])]
             last == LastOf(n)
  <2>1. \A i \in 1 .. n : \A ix \in V : op[<<i, ix>>] = Admit(ix, found[i])
    OBVIOUS
  <2>2. empty \in V
    BY <1>3
  <2> HIDE DEF op, V, empty, n
  <2>3. FoldsOf(1 .. n, V, empty, last, op) # {}
    BY <1>1, <1>5, <2>1, <2>2, FoldLeftExists
  <2>4. PICK g \in [SUBSET (1 .. n) -> V] :
          \A s \in SUBSET (1 .. n) : g[s] = IF s = {} THEN empty ELSE op[<<last[s], g[s \ {last[s]}]>>]
    BY <2>3 DEF FoldsOf
  <2>5. ASSUME NEW s \in SUBSET (1 .. n), s # {}
        PROVE  g[s] = Admit(g[s \ {Max(s)}], found[Max(s)])
    <3>1. last[s] = Max(s) /\ Max(s) \in 1 .. n
      BY <1>1, <2>5, LastPlace DEF LastOf
    <3>2. g[s \ {Max(s)}] \in V
      OBVIOUS
    <3> QED
      BY <2>1, <2>4, <2>5, <3>1, <3>2
  <2>6. Is(g)
    <3> HIDE DEF last
    <3>1. g = [s \in SUBSET (1 .. n) |-> g[s]]
      OBVIOUS
    <3>2. \A s \in SUBSET (1 .. n) :
            g[s] = IF s = {} THEN empty ELSE Admit(g[s \ {Max(s)}], found[Max(s)])
      BY <2>4, <2>5
    <3> QED
      BY <3>1, <3>2
  <2> QED
    BY <2>6
<1> DEFINE P == {i \in Nat : i <= n => Good(h[1 .. i], i)}
<1>7. 0 \in P
  <2>1. 1 .. 0 = {} /\ {} \in SUBSET (1 .. n)
    OBVIOUS
  <2> HIDE DEF h, Good, empty
  <2>2. h[{}] = empty
    BY <1>6, <2>1
  <2> QED
    BY <1>3, <2>1, <2>2
<1>8. ASSUME NEW i \in Nat, i \in P PROVE i + 1 \in P
  <2> SUFFICES ASSUME i + 1 <= n PROVE Good(h[1 .. (i + 1)], i + 1)
    OBVIOUS
  <2> HIDE DEF h, Good, empty
  <2>1. i + 1 \in 1 .. n /\ (i + 1) - 1 = i
    BY <1>1
  <2>2. /\ 1 .. (i + 1) \in SUBSET (1 .. n) /\ 1 .. (i + 1) # {}
        /\ Max(1 .. (i + 1)) = i + 1
        /\ (1 .. (i + 1)) \ {i + 1} = 1 .. i
    BY <1>1, <2>1, PrefixOfPlaces
  <2>3. h[1 .. (i + 1)] = Admit(h[1 .. i], found[i + 1])
    BY <1>6, <2>2
  <2>4. Good(h[1 .. i], i)
    BY <1>8, <2>1
  <2> QED
    BY <1>4, <2>1, <2>3, <2>4
<1>9. n \in P
  <2> HIDE DEF P, n
  <2> QED
    BY <1>1, <1>7, <1>8, NatInductionOnSets
<1> QED
  BY <1>1, <1>2, <1>9

\* What a search finds are documents of the index, no more than there are.
LEMMA MatchesAreDocs ==
  ASSUME NEW S, NEW ix, ix.docs \in Seq(S), NEW query
  PROVE  Matches(ix, query) \in Seq(S) /\ Len(Matches(ix, query)) <= Len(ix.docs)
<1> DEFINE docs == ix.docs
           n == Len(docs)
           V == Seq(S)
           Take(found, post) == IF Terms(post.doc) \cap query.terms = {} THEN found
                                ELSE Append(found, post)
           Good(found, i) == found \in V /\ Len(found) <= i
           Is(g) == g = [s \in SUBSET (1 .. n) |->
                           IF s = {} THEN << >> ELSE Take(g[s \ {Max(s)}], docs[Max(s)])]
           h == CHOOSE g : Is(g)
<1>1. n \in Nat /\ DOMAIN docs = 1 .. n /\ \A i \in 1 .. n : docs[i] \in S
  OBVIOUS
<1>2. Matches(ix, query) = h[1 .. n]
  BY <1>1 DEF Matches, FoldLeft, MapThenFoldSet
<1>3. Good(<< >>, 0)
  OBVIOUS
<1>4. ASSUME NEW i \in 1 .. n, NEW found, Good(found, i - 1) PROVE Good(Take(found, docs[i]), i)
  BY <1>1, <1>4
<1>5. \A i \in 1 .. n : \A found \in V : Take(found, docs[i]) \in V
  BY <1>1
<1>6. Is(h)
  <2> DEFINE op == [iv \in (1 .. n) \X V |-> Take(iv[2], docs[iv[1]])]
             last == LastOf(n)
             empty == << >>
  <2>1. \A i \in 1 .. n : \A found \in V : op[<<i, found>>] = Take(found, docs[i])
    OBVIOUS
  <2>2. empty \in V
    OBVIOUS
  <2> HIDE DEF op, V, n, Take, empty
  <2>3. FoldsOf(1 .. n, V, empty, last, op) # {}
    BY <1>1, <1>5, <2>1, <2>2, FoldLeftExists
  <2>4. PICK g \in [SUBSET (1 .. n) -> V] :
          \A s \in SUBSET (1 .. n) : g[s] = IF s = {} THEN empty ELSE op[<<last[s], g[s \ {last[s]}]>>]
    BY <2>3 DEF FoldsOf
  <2>5. ASSUME NEW s \in SUBSET (1 .. n), s # {}
        PROVE  g[s] = Take(g[s \ {Max(s)}], docs[Max(s)])
    <3>1. last[s] = Max(s) /\ Max(s) \in 1 .. n
      BY <1>1, <2>5, LastPlace DEF LastOf
    <3>2. g[s \ {Max(s)}] \in V
      OBVIOUS
    <3> QED
      BY <2>1, <2>4, <2>5, <3>1, <3>2
  <2>6. Is(g)
    <3> HIDE DEF last
    <3>1. g = [s \in SUBSET (1 .. n) |-> g[s]]
      OBVIOUS
    <3>2. \A s \in SUBSET (1 .. n) :
            g[s] = IF s = {} THEN << >> ELSE Take(g[s \ {Max(s)}], docs[Max(s)])
      BY <2>4, <2>5 DEF empty
    <3> QED
      BY <3>1, <3>2
  <2> QED
    BY <2>6
<1> DEFINE P == {i \in Nat : i <= n => Good(h[1 .. i], i)}
<1>7. 0 \in P
  <2>1. 1 .. 0 = {} /\ {} \in SUBSET (1 .. n)
    OBVIOUS
  <2> HIDE DEF h, Good
  <2>2. h[{}] = << >>
    BY <1>6, <2>1
  <2> QED
    BY <1>3, <2>1, <2>2
<1>8. ASSUME NEW i \in Nat, i \in P PROVE i + 1 \in P
  <2> SUFFICES ASSUME i + 1 <= n PROVE Good(h[1 .. (i + 1)], i + 1)
    OBVIOUS
  <2> HIDE DEF h, Good, Take
  <2>1. i + 1 \in 1 .. n /\ (i + 1) - 1 = i
    BY <1>1
  <2>2. /\ 1 .. (i + 1) \in SUBSET (1 .. n) /\ 1 .. (i + 1) # {}
        /\ Max(1 .. (i + 1)) = i + 1
        /\ (1 .. (i + 1)) \ {i + 1} = 1 .. i
    BY <1>1, <2>1, PrefixOfPlaces
  <2>3. h[1 .. (i + 1)] = Take(h[1 .. i], docs[i + 1])
    BY <1>6, <2>2
  <2>4. Good(h[1 .. i], i)
    BY <1>8, <2>1
  <2> QED
    BY <1>4, <2>1, <2>3, <2>4
<1>9. n \in P
  <2> HIDE DEF P, n
  <2> QED
    BY <1>1, <1>7, <1>8, NatInductionOnSets
<1>10. Good(h[1 .. n], n)
  <2> HIDE DEF h, Good
  <2> QED
    BY <1>1, <1>9
<1> HIDE DEF h
<1> QED
  BY <1>2, <1>10

(***************************************************************************)
(* Sorting.                                                                *)
(***************************************************************************)
\* How many elements of X the relation R puts before x.
Rank(X, R, x) == Cardinality({y \in X : <<y, x>> \in R})

Orders(R, X) ==
  /\ \A x \in X : <<x, x>> \notin R
  /\ \A x, y, z \in X : <<x, y>> \in R /\ <<y, z>> \in R => <<x, z>> \in R
  /\ \A x, y \in X : x = y \/ <<x, y>> \in R \/ <<y, x>> \in R

\* In a strict total order each element has a place of its own, every place
\* has an element, and an earlier element an earlier place.
LEMMA RanksArePlaces ==
  ASSUME NEW X, IsFiniteSet(X), NEW R, Orders(R, X)
  PROVE  /\ \A x \in X : Rank(X, R, x) \in 0 .. Cardinality(X) - 1
         /\ \A x, y \in X : <<x, y>> \in R <=> Rank(X, R, x) < Rank(X, R, y)
         /\ \A k \in 0 .. Cardinality(X) - 1 : \E x \in X : Rank(X, R, x) = k
<1> DEFINE N == Cardinality(X)
           Before(x) == {y \in X : <<y, x>> \in R}
           rank == [x \in X |-> Rank(X, R, x)]
<1>1. N \in Nat
  BY FS_CardinalityType
<1>2. ASSUME NEW x \in X
      PROVE  IsFiniteSet(Before(x)) /\ Cardinality(Before(x)) \in 0 .. N - 1
  <2>1. Before(x) \in SUBSET X /\ Before(x) # X
    BY DEF Orders
  <2>2. IsFiniteSet(Before(x)) /\ Cardinality(Before(x)) <= N /\ Cardinality(Before(x)) # N
    BY <2>1, FS_Subset
  <2>3. Cardinality(Before(x)) \in Nat
    BY <2>2, FS_CardinalityType
  <2> QED
    BY <1>1, <2>2, <2>3
<1>3. ASSUME NEW x \in X, NEW y \in X, <<x, y>> \in R
      PROVE  Rank(X, R, x) < Rank(X, R, y)
  <2>1. Before(x) \in SUBSET Before(y) /\ x \in Before(y) /\ x \notin Before(x)
    BY <1>3 DEF Orders
  <2>2. Cardinality(Before(x)) <= Cardinality(Before(y)) /\ Cardinality(Before(x)) # Cardinality(Before(y))
    BY <1>2, <2>1, FS_Subset
  <2>3. Cardinality(Before(x)) \in 0 .. N - 1 /\ Cardinality(Before(y)) \in 0 .. N - 1
    BY <1>2
  <2> QED
    BY <1>1, <2>2, <2>3 DEF Rank
<1>4. \A x \in X : Rank(X, R, x) \in 0 .. N - 1
  BY <1>2 DEF Rank
<1>5. ASSUME NEW x \in X, NEW y \in X, Rank(X, R, x) <= Rank(X, R, y)
      PROVE  x = y \/ <<x, y>> \in R
  <2>1. Rank(X, R, x) \in Int /\ Rank(X, R, y) \in Int
    BY <1>1, <1>4
  <2>2. <<y, x>> \notin R
    BY <1>3, <1>5, <2>1
  <2> QED
    BY <2>2 DEF Orders
<1>9. ASSUME NEW x \in X, NEW y \in X
      PROVE  <<x, y>> \in R <=> Rank(X, R, x) < Rank(X, R, y)
  <2>1. Rank(X, R, x) \in Int /\ Rank(X, R, y) \in Int
    BY <1>1, <1>4
  <2>2. Rank(X, R, x) < Rank(X, R, y) => x # y
    BY <2>1
  <2>3. Rank(X, R, x) < Rank(X, R, y) => Rank(X, R, x) <= Rank(X, R, y)
    BY <2>1
  <2> QED
    BY <1>3, <1>5, <2>2, <2>3
<1>6. rank \in Injection(X, 0 .. N - 1)
  <2>1. rank \in [X -> 0 .. N - 1]
    BY <1>4
  <2>2. ASSUME NEW x \in X, NEW y \in X, rank[x] = rank[y] PROVE x = y
    <3>1. Rank(X, R, x) = Rank(X, R, y) /\ Rank(X, R, x) \in Int
      BY <1>1, <1>4, <2>2
    <3>2. ~(Rank(X, R, x) < Rank(X, R, y)) /\ Rank(X, R, x) <= Rank(X, R, y)
      BY <3>1
    <3> QED
      BY <1>5, <1>9, <3>2
  <2> HIDE DEF rank, N
  <2> QED
    BY <2>1, <2>2 DEF Injection, IsInjective
<1>7. rank \in Surjection(X, 0 .. N - 1)
  <2>1. IsFiniteSet(0 .. N - 1) /\ Cardinality(0 .. N - 1) = N
    BY <1>1, FS_Interval, SMTT(30)
  <2> HIDE DEF rank
  <2> QED
    BY <1>6, <2>1, FS_Injection
<1>8. \A k \in 0 .. N - 1 : \E x \in X : rank[x] = k
  <2> HIDE DEF rank
  <2> QED
    BY <1>7 DEF Surjection
<1> QED
  BY <1>4, <1>8, <1>9

ListsByRank(p, X, R) ==
  /\ p \in [1 .. Cardinality(X) -> X]
  /\ \A k \in 1 .. Cardinality(X) : Rank(X, R, p[k]) = k - 1

EachInOrder(p, X, R) ==
  /\ \A x \in X : \E k \in 1 .. Cardinality(X) : p[k] = x
  /\ \A i, j \in 1 .. Cardinality(X) :
       /\ i < j => <<p[i], p[j]>> \in R
       /\ p[i] = p[j] => i = j

\* A list of the elements of X by their ranks has each of them, in the order R.
LEMMA ByRank ==
  ASSUME NEW X, IsFiniteSet(X), NEW R, Orders(R, X), NEW p, ListsByRank(p, X, R)
  PROVE  p \in Seq(X) /\ Len(p) = Cardinality(X) /\ EachInOrder(p, X, R)
<1> DEFINE N == Cardinality(X)
<1>1. N \in Nat
  BY FS_CardinalityType
<1>0. p \in [1 .. N -> X] /\ \A k \in 1 .. N : Rank(X, R, p[k]) = k - 1
  BY DEF ListsByRank
<1>2. p \in Seq(X) /\ Len(p) = N
  BY <1>0, <1>1
<1>3. ASSUME NEW x \in X PROVE \E k \in 1 .. N : p[k] = x
  <2> DEFINE k == Rank(X, R, x) + 1
  <2>1. Rank(X, R, x) \in 0 .. N - 1
    BY RanksArePlaces
  <2>2. k \in 1 .. N /\ k - 1 = Rank(X, R, x)
    BY <1>1, <2>1
  <2>3. p[k] \in X /\ Rank(X, R, p[k]) = Rank(X, R, x)
    BY <1>0, <2>2
  <2>4. ~(Rank(X, R, x) < Rank(X, R, p[k])) /\ ~(Rank(X, R, p[k]) < Rank(X, R, x))
    BY <1>1, <2>1, <2>3
  <2>5. <<x, p[k]>> \notin R /\ <<p[k], x>> \notin R
    BY <2>3, <2>4, RanksArePlaces
  <2>6. p[k] = x
    BY <2>3, <2>5 DEF Orders
  <2> QED
    BY <2>2, <2>6
<1>4. ASSUME NEW i \in 1 .. N, NEW j \in 1 .. N
      PROVE  (i < j => <<p[i], p[j]>> \in R) /\ (p[i] = p[j] => i = j)
  <2>1. p[i] \in X /\ p[j] \in X /\ Rank(X, R, p[i]) = i - 1 /\ Rank(X, R, p[j]) = j - 1
    BY <1>0
  <2>2. i < j => Rank(X, R, p[i]) < Rank(X, R, p[j])
    BY <1>1, <2>1
  <2>3. p[i] = p[j] => i = j
    BY <1>1, <2>1
  <2> QED
    BY <2>1, <2>2, <2>3, RanksArePlaces
<1> QED
  BY <1>2, <1>3, <1>4 DEF EachInOrder

\* ReadDir lists each entry of a directory once.
LEMMA ByNameLists ==
  ASSUME NEW xs, xs \subseteq Dirs \cup Files, \A x, y \in xs : Parent[x] = Parent[y]
  PROVE  /\ ByName(xs) \in Seq(xs)
         /\ \A x \in xs : \E k \in 1 .. Len(ByName(xs)) : ByName(xs)[k] = x
         /\ \A i, j \in 1 .. Len(ByName(xs)) : ByName(xs)[i] = ByName(xs)[j] => i = j
<1> DEFINE R == {yx \in xs \X xs : NameRank[yx[1]] < NameRank[yx[2]]}
           N == Cardinality(xs)
           Before(x) == {y \in xs : NameRank[y] < NameRank[x]}
           p == ByName(xs)
<1>1. IsFiniteSet(xs)
  <2>1. IsFiniteSet(Dirs \cup Files)
    BY ScanAssumption, FS_Union
  <2> QED
    BY <2>1, FS_Subset
<1>2. \A x \in xs : NameRank[x] \in Nat
  BY ScanAssumption
<1>3. \A x, y \in xs : NameRank[x] = NameRank[y] => x = y
  BY ScanAssumption
<1>4. Orders(R, xs)
  BY <1>2, <1>3 DEF Orders
<1>5. ASSUME NEW x \in xs PROVE Rank(xs, R, x) = Cardinality(Before(x))
  <2>1. {y \in xs : <<y, x>> \in R} = Before(x)
    OBVIOUS
  <2> QED
    BY <2>1 DEF Rank
<1>6. N \in Nat
  BY <1>1, FS_CardinalityType
<1>7. ASSUME NEW k \in 1 .. N
      PROVE  p[k] \in xs /\ Rank(xs, R, p[k]) = k - 1
  <2>1. k - 1 \in 0 .. N - 1
    BY <1>6
  <2>2. \E x \in xs : Rank(xs, R, x) = k - 1
    <3> HIDE DEF R, N
    <3> QED
      BY <1>1, <1>4, <2>1, RanksArePlaces DEF N
  <2>3. \E x \in xs : Cardinality(Before(x)) = k - 1
    <3> HIDE DEF R, Before
    <3> QED
      BY <1>5, <2>2
  <2>4. p[k] = CHOOSE x \in xs : Cardinality(Before(x)) = k - 1
    BY DEF ByName
  <2>5. p[k] \in xs /\ Cardinality(Before(p[k])) = k - 1
    <3> HIDE DEF Before, p
    <3> QED
      BY <2>3, <2>4
  <2> HIDE DEF R, Before, p
  <2> QED
    BY <1>5, <2>5
<1>8. p \in [1 .. N -> xs]
  <2> DEFINE place(k) == CHOOSE x \in xs : Cardinality(Before(x)) = k - 1
  <2>1. p = [k \in 1 .. N |-> place(k)]
    BY DEF ByName
  <2> HIDE DEF p, place
  <2> QED
    BY <1>7, <2>1
<1> HIDE DEF p, R
<1>9. ListsByRank(p, xs, R)
  BY <1>7, <1>8 DEF ListsByRank
<1> HIDE DEF N
<1>10. /\ p \in Seq(xs) /\ Len(p) = Cardinality(xs)
       /\ \A x \in xs : \E k \in 1 .. Cardinality(xs) : p[k] = x
       /\ \A i, j \in 1 .. Cardinality(xs) :
            /\ i < j => <<p[i], p[j]>> \in R
            /\ p[i] = p[j] => i = j
  BY <1>1, <1>4, <1>9, ByRank DEF EachInOrder
<1>11. /\ p \in Seq(xs)
       /\ \A x \in xs : \E k \in 1 .. Len(p) : p[k] = x
       /\ \A i, j \in 1 .. Len(p) : p[i] = p[j] => i = j
  BY <1>10
<1> QED
  BY <1>11 DEF p

\* t holds the elements of s in another order.
Permutes(pi, n) ==
  /\ pi \in [1 .. n -> 1 .. n]
  /\ \A i, j \in 1 .. n : pi[i] = pi[j] => i = j
  /\ \A i \in 1 .. n : \E k \in 1 .. n : pi[k] = i

Rearranges(t, s) ==
  /\ Len(t) = Len(s)
  /\ \E pi : Permutes(pi, Len(s)) /\ \A k \in 1 .. Len(s) : t[k] = s[pi[k]]

\* Posts newest first.
LEMMA SortedByDate ==
  ASSUME NEW s \in Seq(EntrySet)
  PROVE  LET t == StableSort(s, Newer)
         IN  /\ t \in Seq(EntrySet) /\ Rearranges(t, s)
             /\ \A i, j \in 1 .. Len(t) : i < j => t[i].doc.date >= t[j].doc.date
<1> DEFINE n == Len(s)
           X == 1 .. n
           First(i, j) == Newer(s[i], s[j]) \/ (~Newer(s[j], s[i]) /\ i < j)
           R == {ij \in X \X X : First(ij[1], ij[2])}
           Before(i) == {j \in X : First(j, i)}
           place(k) == CHOOSE i \in X : Cardinality(Before(i)) = k - 1
           pi == [k \in X |-> place(k)]
           t == StableSort(s, Newer)
<1>1. n \in Nat /\ IsFiniteSet(X) /\ Cardinality(X) = n
  <2>1. n \in Nat
    OBVIOUS
  <2> HIDE DEF n
  <2> QED
    BY <2>1, FS_Interval
<1>2. \A i \in X : s[i] \in EntrySet /\ s[i].doc.date \in Nat
  BY EntryDoc, DocAssumption
<1>3. Orders(R, X)
  <2> DEFINE d == [i \in X |-> s[i].doc.date]
  <2>1. \A i \in X : d[i] \in Nat
    BY <1>2
  <2>2. \A i, j \in X : <<i, j>> \in R <=> d[i] > d[j] \/ (~(d[j] > d[i]) /\ i < j)
    BY DEF Newer
  <2> HIDE DEF d, R
  <2> QED
    BY <1>1, <2>1, <2>2, SMTT(30) DEF Orders
<1>4. ASSUME NEW i \in X PROVE Rank(X, R, i) = Cardinality(Before(i))
  <2>1. {j \in X : <<j, i>> \in R} = Before(i)
    OBVIOUS
  <2> QED
    BY <2>1 DEF Rank
<1>5. ASSUME NEW k \in X
      PROVE  pi[k] \in X /\ Rank(X, R, pi[k]) = k - 1
  <2>1. k - 1 \in 0 .. n - 1
    BY <1>1
  <2>2. \E i \in X : Rank(X, R, i) = k - 1
    <3> HIDE DEF R, n, X
    <3> QED
      BY <1>1, <1>3, <2>1, RanksArePlaces
  <2>3. \E i \in X : Cardinality(Before(i)) = k - 1
    <3> HIDE DEF R, Before, X
    <3> QED
      BY <1>4, <2>2
  <2>4. pi[k] = CHOOSE i \in X : Cardinality(Before(i)) = k - 1
    OBVIOUS
  <2>5. pi[k] \in X /\ Cardinality(Before(pi[k])) = k - 1
    <3> HIDE DEF Before, pi, X
    <3> QED
      BY <2>3, <2>4
  <2> HIDE DEF R, Before, pi, X
  <2> QED
    BY <1>4, <2>5
<1>6. t = [k \in X |-> s[pi[k]]]
  BY DEF StableSort
<1>7. pi \in [X -> X]
  <2>1. pi = [k \in X |-> place(k)]
    OBVIOUS
  <2> HIDE DEF pi, X, place
  <2> QED
    BY <1>5, <2>1
<1>8. /\ \A i \in X : \E k \in X : pi[k] = i
      /\ \A i, j \in X : (i < j => <<pi[i], pi[j]>> \in R) /\ (pi[i] = pi[j] => i = j)
  <2>1. 1 .. Cardinality(X) = X
    BY <1>1
  <2> HIDE DEF pi, R, X
  <2>2. ListsByRank(pi, X, R)
    BY <1>5, <1>7, <2>1 DEF ListsByRank
  <2>3. EachInOrder(pi, X, R)
    BY <1>1, <1>3, <2>2, ByRank
  <2> QED
    BY <2>1, <2>3 DEF EachInOrder
<1> HIDE DEF pi, t
<1>9. t \in Seq(EntrySet) /\ Len(t) = n
  BY <1>1, <1>2, <1>6, <1>7, SMTT(30)
<1>10. Permutes(pi, n)
  BY <1>7, <1>8 DEF Permutes
<1>11. Rearranges(t, s)
  BY <1>6, <1>9, <1>10 DEF Rearranges
<1>12. ASSUME NEW i \in X, NEW j \in X, i < j PROVE t[i].doc.date >= t[j].doc.date
  <2>1. pi[i] \in X /\ pi[j] \in X /\ First(pi[i], pi[j])
    BY <1>7, <1>8, <1>12
  <2>2. t[i] = s[pi[i]] /\ t[j] = s[pi[j]]
    BY <1>6
  <2> HIDE DEF X
  <2> QED
    BY <1>2, <2>1, <2>2 DEF Newer
<1> QED
  BY <1>9, <1>11, <1>12 DEF t

\* Pages by weight and title.
LEMMA SortedByWeight ==
  ASSUME NEW s \in Seq(EntrySet)
  PROVE  LET t == StableSort(s, Lighter)
         IN  t \in Seq(EntrySet) /\ Rearranges(t, s)
<1> DEFINE n == Len(s)
           X == 1 .. n
           First(i, j) == Lighter(s[i], s[j]) \/ (~Lighter(s[j], s[i]) /\ i < j)
           R == {ij \in X \X X : First(ij[1], ij[2])}
           Before(i) == {j \in X : First(j, i)}
           place(k) == CHOOSE i \in X : Cardinality(Before(i)) = k - 1
           pi == [k \in X |-> place(k)]
           t == StableSort(s, Lighter)
<1>1. n \in Nat /\ IsFiniteSet(X) /\ Cardinality(X) = n
  <2>1. n \in Nat
    OBVIOUS
  <2> HIDE DEF n
  <2> QED
    BY <2>1, FS_Interval
<1>2. \A i \in X : s[i] \in EntrySet /\ s[i].doc.weight \in Int /\ s[i].doc.title \in Int
  BY EntryDoc, DocAssumption
<1>3. Orders(R, X)
  <2> DEFINE w == [i \in X |-> s[i].doc.weight]
             d == [i \in X |-> s[i].doc.title]
             Lower(i, j) == w[i] < w[j] \/ (w[i] = w[j] /\ d[i] < d[j])
  <2>1. \A i \in X : w[i] \in Int /\ d[i] \in Int
    BY <1>2
  <2>2. \A i, j \in X : <<i, j>> \in R <=> Lower(i, j) \/ (~Lower(j, i) /\ i < j)
    BY DEF Lighter
  <2>3. \A i \in X : i \in Int
    BY <1>1
  <2> HIDE DEF d, w, R, X
  <2>4. ASSUME NEW i \in X, NEW j \in X, NEW k \in X, <<i, j>> \in R, <<j, k>> \in R
        PROVE  <<i, k>> \in R
    <3>1. /\ w[i] \in Int /\ w[j] \in Int /\ w[k] \in Int
          /\ d[i] \in Int /\ d[j] \in Int /\ d[k] \in Int
          /\ i \in Int /\ j \in Int /\ k \in Int
      BY <2>1, <2>3
    <3>2. /\ Lower(i, j) \/ (~Lower(j, i) /\ i < j)
          /\ Lower(j, k) \/ (~Lower(k, j) /\ j < k)
      BY <2>2, <2>4
    <3>3. Lower(i, k) \/ (~Lower(k, i) /\ i < k)
      BY <3>1, <3>2, SMTT(30)
    <3> QED
      BY <2>2, <3>3
  <2>5. ASSUME NEW i \in X, NEW j \in X
        PROVE  <<i, i>> \notin R /\ (i = j \/ <<i, j>> \in R \/ <<j, i>> \in R)
    BY <2>1, <2>2, <2>3
  <2> QED
    BY <2>4, <2>5 DEF Orders
<1>4. ASSUME NEW i \in X PROVE Rank(X, R, i) = Cardinality(Before(i))
  <2>1. {j \in X : <<j, i>> \in R} = Before(i)
    OBVIOUS
  <2> QED
    BY <2>1 DEF Rank
<1>5. ASSUME NEW k \in X
      PROVE  pi[k] \in X /\ Rank(X, R, pi[k]) = k - 1
  <2>1. k - 1 \in 0 .. n - 1
    BY <1>1
  <2>2. \E i \in X : Rank(X, R, i) = k - 1
    <3> HIDE DEF R, n, X
    <3> QED
      BY <1>1, <1>3, <2>1, RanksArePlaces
  <2>3. \E i \in X : Cardinality(Before(i)) = k - 1
    <3> HIDE DEF R, Before, X
    <3> QED
      BY <1>4, <2>2
  <2>4. pi[k] = CHOOSE i \in X : Cardinality(Before(i)) = k - 1
    OBVIOUS
  <2>5. pi[k] \in X /\ Cardinality(Before(pi[k])) = k - 1
    <3> HIDE DEF Before, pi, X
    <3> QED
      BY <2>3, <2>4
  <2> HIDE DEF R, Before, pi, X
  <2> QED
    BY <1>4, <2>5
<1>6. t = [k \in X |-> s[pi[k]]]
  BY DEF StableSort
<1>7. pi \in [X -> X]
  <2>1. pi = [k \in X |-> place(k)]
    OBVIOUS
  <2> HIDE DEF pi, X, place
  <2> QED
    BY <1>5, <2>1
<1>8. /\ \A i \in X : \E k \in X : pi[k] = i
      /\ \A i, j \in X : (i < j => <<pi[i], pi[j]>> \in R) /\ (pi[i] = pi[j] => i = j)
  <2>1. 1 .. Cardinality(X) = X
    BY <1>1
  <2> HIDE DEF pi, R, X
  <2>2. ListsByRank(pi, X, R)
    BY <1>5, <1>7, <2>1 DEF ListsByRank
  <2>3. EachInOrder(pi, X, R)
    BY <1>1, <1>3, <2>2, ByRank
  <2> QED
    BY <2>1, <2>3 DEF EachInOrder
<1> HIDE DEF pi, t
<1>9. t \in Seq(EntrySet) /\ Len(t) = n
  BY <1>1, <1>2, <1>6, <1>7, SMTT(30)
<1>10. Permutes(pi, n)
  BY <1>7, <1>8 DEF Permutes
<1>11. Rearranges(t, s)
  BY <1>6, <1>9, <1>10 DEF Rearranges
<1> QED
  BY <1>9, <1>11 DEF t
(***************************************************************************)
(* Directory trees.                                                        *)
(***************************************************************************)
\* What has its parent in the tree of d, or in d itself, is in that tree, and
\* nothing else is.
LEMMA WithinByParent ==
  ASSUME NEW d \in Dirs, NEW x \in Dirs \cup Files
  PROVE  Within(x, d) <=> Parent[x] = d \/ (Parent[x] \in Dirs /\ Within(Parent[x], d))
<1>1. ASSUME Parent[x] = d PROVE Within(x, d)
  BY <1>1 DEF Within
<1>2. ASSUME Parent[x] \in Dirs, Within(Parent[x], d) PROVE Within(x, d)
  BY <1>2 DEF Within
<1>3. ASSUME Within(x, d) PROVE Parent[x] = d \/ (Parent[x] \in Dirs /\ Within(Parent[x], d))
  <2> DEFINE tops == {y \in Dirs : y = d \/ Within(y, d)}
  <2>1. d \in tops /\ tops \in SUBSET Dirs
    OBVIOUS
  <2>2. ASSUME NEW e \in Dirs, Parent[e] \in tops PROVE e \in tops
    <3>1. CASE Parent[e] = d
      BY <3>1 DEF Within
    <3>2. CASE Within(Parent[e], d)
      BY <2>2, <3>2 DEF Within
    <3> QED
      BY <2>2, <3>1, <3>2
  <2>3. Parent[x] \in tops
    <3> HIDE DEF tops
    <3> QED
      BY <1>3, <2>1, <2>2 DEF Within
  <2> QED
    BY <2>3
<1> QED
  BY <1>1, <1>2, <1>3

\* The way down into a tree goes through one of the children of its root.
LEMMA WithinByChild ==
  ASSUME NEW d \in Dirs, NEW x \in Dirs \cup Files, Within(x, d), Parent[x] # d
  PROVE  \E e \in Dirs : Parent[e] = d /\ Within(x, e)
<1> DEFINE Below(y) == \E e \in Dirs : Parent[e] = d /\ (y = e \/ Within(y, e))
           tops == {y \in Dirs : y = d \/ Below(y)}
<1>1. d \in tops /\ tops \in SUBSET Dirs
  OBVIOUS
<1>2. ASSUME NEW y \in Dirs, Parent[y] \in tops PROVE y \in tops
  <2>1. CASE Parent[y] = d
    BY <2>1
  <2>2. CASE Below(Parent[y])
    <3>1. PICK e \in Dirs : Parent[e] = d /\ (Parent[y] = e \/ Within(Parent[y], e))
      BY <2>2
    <3>2. Within(y, e)
      BY <1>2, <3>1, WithinByParent
    <3> QED
      BY <3>1, <3>2
  <2> QED
    BY <1>2, <2>1, <2>2
<1>3. Parent[x] \in tops
  <2> HIDE DEF tops
  <2> QED
    BY <1>1, <1>2 DEF Within
<1>4. PICK e \in Dirs : Parent[e] = d /\ (Parent[x] = e \/ Within(Parent[x], e))
  BY <1>3
<1> QED
  BY <1>3, <1>4, WithinByParent

LEMMA WithinIsTransitive ==
  ASSUME NEW c \in Dirs, NEW d \in Dirs, NEW x \in Dirs \cup Files,
         Within(x, d), Within(d, c)
  PROVE  Within(x, c)
<1> DEFINE tops == {y \in Dirs : Within(y, c)}
<1>1. d \in tops /\ tops \in SUBSET Dirs
  OBVIOUS
<1>2. \A e \in Dirs : Parent[e] \in tops => e \in tops
  BY WithinByParent
<1>3. Parent[x] \in tops
  <2> HIDE DEF tops
  <2> QED
    BY <1>1, <1>2 DEF Within
<1> QED
  BY <1>3, WithinByParent

\* Of two trees that have something in common one holds the other.
LEMMA TreesAreNested ==
  ASSUME NEW c \in Dirs, NEW d \in Dirs, NEW x \in Dirs \cup Files,
         Within(x, c), Within(x, d)
  PROVE  c = d \/ Within(c, d) \/ Within(d, c)
<1> DEFINE Nested == c = d \/ Within(c, d) \/ Within(d, c)
           tops == {y \in Dirs : /\ y = d \/ Within(y, d)
                                 /\ y = c \/ Within(y, c) => Nested}
<1>1. d \in tops /\ tops \in SUBSET Dirs
  OBVIOUS
<1>2. ASSUME NEW y \in Dirs, Parent[y] \in tops PROVE y \in tops
  <2>1. Within(y, d)
    BY <1>2, WithinByParent
  <2>2. ASSUME Within(y, c) PROVE Nested
    BY <1>2, <2>2, WithinByParent
  <2> QED
    BY <2>1, <2>2
<1>3. Parent[x] \in tops
  <2> HIDE DEF tops
  <2> QED
    BY <1>1, <1>2 DEF Within
<1> QED
  BY <1>3, WithinByParent

\* What is found under x, itself included.
TreeOf(x) == {y \in Dirs \cup Files : y = x \/ (x \in Dirs /\ Within(y, x))}

\* The trees of two entries of a directory have nothing in common.
LEMMA SiblingsAreApart ==
  ASSUME NEW d \in Dirs, NEW x \in Dirs \cup Files, NEW y \in Dirs \cup Files,
         Parent[x] = d, Parent[y] = d, x # y
  PROVE  TreeOf(x) \cap TreeOf(y) = {}
<1>1. ASSUME NEW u \in Dirs \cup Files, NEW v \in Dirs,
             Parent[u] = d, Parent[v] = d, Within(u, v)
      PROVE  FALSE
  <2>1. d = v \/ Within(d, v)
    BY <1>1, WithinByParent
  <2>2. Within(v, v)
    BY <1>1, <2>1, WithinByParent
  <2> QED
    BY <2>2, ScanAssumption
<1> SUFFICES ASSUME NEW z \in TreeOf(x), z \in TreeOf(y) PROVE FALSE
  OBVIOUS
<1>2. z \in Dirs \cup Files
  BY DEF TreeOf
<1>3. ~(x \in Dirs /\ Within(y, x)) /\ ~(y \in Dirs /\ Within(x, y))
  BY <1>1
<1>4. z # x /\ z # y
  BY <1>3 DEF TreeOf
<1>5. x \in Dirs /\ y \in Dirs /\ Within(z, x) /\ Within(z, y)
  BY <1>4 DEF TreeOf
<1> QED
  BY <1>2, <1>3, <1>5, TreesAreNested

LEMMA ChildTree ==
  ASSUME NEW d \in Dirs, NEW x \in Dirs \cup Files, Parent[x] = d
  PROVE  TreeOf(x) \subseteq TreeOf(d)
<1>1. Within(x, d)
  BY WithinByParent
<1> QED
  BY <1>1, WithinIsTransitive DEF TreeOf

\* What a layer has is in directories that it has.
LEMMA AncestorsExist ==
  ASSUME NEW t, IsTree(t), NEW d \in Dirs, NEW x \in Dirs \cup Files,
         Within(x, d), Having(t, x) # {}
  PROVE  Having(t, d) # {}
<1>1. PICK l \in Layers : l \in Having(t, x)
  BY DEF Having
<1> DEFINE tops == Dirs \ t[l].dirs
<1>2. ASSUME NEW e \in Dirs, Parent[e] \in tops PROVE e \in tops
  <2>1. Parent[e] \notin t[l].dirs \cup {Root}
    BY <1>2, ScanAssumption
  <2> QED
    BY <2>1 DEF IsTree, Having
<1>3. Parent[x] \notin tops
  <2>1. Parent[x] \in t[l].dirs \cup {Root}
    BY <1>1 DEF IsTree
  <2> QED
    BY <2>1, ScanAssumption
<1>4. d \in t[l].dirs
  <2> HIDE DEF tops
  <2>1. d \notin tops
    BY <1>2, <1>3 DEF Within, tops
  <2> QED
    BY <2>1 DEF tops
<1> QED
  BY <1>4 DEF Having

LEMMA TopmostKnows ==
  ASSUME NEW S \in SUBSET Layers, S # {}
  PROVE  Topmost(S) \in S /\ \A m \in S : Topmost(S) <= m
<1>1. S \subseteq Nat
  BY ScanAssumption
<1>2. PICK l \in S : \A m \in S : <<m, l>> \notin OpToRel(<, Nat)
  BY <1>1, WFMin, NatLessThanWellFounded
<1>3. ASSUME NEW m \in S PROVE l <= m
  <2>1. l \in Nat /\ m \in Nat /\ <<m, l>> \notin OpToRel(<, Nat)
    BY <1>1, <1>2
  <2> QED
    BY <2>1 DEF OpToRel
<1> QED
  BY <1>2, <1>3 DEF Topmost

LEMMA ReadFileType ==
  ASSUME NEW t, IsTree(t), NEW f \in Files, NEW from
  PROVE  /\ ReadFile(t, f, from) \in Docs \cup {NoDoc}
         /\ ReadFile(t, f, from) # NoDoc => Having(t, f) # {} /\ Answering(t, f, from) # {}
<1> DEFINE S == Answering(t, f, from)
<1>1. ASSUME Resolves(t, f, from)
      PROVE  /\ ReadFile(t, f, from) \in Docs \cup {NoDoc}
             /\ Having(t, f) # {} /\ S # {}
  <2>1. S \in SUBSET Layers /\ S # {} /\ ~Barred(t, Topmost(S), f)
    BY <1>1 DEF Answering, Resolves
  <2>2. Topmost(S) \in S /\ Topmost(S) \in Layers
    BY <2>1, TopmostKnows
  <2>3. Topmost(S) \in Having(t, f)
    BY <2>1, <2>2 DEF Answering
  <2>4. ReadFile(t, f, from) = t[Topmost(S)].files[f]
    BY <1>1 DEF ReadFile
  <2> HIDE DEF S
  <2> QED
    BY <2>1, <2>2, <2>3, <2>4 DEF IsTree
<1>2. CASE ~Resolves(t, f, from)
  BY <1>2 DEF ReadFile
<1> QED
  BY <1>1, <1>2

\* What is seen as a directory is one on a layer.
LEMMA SeenIsThere ==
  ASSUME NEW t, NEW d \in Dirs, NEW from, IsDir(t, d, from)
  PROVE  Having(t, d) # {} /\ Listable(t, d)
<1> DEFINE S == Answering(t, d, from)
<1>1. S \in SUBSET Layers /\ S # {} /\ d \in t[Topmost(S)].dirs
  BY DEF IsDir, Resolves, Answering
<1>2. Topmost(S) \in Layers
  BY <1>1, TopmostKnows
<1> QED
  BY <1>1, <1>2 DEF Having, Listable

\* What is found is the same from where it was found.
LEMMA SameFromTheHit ==
  ASSUME NEW t, NEW x, NEW from \in Nat, Answering(t, x, from) # {},
         NEW l, l = Topmost(Answering(t, x, from))
  PROVE  l \in Nat /\ Answering(t, x, l) # {} /\ Topmost(Answering(t, x, l)) = l
<1> DEFINE S == Answering(t, x, from)
           T == Answering(t, x, l)
<1>1. S \in SUBSET Layers /\ T \in SUBSET Layers
  BY DEF Answering
<1>2. l \in S /\ l \in Layers
  BY <1>1, TopmostKnows
<1>3. l \in Nat /\ Layers \subseteq Nat
  BY <1>2, ScanAssumption
<1>4. l \in T
  BY <1>2, <1>3 DEF Answering
<1>5. \A m \in T : m >= l
  BY DEF Answering
<1>6. Topmost(T) \in T /\ Topmost(T) <= l
  BY <1>1, <1>4, TopmostKnows
<1>7. Topmost(T) \in Nat /\ Topmost(T) >= l
  BY <1>1, <1>3, <1>5, <1>6
<1> QED
  BY <1>3, <1>4, <1>6, <1>7

\* A read or a Stat comes to the same from both of two layers.
SameSearch(t, x, a, b) ==
  /\ ReadFile(t, x, a) = ReadFile(t, x, b)
  /\ IsDir(t, x, a) <=> IsDir(t, x, b)

LEMMA SearchesFromTheHit ==
  ASSUME NEW t, NEW x, NEW from \in Nat, Answering(t, x, from) # {}
  PROVE  SameSearch(t, x, Topmost(Answering(t, x, from)), from)
<1> DEFINE l == Topmost(Answering(t, x, from))
<1>1. l \in Nat /\ Answering(t, x, l) # {} /\ Topmost(Answering(t, x, l)) = l
  BY SameFromTheHit
<1>2. Resolves(t, x, l) <=> Resolves(t, x, from)
  BY <1>1 DEF Resolves
<1> QED
  BY <1>1, <1>2 DEF SameSearch, ReadFile, IsDir

(***************************************************************************)
(* The invariant.                                                          *)
(***************************************************************************)
TypeInv ==
  /\ IsTree(tree)
  /\ claims \in [Files \cup {PostsDir, PagesDir} -> Nat]
  /\ pc \in {"idle", "posts", "pages", "check", "done", "failed", "refused"}
  /\ work \in Seq(Dirs \cup Files)
  /\ posts \in Seq(EntrySet) /\ pages \in Seq(EntrySet)
  /\ steady \subseteq Files /\ vanished \in BOOLEAN
  /\ config \in Configs
  /\ reader \in [resource : {"feed", "sitemap"}, sends : Validators]

NewestFirst(found) ==
  \A i, j \in 1 .. Len(found) : i < j => found[i].doc.date >= found[j].doc.date

SlugsDiffer(found) ==
  \A i, j \in 1 .. Len(found) : found[i].slug = found[j].slug => i = j

IndexInv == SlugsDiffer(posts) /\ (pc = "done" => NewestFirst(posts))

\* The directory that is walked, and what was found of it.
Base == IF pc = "posts" THEN PostsDir ELSE PagesDir
FoundHere == IF pc = "posts" THEN posts ELSE pages

\* What is still to be visited lies apart, in the directory that is walked,
\* and none of it was visited before.
WorkInv ==
  Walking =>
    /\ pc = "posts" => pages = << >>
    /\ \A i \in 1 .. Len(work) : work[i] \in TreeOf(Base)
    /\ \A i, j \in 1 .. Len(work) : i # j => TreeOf(work[i]) \cap TreeOf(work[j]) = {}
    /\ \A i \in 1 .. Len(work) : \A k \in 1 .. Len(FoundHere) :
         FoundHere[k].path \notin TreeOf(work[i])

\* From the root of a walk on all is seen as directories, as far as to x.
Approach(root, x) ==
  \A d \in Dirs : (d = x \/ Within(x, d)) /\ (d = root \/ Within(d, root)) => Sees(root, d)

\* A directory that was listed is still there.
ListedInv ==
  Walking /\ ~vanished => \A i \in 1 .. Len(work) : Approach(Base, work[i])

Ahead(f) == \E i \in 1 .. Len(work) : f \in TreeOf(work[i])

\* What is due and stays as it is was found or lies ahead.
CoverInv ==
  ~vanished =>
    /\ pc \in {"posts", "pages", "check", "done"} =>
         \A f \in steady \cap Due(PostsDir, FALSE) :
           EntryNow(f) \in Range(posts) \/ (pc = "posts" /\ Ahead(f))
    /\ pc \in {"pages", "check", "done"} =>
         \A f \in steady \cap Due(PagesDir, TRUE) :
           EntryNow(f) \in Range(pages) \/ (pc = "pages" /\ Ahead(f))

Conflict ==
  \/ \E f, g \in Due(PostsDir, FALSE) \cup Due(PagesDir, TRUE) :
       f # g /\ EntryNow(f).slug = EntryNow(g).slug
  \/ Due(PostsDir, FALSE) \cap Due(PagesDir, TRUE) # {}

\* If nothing has changed, all that was found is due, and a conflict is one.
ExactInv ==
  steady = Files /\ ~vanished =>
    /\ pc \in {"posts", "pages", "check", "done"} =>
         /\ \A k \in 1 .. Len(posts) : \E f \in Due(PostsDir, FALSE) : posts[k] = EntryNow(f)
         /\ \A k \in 1 .. Len(pages) : \E f \in Due(PagesDir, TRUE) : pages[k] = EntryNow(f)
    /\ pc = "failed" => Conflict

ScanInv == TypeInv /\ IndexInv /\ WorkInv /\ ListedInv /\ CoverInv /\ ExactInv

\* What is served was scanned and indexed.
Served(s) ==
  /\ s.posts \in Seq(EntrySet) /\ s.pages \in Seq(EntrySet)
  /\ NewestFirst(s.posts)
  /\ s.search = NoSearch \/ \E c \in Configs : s.search = Build(s.posts, c)

ServedInv ==
  /\ snap # NoSnapshot => Served(snap)
  /\ asked # NoRequest => asked \in Configs /\ Served(snap)

CopyInv == (copy # NoCopy => copy.modified \in Nat) /\ RevalidationIsCurrent

SiteInv == ScanInv /\ ServedInv /\ CopyInv

LEMMA DueEntry ==
  ASSUME IsTree(tree), NEW f \in Files, NEW isPage, NEW doc,
         doc = ReadFile(tree, f, claims[f]), Taken(f, doc, isPage)
  PROVE  /\ Entry(f, doc) \in EntrySet /\ Entry(f, doc).path = f
         /\ Having(tree, f) # {}
<1>1. doc \in Docs /\ Having(tree, f) # {}
  BY ReadFileType DEF Taken
<1> QED
  BY <1>1 DEF Entry, EntrySet

\* What the site should show of a file is what is read of it.
LEMMA ReadIsCopy ==
  ASSUME NEW t, NEW f, NEW from \in Nat, \A l \in Answering(t, f, 0) : ~(l < from)
  PROVE  ReadFile(t, f, 0) = ReadFile(t, f, from)
<1>1. Layers \subseteq Nat
  BY ScanAssumption
<1>2. ASSUME NEW l PROVE l \in Answering(t, f, 0) <=> l \in Answering(t, f, from)
  <2>1. l \in Layers => l >= 0 /\ (l < from \/ l >= from)
    BY <1>1
  <2> QED
    BY <2>1 DEF Answering
<1>3. Answering(t, f, 0) = Answering(t, f, from)
  BY <1>2
<1> QED
  BY <1>3 DEF ReadFile, Resolves

LEMMA CopyIsRead ==
  ASSUME TypeInv, NEW f \in Files
  PROVE  Copy(f) = ReadFile(tree, f, claims[f])
<1>1. claims[f] \in Nat
  BY DEF TypeInv
<1>2. CASE f \in Hidden
  BY <1>2 DEF Copy
<1>3. CASE f \notin Hidden
  <2>1. \A l \in Answering(tree, f, 0) : ~(l < claims[f])
    BY <1>3 DEF Hidden
  <2>2. ReadFile(tree, f, 0) = ReadFile(tree, f, claims[f])
    BY <1>1, <2>1, ReadIsCopy
  <2> QED
    BY <1>3, <2>2 DEF Copy
<1> QED
  BY <1>2, <1>3

LEMMA CopyIsReadNext ==
  ASSUME TypeInv', NEW f \in Files
  PROVE  Copy(f)' = ReadFile(tree', f, claims'[f])
<1>1. claims'[f] \in Nat
  BY DEF TypeInv
<1>2. CASE f \in Hidden'
  BY <1>2 DEF Copy
<1>3. CASE f \notin Hidden'
  <2>1. \A l \in Answering(tree', f, 0) : ~(l < claims'[f])
    BY <1>3 DEF Hidden
  <2>2. ReadFile(tree', f, 0) = ReadFile(tree', f, claims'[f])
    BY <1>1, <2>1, ReadIsCopy
  <2> QED
    BY <1>3, <2>2 DEF Copy
<1> QED
  BY <1>2, <1>3

LEMMA EditKeepsTrees ==
  ASSUME TypeInv, Edit
  PROVE  IsTree(tree')
<1>1. PICK l \in Mutable :
        \/ \E f \in Files, doc \in Docs \cup {NoDoc} : Put(l, f, doc)
        \/ \E f, g \in Files : Move(l, f, g)
        \/ \E d \in Dirs : MakeDir(l, d) \/ RemoveDir(l, d) \/ Shut(l, d) \/ Unshut(l, d)
  BY DEF Edit
<1>2. l \in Layers /\ IsTree(tree) /\ Root \notin Dirs /\ Dirs \cap Files = {}
  BY ScanAssumption DEF TypeInv
<1>3. CASE \E f \in Files, doc \in Docs \cup {NoDoc} : Put(l, f, doc)
  BY <1>2, <1>3, SMTT(30) DEF Put, Inside, IsTree, Having
<1>4. CASE \E f, g \in Files : Move(l, f, g)
  <2>1. PICK f \in Files, g \in Files : Move(l, f, g)
    BY <1>4
  <2> DEFINE files == [tree[l].files EXCEPT ![f] = NoDoc, ![g] = tree[l].files[f]]
  <2>2. tree' = [tree EXCEPT ![l] = [dirs |-> tree[l].dirs, shut |-> tree[l].shut,
                                      files |-> files]]
    <3>1. tree \in [Layers -> [dirs : SUBSET Dirs, shut : SUBSET Dirs,
                              files : [Files -> Docs \cup {NoDoc}]]]
      BY <1>2 DEF IsTree
    <3>2. tree' = [tree EXCEPT ![l].files[f] = NoDoc, ![l].files[g] = tree[l].files[f]]
      BY <2>1 DEF Move
    <3>3. DOMAIN tree' = Layers /\ \A m \in Layers : m # l => tree'[m] = tree[m]
      BY <3>1, <3>2
    <3>4. tree'[l] = [tree[l] EXCEPT !.files = files]
      BY <1>2, <3>1, <3>2
    <3>5. tree'[l] = [dirs |-> tree[l].dirs, shut |-> tree[l].shut, files |-> files]
      BY <1>2, <3>1, <3>4
    <3>6. tree' = [m \in Layers |-> tree'[m]]
      BY <3>1, <3>2
    <3> QED
      BY <1>2, <3>1, <3>3, <3>5, <3>6
  <2>3. files \in [Files -> Docs \cup {NoDoc}]
    BY <1>2 DEF IsTree
  <2>4. \A x \in Files : files[x] # NoDoc => Parent[x] \in tree[l].dirs \cup {Root}
    BY <1>2, <2>1 DEF Move, Inside, IsTree, Having
  <2> HIDE DEF files
  <2> QED
    BY <1>2, <2>2, <2>3, <2>4 DEF IsTree, Having
<1>5. CASE \E d \in Dirs : MakeDir(l, d)
  BY <1>2, <1>5 DEF MakeDir, Inside, IsTree, Having
<1>6. CASE \E d \in Dirs : RemoveDir(l, d)
  <2>1. PICK d \in Dirs : RemoveDir(l, d)
    BY <1>6
  <2>2. tree \in [Layers -> [dirs : SUBSET Dirs, shut : SUBSET Dirs,
                            files : [Files -> Docs \cup {NoDoc}]]]
    BY <1>2 DEF IsTree
  <2>3. DOMAIN tree' = Layers /\ \A m \in Layers : m # l => tree'[m] = tree[m]
    BY <2>1, <2>2 DEF RemoveDir
  <2>4. tree'[l] = [dirs |-> tree[l].dirs \ {d}, shut |-> tree[l].shut \ {d},
                    files |-> tree[l].files]
    BY <1>2, <2>1, <2>2 DEF RemoveDir
  <2>5. tree' = [m \in Layers |-> tree'[m]]
    BY <2>1, <2>2 DEF RemoveDir
  <2>6. tree' \in [Layers -> [dirs : SUBSET Dirs, shut : SUBSET Dirs,
                             files : [Files -> Docs \cup {NoDoc}]]]
    BY <1>2, <2>2, <2>3, <2>4, <2>5
  <2>7. ASSUME NEW x \in Dirs \cup Files, NEW m \in Having(tree', x)
        PROVE  Parent[x] \in tree'[m].dirs \cup {Root}
    <3>1. m \in Layers /\ m \in Having(tree, x)
      BY <1>2, <2>3, <2>4 DEF Having
    <3>2. Parent[x] \in tree[m].dirs \cup {Root}
      BY <1>2, <3>1 DEF IsTree
    <3>3. CASE m # l
      BY <2>3, <3>1, <3>2, <3>3
    <3>4. CASE m = l
      <4>1. Parent[x] # d
        BY <1>2, <2>1, <2>4, <2>7, <3>4 DEF RemoveDir, Having
      <4> QED
        BY <2>4, <3>2, <3>4, <4>1
    <3> QED
      BY <3>3, <3>4
  <2> QED
    BY <2>6, <2>7 DEF IsTree
<1>7. CASE \E d \in Dirs : Shut(l, d)
  BY <1>2, <1>7 DEF Shut, Inside, IsTree, Having
<1>8. CASE \E d \in Dirs : Unshut(l, d)
  BY <1>2, <1>8 DEF Unshut, IsTree, Having
<1> QED
  BY <1>1, <1>3, <1>4, <1>5, <1>6, <1>7, <1>8

LEMMA EditKeepsSteady ==
  ASSUME Edit
  PROVE  /\ steady' \subseteq steady
         /\ \A f \in steady' : ReadFile(tree', f, claims'[f]) = ReadFile(tree, f, claims[f])
         /\ ~vanished' => /\ ~vanished
                          /\ \A root \in {PostsDir, PagesDir}, d \in Dirs : ~Turns(root, d)
         /\ UNCHANGED <<claims, pc, work, posts, pages>>
BY DEF Edit

\* A claim is taken over, or one is made on the layer of a hit.
ClaimStep ==
  \/ claims' = claims
  \/ \E x \in Files \cup {PostsDir, PagesDir} :
       /\ Answering(tree, x, claims[x]) # {}
       /\ claims' = [claims EXCEPT ![x] = Topmost(Answering(tree, x, claims[x]))]

LEMMA ClaimedIsClaimStep ==
  ASSUME NEW x \in Files \cup {PostsDir, PagesDir}, NEW hit,
         hit => Answering(tree, x, claims[x]) # {}, claims' = Claimed(x, hit)
  PROVE  ClaimStep
BY DEF ClaimStep, Claimed

LEMMA EntersByClaim ==
  ASSUME NEW root \in {PostsDir, PagesDir}, NEW walk, Enter(root, walk)
  PROVE  ClaimStep
<1> DEFINE hit == Resolves(tree, root, claims[root])
<1>1. hit => Answering(tree, root, claims[root]) # {}
  BY DEF Resolves
<1>2. claims' = Claimed(root, hit)
  BY DEF Enter
<1> HIDE DEF hit
<1> QED
  BY <1>1, <1>2, ClaimedIsClaimStep

LEMMA ReadsByClaim ==
  ASSUME TypeInv, VisitFile
  PROVE  ClaimStep
<1> DEFINE f == Head(work)
           hit == ReadFile(tree, f, claims[f]) # NoDoc
                    /\ ReadFile(tree, f, claims[f]).form # "locked"
<1>1. f \in Files /\ claims' = Claimed(f, hit)
  BY DEF VisitFile
<1>2. hit => Answering(tree, f, claims[f]) # {}
  BY <1>1, ReadFileType DEF TypeInv
<1> HIDE DEF hit, f
<1> QED
  BY <1>1, <1>2, ClaimedIsClaimStep

\* Every claim is a layer, and nothing looks different for it.
LEMMA ClaimsKeep ==
  ASSUME TypeInv, ClaimStep
  PROVE  /\ claims' \in [Files \cup {PostsDir, PagesDir} -> Nat]
         /\ \A x \in Files \cup {PostsDir, PagesDir} : SameSearch(tree, x, claims'[x], claims[x])
<1>0. claims \in [Files \cup {PostsDir, PagesDir} -> Nat]
  BY DEF TypeInv
<1>1. CASE claims' = claims
  BY <1>0, <1>1 DEF SameSearch
<1>2. CASE claims' # claims
  <2>1. PICK x \in Files \cup {PostsDir, PagesDir} :
          /\ Answering(tree, x, claims[x]) # {}
          /\ claims' = [claims EXCEPT ![x] = Topmost(Answering(tree, x, claims[x]))]
    BY <1>2 DEF ClaimStep
  <2> DEFINE l == Topmost(Answering(tree, x, claims[x]))
  <2>2. l \in Nat /\ SameSearch(tree, x, l, claims[x])
    BY <1>0, <2>1, SameFromTheHit, SearchesFromTheHit
  <2>3. claims' = [claims EXCEPT ![x] = l]
    BY <2>1
  <2> HIDE DEF l
  <2>4. claims' \in [Files \cup {PostsDir, PagesDir} -> Nat]
    BY <1>0, <2>2, <2>3
  <2>5. ASSUME NEW y \in Files \cup {PostsDir, PagesDir}
        PROVE  SameSearch(tree, y, claims'[y], claims[y])
    <3>1. CASE y = x
      <4>1. claims'[y] = l
        BY <1>0, <2>3, <3>1
      <4> QED
        BY <2>2, <3>1, <4>1
    <3>2. CASE y # x
      <4>1. claims'[y] = claims[y]
        BY <1>0, <2>3, <3>2
      <4> QED
        BY <4>1 DEF SameSearch
    <3> QED
      BY <3>1, <3>2
  <2> QED
    BY <2>4, <2>5
<1> QED
  BY <1>1, <1>2

\* Next, one action of the scan after the other.
LEMMA StepCases ==
  ASSUME [Next]_vars
  PROVE  \/ BeginScan /\ config' \in Configs /\ UNCHANGED <<tree, reader>>
         \/ VisitDir /\ UNCHANGED <<tree, config, reader>>
         \/ VisitFile /\ UNCHANGED <<tree, config, reader>>
         \/ NextTree /\ UNCHANGED <<tree, config, reader>>
         \/ Check /\ UNCHANGED <<tree, config, reader>>
         \/ /\ pc' = "idle"
            /\ UNCHANGED <<tree, claims, work, posts, pages, steady, vanished, config, reader>>
         \/ UNCHANGED <<tree, scanVars, config, reader>>
         \/ Edit /\ UNCHANGED <<config, reader>>
BY DEF Next, vars, BeginReload, Scanning, ScanStep, PublishSnapshot, EndReload, Poll, Answer,
       Change, diskVars, scanVars, siteVars, readerVars

LEMMA TypeStep ==
  ASSUME TypeInv, [Next]_vars
  PROVE  TypeInv'
<1>1. /\ IsTree(tree) /\ work \in Seq(Dirs \cup Files)
      /\ posts \in Seq(EntrySet) /\ pages \in Seq(EntrySet)
      /\ steady \subseteq Files /\ vanished \in BOOLEAN
      /\ claims \in [Files \cup {PostsDir, PagesDir} -> Nat]
  BY DEF TypeInv
<1>2. ASSUME work # << >>
      PROVE  Head(work) \in Dirs \cup Files /\ Tail(work) \in Seq(Dirs \cup Files)
  BY <1>1, <1>2
<1>3. CASE BeginScan /\ config' \in Configs /\ UNCHANGED <<tree, reader>>
  <2>1. /\ <<PostsDir>> \in Seq(Dirs \cup Files) /\ << >> \in Seq(Dirs \cup Files)
        /\ << >> \in Seq(EntrySet)
    BY ScanAssumption
  <2>2. claims' \in [Files \cup {PostsDir, PagesDir} -> Nat]
    <3>1. Enter(PostsDir, "posts")
      BY <1>3 DEF BeginScan
    <3> QED
      BY <3>1, EntersByClaim, ClaimsKeep
  <2> QED
    BY <1>3, <2>1, <2>2 DEF TypeInv, BeginScan, Enter
<1>4. CASE VisitDir /\ UNCHANGED <<tree, config, reader>>
  <2> DEFINE d == Head(work)
  <2>1. ByName(ReadDir(tree, d)) \in Seq(Dirs \cup Files)
    <3>1. ByName(ReadDir(tree, d)) \in Seq(ReadDir(tree, d))
      BY ByNameLists DEF ReadDir
    <3> QED
      BY <3>1 DEF ReadDir
  <2>2. work' \in Seq(Dirs \cup Files)
    <3>1. << >> \in Seq(Dirs \cup Files)
      OBVIOUS
    <3>2. work' = << >> \/ work' = ByName(ReadDir(tree, d)) \o Tail(work)
      BY <1>4 DEF VisitDir
    <3>3. Tail(work) \in Seq(Dirs \cup Files)
      BY <1>2, <1>4 DEF VisitDir
    <3> DEFINE listed == ByName(ReadDir(tree, d))
               rest == Tail(work)
    <3>4. listed \in Seq(Dirs \cup Files) /\ rest \in Seq(Dirs \cup Files)
      BY <2>1, <3>3
    <3> HIDE DEF listed, rest
    <3>5. listed \o rest \in Seq(Dirs \cup Files)
      BY <3>4
    <3> USE DEF listed, rest
    <3> HIDE DEF d
    <3> QED
      BY <3>1, <3>2, <3>5
  <2> QED
    BY <1>4, <2>2 DEF TypeInv, VisitDir
<1>5. CASE VisitFile /\ UNCHANGED <<tree, config, reader>>
  <2> DEFINE f == Head(work)
             doc == ReadFile(tree, f, claims[f])
             isPage == pc = "pages"
  <2>1. f \in Files
    BY <1>5 DEF VisitFile
  <2>0. claims' \in [Files \cup {PostsDir, PagesDir} -> Nat]
    BY <1>5, ReadsByClaim, ClaimsKeep
  <2>2. CASE Taken(f, doc, isPage)
    <3>1. Entry(f, doc) \in EntrySet
      BY <1>1, <2>1, <2>2, DueEntry
    <3>2. Append(posts, Entry(f, doc)) \in Seq(EntrySet) /\ Append(pages, Entry(f, doc)) \in Seq(EntrySet)
      BY <1>1, <3>1
    <3>3. posts' \in Seq(EntrySet) /\ pages' \in Seq(EntrySet)
      BY <1>1, <1>5, <3>2 DEF VisitFile, SkipFile
    <3>4. work' \in Seq(Dirs \cup Files)
      <4>1. << >> \in Seq(Dirs \cup Files)
        OBVIOUS
      <4> QED
        BY <1>2, <1>5, <2>2, <4>1 DEF VisitFile, SkipFile
    <3>5. pc' \in {"idle", "posts", "pages", "check", "done", "failed", "refused"}
      BY <1>5 DEF TypeInv, VisitFile, SkipFile
    <3>6. UNCHANGED <<tree, steady, vanished, config, reader>>
      BY <1>5 DEF VisitFile
    <3> QED
      BY <1>1, <2>0, <3>3, <3>4, <3>5, <3>6 DEF TypeInv
  <2>3. CASE ~Taken(f, doc, isPage)
    <3>1. UNCHANGED <<tree, pc, posts, pages, steady, vanished, config, reader>>
      BY <1>5, <2>3 DEF VisitFile, SkipFile
    <3>2. work' \in Seq(Dirs \cup Files)
      BY <1>2, <1>5, <2>3 DEF VisitFile, SkipFile
    <3> QED
      BY <2>0, <3>1, <3>2 DEF TypeInv
  <2> QED
    BY <2>2, <2>3
<1>6. CASE NextTree /\ UNCHANGED <<tree, config, reader>>
  <2>1. <<PagesDir>> \in Seq(Dirs \cup Files) /\ << >> \in Seq(Dirs \cup Files)
    BY ScanAssumption
  <2>2. CASE pc = "posts"
    <3>1. Enter(PagesDir, "pages")
      BY <1>6, <2>2 DEF NextTree
    <3>2. claims' \in [Files \cup {PostsDir, PagesDir} -> Nat]
      BY <3>1, EntersByClaim, ClaimsKeep
    <3> QED
      BY <1>6, <2>1, <3>1, <3>2 DEF TypeInv, NextTree, Enter
  <2>3. CASE pc # "posts"
    BY <1>6, <2>3 DEF TypeInv, NextTree
  <2> QED
    BY <2>2, <2>3
<1>7. CASE Check /\ UNCHANGED <<tree, config, reader>>
  <2>1. StableSort(posts, Newer) \in Seq(EntrySet) /\ StableSort(pages, Lighter) \in Seq(EntrySet)
    BY <1>1, SortedByDate, SortedByWeight
  <2> QED
    BY <1>7, <2>1 DEF TypeInv, Check
<1>8. CASE /\ pc' = "idle"
           /\ UNCHANGED <<tree, claims, work, posts, pages, steady, vanished, config, reader>>
  BY <1>8 DEF TypeInv
<1>9. CASE UNCHANGED <<tree, scanVars, config, reader>>
  BY <1>9 DEF TypeInv, scanVars
<1>10. CASE Edit /\ UNCHANGED <<config, reader>>
  <2>1. IsTree(tree')
    BY <1>10, EditKeepsTrees
  <2> QED
    BY <1>10, <2>1 DEF TypeInv, Edit
<1> QED
  BY <1>3, <1>4, <1>5, <1>6, <1>7, <1>8, <1>9, <1>10, StepCases

LEMMA TypeInit ==
  ASSUME Init
  PROVE  TypeInv
<1>1. << >> \in Seq(Dirs \cup Files) /\ << >> \in Seq(EntrySet)
  OBVIOUS
<1>2. claims \in [Files \cup {PostsDir, PagesDir} -> Nat]
  BY DEF Init, ScanInit
<1> QED
  BY <1>1, <1>2, SiteAssumption DEF Init, ScanInit, TypeInv

LEMMA SlugsStayApart ==
  ASSUME NEW s, NEW t, Len(s) \in Nat, SlugsDiffer(s), Rearranges(t, s)
  PROVE  SlugsDiffer(t)
<1>1. PICK pi : Permutes(pi, Len(s)) /\ \A k \in 1 .. Len(s) : t[k] = s[pi[k]]
  BY DEF Rearranges
<1>2. ASSUME NEW i \in 1 .. Len(s), NEW j \in 1 .. Len(s), t[i].slug = t[j].slug
      PROVE  i = j
  <2>1. pi[i] \in 1 .. Len(s) /\ pi[j] \in 1 .. Len(s) /\ s[pi[i]].slug = s[pi[j]].slug
    BY <1>1, <1>2 DEF Permutes
  <2>2. pi[i] = pi[j]
    BY <2>1 DEF SlugsDiffer
  <2> QED
    BY <1>1, <2>2 DEF Permutes
<1> QED
  BY <1>2 DEF SlugsDiffer, Rearranges

TakenFrom(t, s) == \A k \in 1 .. Len(t) : \E i \in 1 .. Len(s) : t[k] = s[i]

LEMMA SameEntries ==
  ASSUME NEW s, NEW t, Len(s) \in Nat, Rearranges(t, s)
  PROVE  TakenFrom(t, s) /\ TakenFrom(s, t)
<1>1. PICK pi : Permutes(pi, Len(s)) /\ \A k \in 1 .. Len(s) : t[k] = s[pi[k]]
  BY DEF Rearranges
<1>2. Len(t) = Len(s)
  BY DEF Rearranges
<1>3. ASSUME NEW k \in 1 .. Len(s) PROVE \E i \in 1 .. Len(s) : t[k] = s[i]
  BY <1>1 DEF Permutes
<1>4. ASSUME NEW i \in 1 .. Len(s) PROVE \E k \in 1 .. Len(s) : s[i] = t[k]
  <2>1. PICK k \in 1 .. Len(s) : pi[k] = i
    BY <1>1 DEF Permutes
  <2> QED
    BY <1>1, <2>1
<1> QED
  BY <1>2, <1>3, <1>4 DEF TakenFrom

LEMMA SameRange ==
  ASSUME NEW S, NEW s \in Seq(S), NEW t \in Seq(S), Rearranges(t, s)
  PROVE  Range(t) = Range(s)
<1>1. Range(s) = {s[i] : i \in 1 .. Len(s)} /\ Range(t) = {t[i] : i \in 1 .. Len(t)}
  BY DEF Range
<1>2. /\ \A k \in 1 .. Len(t) : \E i \in 1 .. Len(s) : t[k] = s[i]
      /\ \A i \in 1 .. Len(s) : \E k \in 1 .. Len(t) : s[i] = t[k]
  <2>1. Len(s) \in Nat
    OBVIOUS
  <2>2. TakenFrom(t, s) /\ TakenFrom(s, t)
    BY <2>1, SameEntries
  <2> QED
    BY <2>2 DEF TakenFrom
<1> QED
  BY ONLY <1>1, <1>2

LEMMA IndexStep ==
  ASSUME TypeInv, IndexInv, [Next]_vars
  PROVE  IndexInv'
<1>1. posts \in Seq(EntrySet)
  BY DEF TypeInv
<1>2. CASE BeginScan
  <2>1. posts' = << >> /\ pc' # "done"
    BY <1>2 DEF BeginScan, Enter
  <2> QED
    BY <2>1 DEF IndexInv, SlugsDiffer
<1>3. CASE VisitFile
  <2> DEFINE f == Head(work)
             doc == ReadFile(tree, f, claims[f])
  <2>1. CASE posts' = posts
    BY <1>3, <2>1 DEF VisitFile, Walking, SkipFile, IndexInv
  <2>2. CASE posts' = Append(posts, Entry(f, doc)) /\ ~Holds(posts, SlugOf(f, doc))
    <3>1. Entry(f, doc).slug = SlugOf(f, doc)
      BY DEF Entry
    <3>2. SlugsDiffer(posts')
      BY <1>1, <2>2, <3>1 DEF Holds, IndexInv, SlugsDiffer
    <3> QED
      BY <1>3, <3>2 DEF VisitFile, Walking, SkipFile, IndexInv
  <2> QED
    BY <1>3, <2>1, <2>2 DEF VisitFile, SkipFile
<1>4. CASE Check
  <2>1. CASE posts' = posts /\ pc' # "done"
    BY <2>1 DEF IndexInv
  <2>2. CASE posts' = StableSort(posts, Newer)
    <3>1. Rearranges(posts', posts)
      BY <1>1, <2>2, SortedByDate
    <3>2. NewestFirst(posts')
      BY <1>1, <2>2, SortedByDate DEF NewestFirst
    <3>3. SlugsDiffer(posts')
      BY <1>1, <3>1, SlugsStayApart DEF IndexInv
    <3> QED
      BY <3>2, <3>3 DEF IndexInv
  <2> QED
    BY <1>4, <2>1, <2>2 DEF Check
<1>5. CASE posts' = posts /\ (pc' = "done" => pc = "done")
  BY <1>5 DEF IndexInv
<1> QED
  BY <1>2, <1>3, <1>4, <1>5, StepCases DEF VisitDir, NextTree, Enter, Edit, scanVars

LEMMA SubTree ==
  ASSUME NEW x \in Dirs \cup Files, NEW y \in Dirs \cup Files, x \in TreeOf(y)
  PROVE  TreeOf(x) \subseteq TreeOf(y)
<1>1. CASE x = y
  BY <1>1
<1>2. CASE y \in Dirs /\ Within(x, y)
  BY <1>2, WithinIsTransitive DEF TreeOf
<1> QED
  BY <1>1, <1>2 DEF TreeOf

\* work after a visit to a directory: its K entries, then the rest.
Expands(d, K) ==
  /\ K \in Nat /\ Len(work) \in Nat \ {0} /\ d = work[1] /\ d \in Dirs
  /\ Len(work') = K + Len(work) - 1
  /\ \A i \in 1 .. K : work'[i] \in ReadDir(tree, d)
  /\ \A i, j \in 1 .. K : work'[i] = work'[j] => i = j
  /\ \A x \in ReadDir(tree, d) : \E i \in 1 .. K : work'[i] = x
  /\ \A i \in 2 .. Len(work) : work'[K + i - 1] = work[i]

LEMMA VisitDirExpands ==
  ASSUME TypeInv, VisitDir, ~Refused(tree, Head(work)), Listable(tree, Head(work))
  PROVE  \E d, K : Expands(d, K)
<1> DEFINE d == Head(work)
           kids == ByName(ReadDir(tree, d))
           K == Len(kids)
<1>1. work \in Seq(Dirs \cup Files) /\ work # << >> /\ d \in Dirs
  BY DEF TypeInv, VisitDir
<1>2. /\ kids \in Seq(ReadDir(tree, d))
      /\ \A x \in ReadDir(tree, d) : \E k \in 1 .. Len(kids) : kids[k] = x
      /\ \A i, j \in 1 .. Len(kids) : kids[i] = kids[j] => i = j
  BY ByNameLists DEF ReadDir
<1>3. work' = kids \o Tail(work)
  BY DEF VisitDir
<1> HIDE DEF kids
<1>4. kids \in Seq(Dirs \cup Files)
  BY <1>2 DEF ReadDir
<1>5. Tail(work) \in Seq(Dirs \cup Files) /\ Len(Tail(work)) = Len(work) - 1 /\ Len(work) >= 1
  BY <1>1
<1>6. Len(work') = K + Len(work) - 1
  BY <1>3, <1>4, <1>5
<1>7. ASSUME NEW i \in 1 .. K PROVE work'[i] = kids[i] /\ kids[i] \in ReadDir(tree, d)
  BY <1>2, <1>3, <1>4, <1>5
<1>8. ASSUME NEW i \in 2 .. Len(work) PROVE work'[K + i - 1] = work[i]
  BY <1>1, <1>3, <1>4, <1>5
<1>9. K \in Nat /\ Len(work) \in Nat \ {0} /\ d = work[1]
  BY <1>1, <1>4
<1>10. Expands(d, K)
  <2> HIDE DEF K, d
  <2>1. \A i, j \in 1 .. K : work'[i] = work'[j] => i = j
    BY <1>2, <1>7 DEF K
  <2>2. \A x \in ReadDir(tree, d) : \E i \in 1 .. K : work'[i] = x
    BY <1>2, <1>7 DEF K
  <2> QED
    BY <1>1, <1>6, <1>7, <1>8, <1>9, <2>1, <2>2 DEF Expands, d
<1> QED
  BY <1>10

LEMMA OwnTree ==
  ASSUME NEW x \in Dirs \cup Files
  PROVE  x \in TreeOf(x) /\ TreeOf(x) \subseteq Dirs \cup Files
BY DEF TreeOf

\* work after a visit to a directory, without new items: its first one or all
\* are gone.
Shortens ==
  /\ Len(work') \in Nat /\ Len(work) \in Nat /\ Len(work') < Len(work)
  /\ \A i \in 1 .. Len(work') : work'[i] = work[i + 1]

LEMMA VisitsShorten ==
  ASSUME TypeInv, VisitFile \/ (VisitDir /\ work' = << >>)
  PROVE  Shortens
<1>1. work \in Seq(Dirs \cup Files) /\ work # << >>
  BY DEF TypeInv, VisitFile, VisitDir
<1>2. work' = << >> \/ work' = Tail(work)
  BY DEF VisitFile, SkipFile
<1>3. Len(Tail(work)) = Len(work) - 1 /\ Len(work) \in Nat \ {0}
      /\ \A i \in 1 .. Len(work) - 1 : Tail(work)[i] = work[i + 1]
  BY <1>1
<1>4. CASE work' = << >>
  BY <1>3, <1>4 DEF Shortens
<1>5. CASE work' = Tail(work)
  BY <1>3, <1>5 DEF Shortens
<1> QED
  BY <1>2, <1>4, <1>5

\* Items of work that lie apart do so after a visit to a directory.
LEMMA VisitDirKeepsApart ==
  ASSUME TypeInv, WorkInv, VisitDir
  PROVE  WorkInv'
<1> USE DEF Walking, Base, FoundHere
<1>0. work \in Seq(Dirs \cup Files)
  BY DEF TypeInv
<1>1. CASE work' = << >> /\ pc' = pc
  <2>1. Shortens
    BY <1>1, VisitsShorten
  <2>2. /\ Base' = Base /\ FoundHere' = FoundHere /\ Walking
        /\ pc' = pc /\ pages' = pages
    BY <1>1 DEF VisitDir
  <2> HIDE DEF Walking, Base, FoundHere
  <2>3. ASSUME NEW i \in 1 .. Len(work')
        PROVE  i + 1 \in 1 .. Len(work) /\ work'[i] = work[i + 1]
    BY <2>1 DEF Shortens
  <2>4. ASSUME NEW i \in 1 .. Len(work'), NEW j \in 1 .. Len(work'), i # j
        PROVE  TreeOf(work'[i]) \cap TreeOf(work'[j]) = {}
    <3>1. i + 1 # j + 1
      BY <2>4
    <3> QED
      BY <2>2, <2>3, <3>1 DEF WorkInv
  <2> QED
    BY <2>2, <2>3, <2>4 DEF WorkInv
<1>2. CASE ~Refused(tree, Head(work)) /\ Listable(tree, Head(work))
  <2>0. pc' = pc
    BY <1>2 DEF VisitDir
  <2>1. PICK d, K : Expands(d, K)
    BY <1>2, VisitDirExpands
  <2> DEFINE o(i) == IF i <= K THEN 1 ELSE i - K + 1
  <2>2. ASSUME NEW i \in 1 .. Len(work')
        PROVE  /\ o(i) \in 1 .. Len(work)
               /\ work'[i] \in Dirs \cup Files
               /\ work'[i] \in TreeOf(work[o(i)])
               /\ i <= K => Parent[work'[i]] = d
               /\ i > K => o(i) = i - K + 1
    <3>1. CASE i <= K
      <4>1. work'[i] \in Dirs \cup Files /\ Parent[work'[i]] = d
        BY <2>1, <3>1 DEF Expands, ReadDir
      <4>2. work'[i] \in TreeOf(d)
        BY <2>1, <4>1, ChildTree, OwnTree DEF Expands
      <4> QED
        BY <2>1, <3>1, <4>1, <4>2 DEF Expands
    <3>2. CASE ~(i <= K)
      <4>1. i - K + 1 \in 2 .. Len(work) /\ i = K + (i - K + 1) - 1
        BY <2>1, <3>2 DEF Expands
      <4>2. work'[i] = work[i - K + 1]
        BY <2>1, <4>1 DEF Expands
      <4>3. i - K + 1 \in 1 .. Len(work) /\ work[i - K + 1] \in Dirs \cup Files
        BY <1>0, <4>1
      <4>4. work[i - K + 1] \in TreeOf(work[i - K + 1])
        BY <4>3, OwnTree
      <4>5. o(i) = i - K + 1
        BY <3>2
      <4> QED
        BY <3>2, <4>2, <4>3, <4>4, <4>5
    <3> QED
      BY <3>1, <3>2
  <2> HIDE DEF o, Base, FoundHere
  <2>3. /\ \A i \in 1 .. Len(work) : work[i] \in TreeOf(Base)
        /\ \A i, j \in 1 .. Len(work) : i # j => TreeOf(work[i]) \cap TreeOf(work[j]) = {}
        /\ \A i \in 1 .. Len(work) : \A k \in 1 .. Len(FoundHere) :
             FoundHere[k].path \notin TreeOf(work[i])
        /\ pc = "posts" => pages = << >>
    BY DEF WorkInv, VisitDir
  <2>8. \A i \in 1 .. Len(work) : work[i] \in Dirs \cup Files
    BY <1>0
  <2>4. ASSUME NEW i \in 1 .. Len(work')
        PROVE  TreeOf(work'[i]) \subseteq TreeOf(work[o(i)])
    BY <2>2, <2>8, SubTree
  <2>5. ASSUME NEW i \in 1 .. Len(work')
        PROVE  /\ work'[i] \in TreeOf(Base)
               /\ \A k \in 1 .. Len(FoundHere) : FoundHere[k].path \notin TreeOf(work'[i])
    <3>1. Base \in Dirs \cup Files
      BY ScanAssumption DEF Base
    <3>2. TreeOf(work[o(i)]) \subseteq TreeOf(Base)
      BY <2>2, <2>3, <2>8, <3>1, SubTree
    <3> QED
      BY <2>2, <2>3, <2>4, <3>2
  <2>6. ASSUME NEW i \in 1 .. Len(work'), NEW j \in 1 .. Len(work'), i # j
        PROVE  TreeOf(work'[i]) \cap TreeOf(work'[j]) = {}
    <3>1. CASE o(i) # o(j)
      BY <2>2, <2>3, <2>4, <3>1
    <3>2. CASE o(i) = o(j)
      <4>0. K \in Nat /\ i \in Nat /\ j \in Nat
        BY <2>1 DEF Expands
      <4>1. i <= K /\ j <= K
        BY <2>2, <2>6, <3>2, <4>0 DEF o
      <4>2. work'[i] # work'[j]
        BY <2>1, <2>6, <4>0, <4>1 DEF Expands
      <4>3. d \in Dirs
        BY <2>1 DEF Expands
      <4> QED
        BY <2>2, <4>1, <4>2, <4>3, SiblingsAreApart
    <3> QED
      BY <3>1, <3>2
  <2>7. Base' = Base /\ FoundHere' = FoundHere
    BY <2>0 DEF VisitDir, Base, FoundHere
  <2>9. pc' = pc /\ pages' = pages
    BY <2>0 DEF VisitDir
  <2> QED
    BY <2>3, <2>5, <2>6, <2>7, <2>9 DEF WorkInv
<1>3. CASE pc' = "refused"
  BY <1>3 DEF WorkInv
<1> QED
  BY <1>1, <1>2, <1>3 DEF VisitDir

\* A file that is found lies apart from what is still to be visited.
LEMMA VisitFileKeepsApart ==
  ASSUME TypeInv, WorkInv, VisitFile
  PROVE  WorkInv'
<1>1. Shortens
  BY VisitsShorten
<1>2. /\ work \in Seq(Dirs \cup Files) /\ work # << >> /\ Head(work) = work[1]
      /\ posts \in Seq(EntrySet) /\ pages \in Seq(EntrySet)
  BY DEF TypeInv, VisitFile
<1>3. work[1] \in TreeOf(work[1])
  BY <1>2, OwnTree
<1>4. ASSUME NEW i \in 1 .. Len(work')
      PROVE  /\ i + 1 \in 1 .. Len(work) /\ work'[i] = work[i + 1]
             /\ work[1] \notin TreeOf(work'[i])
  <2>1. 1 \in 1 .. Len(work) /\ i + 1 \in 1 .. Len(work) /\ i + 1 # 1 /\ work'[i] = work[i + 1]
    BY <1>1, <1>2 DEF Shortens
  <2>2. TreeOf(work[1]) \cap TreeOf(work[i + 1]) = {}
    BY <2>1 DEF WorkInv, VisitFile
  <2> QED
    BY <1>3, <2>1, <2>2
<1>5. ASSUME NEW k \in 1 .. Len(FoundHere'), pc' = pc
      PROVE  \/ k \in 1 .. Len(FoundHere) /\ FoundHere'[k] = FoundHere[k]
             \/ FoundHere'[k].path = work[1]
  <2>1. CASE posts' = posts /\ pages' = pages
    BY <1>5, <2>1 DEF FoundHere
  <2>2. CASE ~(posts' = posts /\ pages' = pages)
    <3> DEFINE e == Entry(Head(work), ReadFile(tree, Head(work), claims[Head(work)]))
    <3>1. e.path = work[1]
      BY <1>2 DEF Entry
    <3>2. FoundHere' = Append(FoundHere, e)
      BY <1>5, <2>2 DEF VisitFile, Walking, SkipFile, FoundHere
    <3>3. FoundHere \in Seq(EntrySet)
      BY <1>2 DEF FoundHere
    <3> HIDE DEF e
    <3> QED
      BY <3>1, <3>2, <3>3
  <2> QED
    BY <2>1, <2>2
<1>6. CASE pc' = pc
  <2>1. Base' = Base /\ Walking
    BY <1>6 DEF Base, VisitFile
  <2>2. \A i \in 1 .. Len(work') : \A k \in 1 .. Len(FoundHere') :
          FoundHere'[k].path \notin TreeOf(work'[i])
    BY <1>4, <1>5, <1>6, <2>1 DEF WorkInv
  <2>4. pc' = "posts" => pages' = << >>
    BY <1>6, <2>1 DEF VisitFile, SkipFile, WorkInv
  <2>3. \A i, j \in 1 .. Len(work') : i # j => TreeOf(work'[i]) \cap TreeOf(work'[j]) = {}
    <3> SUFFICES ASSUME NEW i \in 1 .. Len(work'), NEW j \in 1 .. Len(work'), i # j
                 PROVE  TreeOf(work'[i]) \cap TreeOf(work'[j]) = {}
      OBVIOUS
    <3>1. i + 1 # j + 1
      OBVIOUS
    <3> QED
      BY <1>4, <2>1, <3>1 DEF WorkInv
  <2> QED
    BY <1>4, <2>1, <2>2, <2>3, <2>4 DEF WorkInv
<1>7. CASE pc' = "failed"
  BY <1>7 DEF WorkInv, Walking
<1> QED
  BY <1>6, <1>7 DEF VisitFile, SkipFile

LEMMA WorkStep ==
  ASSUME TypeInv, WorkInv, [Next]_vars
  PROVE  WorkInv'
<1> USE DEF Walking
<1>1. CASE BeginScan
  <2>1. /\ work' = <<PostsDir>> \/ work' = << >>
        /\ posts' = << >> /\ pages' = << >>
        /\ pc' = "posts" \/ pc' = "refused"
    BY <1>1 DEF BeginScan, Enter
  <2>2. PostsDir \in TreeOf(PostsDir)
    BY OwnTree, ScanAssumption
  <2> QED
    BY <2>1, <2>2 DEF WorkInv, Base, FoundHere
<1>2. CASE NextTree
  <2>1. CASE pc = "posts"
    <3>1. /\ work' = <<PagesDir>> \/ work' = << >>
          /\ pc' = "pages" \/ pc' = "refused"
          /\ pages' = << >>
      BY <1>2, <2>1 DEF NextTree, WorkInv, Enter
    <3>2. PagesDir \in TreeOf(PagesDir)
      BY OwnTree, ScanAssumption
    <3> QED
      BY <3>1, <3>2 DEF WorkInv, Base, FoundHere
  <2>2. CASE pc # "posts"
    BY <1>2, <2>2 DEF WorkInv, NextTree
  <2> QED
    BY <2>1, <2>2
<1>3. CASE Check
  BY <1>3 DEF Check, WorkInv
<1>4. CASE UNCHANGED <<pc, work, posts, pages>>
  BY <1>4 DEF WorkInv, Base, FoundHere
<1>5. CASE pc' = "idle"
  BY <1>5 DEF WorkInv
<1> QED
  BY <1>1, <1>2, <1>3, <1>4, <1>5, StepCases, VisitDirKeepsApart, VisitFileKeepsApart
     DEF Edit, scanVars

LEMMA LenOfOne ==
  ASSUME NEW x, NEW s, s = <<x>>
  PROVE  Len(s) = 1 /\ s[1] = x
OBVIOUS

\* A step of the walk changes nothing of what is due.
LEMMA WalkKeepsDue ==
  ASSUME TypeInv, TypeInv', UNCHANGED tree, ClaimStep
  PROVE  /\ Due(PostsDir, FALSE)' = Due(PostsDir, FALSE)
         /\ Due(PagesDir, TRUE)' = Due(PagesDir, TRUE)
         /\ \A f \in Files : EntryNow(f)' = EntryNow(f)
         /\ \A root \in {PostsDir, PagesDir}, d \in Dirs : Sees(root, d)' <=> Sees(root, d)
<1>1. ASSUME NEW x \in Files \cup {PostsDir, PagesDir}
      PROVE  SameSearch(tree, x, claims'[x], claims[x])
  BY ClaimsKeep
<1>2. ASSUME NEW f \in Files PROVE Copy(f)' = Copy(f)
  <2>1. ReadFile(tree, f, claims'[f]) = ReadFile(tree, f, claims[f])
    BY <1>1 DEF SameSearch
  <2> QED
    BY <2>1, CopyIsRead, CopyIsReadNext
<1>3. ASSUME NEW root \in {PostsDir, PagesDir}, NEW d \in Dirs
      PROVE  Sees(root, d)' <=> Sees(root, d)
  BY <1>1 DEF Sees, SameSearch
<1>4. ASSUME NEW root \in {PostsDir, PagesDir}, NEW f \in Files
      PROVE  Reaches(root, f)' <=> Reaches(root, f)
  BY <1>3 DEF Reaches
<1>5. /\ Due(PostsDir, FALSE)' = Due(PostsDir, FALSE)
      /\ Due(PagesDir, TRUE)' = Due(PagesDir, TRUE)
  BY <1>2, <1>4 DEF Due
<1>6. \A f \in Files : EntryNow(f)' = EntryNow(f)
  BY <1>2 DEF EntryNow
<1> QED
  BY <1>3, <1>5, <1>6

LEMMA ScansByClaim ==
  ASSUME TypeInv, BeginScan \/ VisitDir \/ VisitFile \/ NextTree \/ Check
  PROVE  ClaimStep
<1>1. CASE BeginScan
  <2>1. Enter(PostsDir, "posts")
    BY <1>1 DEF BeginScan
  <2> QED
    BY <2>1, EntersByClaim
<1>2. CASE VisitFile
  BY <1>2, ReadsByClaim
<1>3. CASE NextTree /\ pc = "posts"
  <2>1. Enter(PagesDir, "pages")
    BY <1>3 DEF NextTree
  <2> QED
    BY <2>1, EntersByClaim
<1>4. CASE claims' = claims
  BY <1>4 DEF ClaimStep
<1> QED
  BY <1>1, <1>2, <1>3, <1>4 DEF VisitDir, NextTree, Check

\* A walk that enters its root sees a directory there.
LEMMA EnteredIsSeen ==
  ASSUME TypeInv, TypeInv', UNCHANGED tree, NEW root \in {PostsDir, PagesDir}, NEW walk,
         Enter(root, walk)
  PROVE  /\ Sees(root, root) => work' = <<root>>
         /\ ~Sees(root, root) => work' = << >>
         /\ Sees(root, root)' <=> Sees(root, root)
<1>1. ClaimStep /\ root \in Dirs
  BY EntersByClaim, ScanAssumption
<1>2. Sees(root, root)' <=> Sees(root, root)
  BY <1>1, WalkKeepsDue
<1> QED
  BY <1>2 DEF Enter, Sees

\* Where a walk begins nothing lies before.
LEMMA RootIsApproached ==
  ASSUME NEW root \in Dirs, Sees(root, root)
  PROVE  Approach(root, root)
<1> SUFFICES ASSUME NEW d \in Dirs, d = root \/ Within(root, d), d = root \/ Within(d, root)
             PROVE  Sees(root, d)
  BY DEF Approach
<1>1. CASE d = root
  BY <1>1
<1>2. CASE d # root
  BY <1>2, WithinIsTransitive, ScanAssumption
<1> QED
  BY <1>1, <1>2

\* The way to an entry of a directory leads through the directory.
LEMMA EntryIsApproached ==
  ASSUME NEW root \in Dirs, NEW d \in Dirs, d \in TreeOf(root), Approach(root, d),
         NEW x \in ReadDir(tree, d)
  PROVE  Approach(root, x)
<1>1. x \in Dirs \cup Files /\ Parent[x] = d
  BY DEF ReadDir
<1> SUFFICES ASSUME NEW e \in Dirs, e = x \/ Within(x, e), e = root \/ Within(e, root)
             PROVE  Sees(root, e)
  BY DEF Approach
<1>2. CASE e = x
  <2>1. x # root
    <3>1. SUFFICES ASSUME x = root PROVE FALSE
      OBVIOUS
    <3>2. Within(root, root)
      BY <1>1, <3>1, WithinByParent DEF TreeOf
    <3> QED
      BY <3>2, ScanAssumption
  <2>2. IsDir(tree, x, 0)
    BY <1>2, ScanAssumption DEF ReadDir
  <2> QED
    BY <1>2, <2>1, <2>2 DEF Sees
<1>3. CASE e # x
  <2>1. e = d \/ Within(d, e)
    BY <1>1, <1>3, WithinByParent
  <2> QED
    BY <2>1 DEF Approach
<1> QED
  BY <1>2, <1>3

\* What is approached after a step that changes nothing of what is seen.
LEMMA ApproachKept ==
  ASSUME NEW root, \A d \in Dirs : Sees(root, d) => Sees(root, d)', NEW x, Approach(root, x)
  PROVE  Approach(root, x)'
BY DEF Approach

\* A directory is gone over before any of its entries can go away unnoticed.
LEMMA ListedStep ==
  ASSUME TypeInv, TypeInv', WorkInv, ListedInv, [Next]_vars
  PROVE  ListedInv'
<1> USE DEF Walking
<1>0. /\ work \in Seq(Dirs \cup Files) /\ IsTree(tree)
      /\ Base \in {PostsDir, PagesDir} /\ PostsDir \in Dirs /\ PagesDir \in Dirs
  BY ScanAssumption DEF TypeInv, Base
<1>1. ASSUME NEW root \in {PostsDir, PagesDir}, NEW walk, Enter(root, walk), UNCHANGED tree,
             Base' = root
      PROVE  ListedInv'
  <2>1. /\ Sees(root, root) => work' = <<root>>
        /\ ~Sees(root, root) => work' = << >>
        /\ Sees(root, root)' <=> Sees(root, root)
    BY <1>1, EnteredIsSeen
  <2>2. CASE Sees(root, root)
    <3>1. Approach(root, root)
      BY <1>0, <2>2, RootIsApproached
    <3>2. \A d \in Dirs : Sees(root, d) => Sees(root, d)'
      BY <1>1, EntersByClaim, WalkKeepsDue
    <3>3. Approach(root, root)'
      BY <3>1, <3>2, ApproachKept
    <3>4. Len(work') = 1 /\ work'[1] = root
      BY <2>1, <2>2, LenOfOne
    <3>5. \A i \in 1 .. Len(work') : work'[i] = root
      BY <3>4
    <3> QED
      BY <1>1, <3>3, <3>5 DEF ListedInv
  <2>3. CASE ~Sees(root, root)
    BY <2>1, <2>3 DEF ListedInv
  <2> QED
    BY <2>2, <2>3
<1>2. CASE BeginScan /\ UNCHANGED tree
  <2>1. Enter(PostsDir, "posts")
    BY <1>2 DEF BeginScan
  <2>2. CASE pc' = "posts"
    BY <1>1, <1>2, <2>1, <2>2 DEF Base
  <2>3. CASE pc' # "posts"
    BY <2>1, <2>3 DEF Enter, ListedInv
  <2> QED
    BY <2>2, <2>3
<1>3. CASE NextTree /\ UNCHANGED tree
  <2>1. CASE pc = "posts"
    <3>1. Enter(PagesDir, "pages")
      BY <1>3, <2>1 DEF NextTree
    <3>2. Base' = PagesDir
      BY <3>1 DEF Enter, Base
    <3> QED
      BY <1>1, <1>3, <3>1, <3>2
  <2>2. CASE pc # "posts"
    BY <1>3, <2>2 DEF NextTree, ListedInv
  <2> QED
    BY <2>1, <2>2
<1>4. CASE (VisitDir \/ VisitFile) /\ UNCHANGED tree
  <2> SUFFICES ASSUME Walking', ~vanished', NEW j \in 1 .. Len(work'),
                      NEW x, x = work'[j]
               PROVE  Approach(Base, x)'
    BY DEF ListedInv
  <2>1. Walking /\ ~vanished /\ pc' = pc
    <3>1. CASE VisitDir
      BY <3>1 DEF VisitDir
    <3>2. CASE VisitFile
      BY <3>2 DEF VisitFile, SkipFile
    <3> QED
      BY <1>4, <3>1, <3>2
  <2>2. Base' = Base
    BY <2>1 DEF Base
  <2>3. \A d \in Dirs : Sees(Base, d)' <=> Sees(Base, d)
    <3>1. ClaimStep
      BY <1>4, ScansByClaim
    <3> DEFINE root == Base
    <3>2. root \in {PostsDir, PagesDir}
      BY <1>0
    <3>3. PICK r0 : r0 = Base
      OBVIOUS
    <3>4. \A d \in Dirs : Sees(r0, d)' <=> Sees(r0, d)
      BY <1>0, <1>4, <3>1, <3>3, WalkKeepsDue
    <3> QED
      BY <2>2, <3>3, <3>4 DEF Sees
  <2>4. \A i \in 1 .. Len(work) : Approach(Base, work[i])
    BY <2>1 DEF ListedInv
  <2>5. Approach(Base, x)
    <3>1. CASE VisitFile \/ (VisitDir /\ work' = << >>)
      <4>1. Shortens
        BY <3>1, VisitsShorten
      <4>2. j + 1 \in 1 .. Len(work) /\ work'[j] = work[j + 1]
        BY <4>1 DEF Shortens
      <4> QED
        BY <2>4, <4>2
    <3>2. CASE VisitDir /\ work' # << >>
      <4>1. ~Refused(tree, Head(work)) /\ Listable(tree, Head(work))
        BY <3>2 DEF VisitDir
      <4>2. PICK d, K : Expands(d, K)
        BY <3>2, <4>1, VisitDirExpands
      <4>3. CASE j <= K
        <5>1. work'[j] \in ReadDir(tree, d) /\ d \in Dirs /\ 1 \in 1 .. Len(work) /\ d = work[1]
          BY <4>2, <4>3 DEF Expands
        <5>2. d \in TreeOf(Base) /\ Approach(Base, d)
          BY <2>1, <2>4, <5>1 DEF WorkInv
        <5> QED
          BY <1>0, <5>1, <5>2, EntryIsApproached
      <4>4. CASE ~(j <= K)
        <5>1. j - K + 1 \in 2 .. Len(work) /\ j = K + (j - K + 1) - 1
          BY <4>2, <4>4 DEF Expands
        <5>2. work'[j] = work[j - K + 1] /\ j - K + 1 \in 1 .. Len(work)
          BY <4>2, <5>1 DEF Expands
        <5> QED
          BY <2>4, <5>2
      <4> QED
        BY <4>3, <4>4
    <3> QED
      BY <1>4, <3>1, <3>2
  <2> QED
    BY <2>2, <2>3, <2>5 DEF Approach
<1>5. CASE Check
  BY <1>5 DEF Check, ListedInv
<1>6. CASE pc' = "idle"
  BY <1>6 DEF ListedInv
<1>7. CASE UNCHANGED <<tree, scanVars>>
  BY <1>7 DEF ListedInv, scanVars, Approach, Sees, Base
<1>8. CASE Edit
  <2> SUFFICES ASSUME Walking', ~vanished', NEW i \in 1 .. Len(work'),
                      NEW x, x = work'[i]
               PROVE  Approach(Base, x)'
    BY DEF ListedInv
  <2>1. /\ ~vanished /\ UNCHANGED <<claims, pc, work>>
        /\ \A root \in {PostsDir, PagesDir}, d \in Dirs : ~Turns(root, d)
    BY <1>8, EditKeepsSteady
  <2>2. Approach(Base, x) /\ Base' = Base
    BY <2>1 DEF ListedInv, Base
  <2>3. ASSUME NEW d \in Dirs, Sees(Base, d) PROVE Sees(Base, d)'
    <3>1. Having(tree, d) # {}
      BY <1>0, <2>3, SeenIsThere DEF Sees
    <3>2. PICK r0 : r0 = Base
      OBVIOUS
    <3>3. ~Turns(r0, d) /\ Sees(r0, d)
      BY <1>0, <2>1, <2>3, <3>2
    <3>4. Sees(r0, d)'
      BY <3>1, <3>3 DEF Turns
    <3> QED
      BY <2>2, <3>2, <3>4 DEF Sees
  <2> QED
    BY <2>1, <2>2, <2>3 DEF Approach
<1> QED
  BY <1>2, <1>3, <1>4, <1>5, <1>6, <1>7, <1>8, StepCases

\* What is due of a directory is due also after a change that leaves the file
\* and the directories.
LEMMA EditKeepsDue ==
  ASSUME TypeInv, TypeInv', Edit, ~vanished', NEW f \in steady', f \in Files
  PROVE  /\ f \in Due(PostsDir, FALSE)' <=> f \in Due(PostsDir, FALSE)
         /\ f \in Due(PagesDir, TRUE)' <=> f \in Due(PagesDir, TRUE)
         /\ EntryNow(f)' = EntryNow(f)
<1>1. /\ \A root \in {PostsDir, PagesDir}, d \in Dirs : ~Turns(root, d)
      /\ ReadFile(tree', f, claims'[f]) = ReadFile(tree, f, claims[f])
  BY EditKeepsSteady
<1>2. Copy(f)' = Copy(f)
  BY <1>1, CopyIsRead, CopyIsReadNext
<1>3. ASSUME NEW root \in {PostsDir, PagesDir}, NEW isPage, Taken(f, Copy(f), isPage)
      PROVE  Reaches(root, f)' <=> Reaches(root, f)
  <2>1. Having(tree, f) # {}
    <3>1. Copy(f) # NoDoc /\ Copy(f) = ReadFile(tree, f, claims[f])
      BY <1>3, CopyIsRead DEF Taken
    <3> QED
      BY <3>1, ReadFileType DEF TypeInv
  <2>2. ASSUME NEW d \in Dirs, Within(f, d) PROVE Sees(root, d)' <=> Sees(root, d)
    <3>1. Having(tree, d) # {}
      BY <2>1, <2>2, AncestorsExist DEF TypeInv
    <3> QED
      BY <1>1, <3>1 DEF Turns
  <2> QED
    BY <2>2 DEF Reaches
<1>4. EntryNow(f)' = EntryNow(f)
  BY <1>2 DEF EntryNow
<1> QED
  BY <1>2, <1>3, <1>4 DEF Due

\* What is due and lies ahead does so until it is visited.
LEMMA AheadExpands ==
  ASSUME TypeInv, WorkInv, VisitDir, ~Refused(tree, Head(work)), Listable(tree, Head(work)),
         NEW f \in Files, Having(tree, f) # {}, Approach(Base, f), Ahead(f)
  PROVE  Ahead(f)'
<1>1. PICK d, K : Expands(d, K)
  BY VisitDirExpands
<1>2. PICK i \in 1 .. Len(work) : f \in TreeOf(work[i])
  BY DEF Ahead
<1>3. CASE i # 1
  <2>1. i \in 2 .. Len(work) /\ K + i - 1 \in 1 .. Len(work') /\ work'[K + i - 1] = work[i]
    BY <1>1, <1>3 DEF Expands
  <2> QED
    BY <1>2, <2>1 DEF Ahead
<1>4. CASE i = 1
  <2>1. d \in Dirs /\ Within(f, d) /\ d \in TreeOf(Base)
    <3>1. d \in Dirs /\ d = work[1] /\ f # d
      BY <1>1, ScanAssumption DEF Expands
    <3> QED
      BY <1>2, <1>4, <3>1 DEF TreeOf, WorkInv, VisitDir
  <2>2. PICK x \in ReadDir(tree, d) : f \in TreeOf(x)
    <3>1. CASE Parent[f] = d
      BY <3>1, OwnTree DEF ReadDir
    <3>2. CASE Parent[f] # d
      <4>1. PICK e \in Dirs : Parent[e] = d /\ Within(f, e)
        BY <2>1, <3>2, WithinByChild
      <4>2. Base \in Dirs
        BY ScanAssumption DEF Base
      <4>3. Within(e, Base)
        BY <2>1, <4>1, <4>2, WithinByParent DEF TreeOf
      <4>4. e # Base
        BY <4>2, <4>3, ScanAssumption
      <4>5. Sees(Base, e)
        BY <4>1, <4>3 DEF Approach
      <4>6. IsDir(tree, e, 0)
        BY <4>4, <4>5 DEF Sees
      <4> QED
        BY <4>1, <4>6 DEF ReadDir, TreeOf
    <3> QED
      BY <3>1, <3>2
  <2>3. PICK k \in 1 .. K : work'[k] = x
    BY <1>1 DEF Expands
  <2>4. k \in 1 .. Len(work')
    BY <1>1, <2>3 DEF Expands
  <2> QED
    BY <2>2, <2>3, <2>4 DEF Ahead
<1> QED
  BY <1>3, <1>4

\* What is due is there, and approached.
LEMMA DueIsThere ==
  ASSUME TypeInv, NEW root \in {PostsDir, PagesDir}, NEW isPage, NEW f \in Due(root, isPage)
  PROVE  /\ f \in Files /\ f \in TreeOf(root)
         /\ Taken(f, ReadFile(tree, f, claims[f]), isPage)
         /\ EntryNow(f) = Entry(f, ReadFile(tree, f, claims[f]))
         /\ Having(tree, f) # {} /\ Approach(root, f) /\ Sees(root, root)
<1>1. f \in Files /\ Reaches(root, f) /\ Taken(f, Copy(f), isPage) /\ root \in Dirs
  BY ScanAssumption DEF Due
<1>2. Copy(f) = ReadFile(tree, f, claims[f])
  BY <1>1, CopyIsRead
<1>3. Having(tree, f) # {}
  BY <1>1, <1>2, ReadFileType DEF TypeInv, Taken
<1>4. f \notin Dirs
  BY <1>1, ScanAssumption
<1> QED
  BY <1>1, <1>2, <1>3, <1>4 DEF Reaches, Approach, TreeOf, EntryNow

\* What lies ahead of a visit to a file is that file or lies ahead of the next.
LEMMA AheadShortens ==
  ASSUME TypeInv, VisitFile, pc' # "failed", NEW f \in Files, f # Head(work), Ahead(f)
  PROVE  Ahead(f)'
<1>1. work \in Seq(Dirs \cup Files) /\ work # << >> /\ Head(work) \in Files
  BY DEF TypeInv, VisitFile
<1>2. work' = Tail(work)
  BY DEF VisitFile, SkipFile
<1>3. PICK i \in 1 .. Len(work) : f \in TreeOf(work[i])
  BY DEF Ahead
<1>4. i # 1
  BY <1>1, <1>3, ScanAssumption DEF TreeOf
<1>5. i - 1 \in 1 .. Len(work') /\ work'[i - 1] = work[i]
  BY <1>1, <1>2, <1>4
<1> QED
  BY <1>3, <1>5 DEF Ahead

LEMMA CoverStep ==
  ASSUME TypeInv, TypeInv', WorkInv, ListedInv, CoverInv, [Next]_vars
  PROVE  CoverInv'
<1> USE DEF Walking
<1>0. /\ work \in Seq(Dirs \cup Files) /\ posts \in Seq(EntrySet) /\ pages \in Seq(EntrySet)
      /\ IsTree(tree) /\ PostsDir \in {PostsDir, PagesDir} /\ PagesDir \in {PostsDir, PagesDir}
  BY DEF TypeInv
<1>10. Due(PostsDir, FALSE) \subseteq Files /\ Due(PagesDir, TRUE) \subseteq Files
  BY DEF Due
<1>9. ASSUME UNCHANGED tree, BeginScan \/ VisitDir \/ VisitFile \/ NextTree \/ Check
      PROVE  /\ Due(PostsDir, FALSE)' = Due(PostsDir, FALSE)
             /\ Due(PagesDir, TRUE)' = Due(PagesDir, TRUE)
             /\ \A f \in Files : EntryNow(f)' = EntryNow(f)
  BY <1>9, ScansByClaim, WalkKeepsDue
<1>11. ASSUME NEW root \in {PostsDir, PagesDir}, NEW walk, Enter(root, walk), UNCHANGED tree,
              NEW isPage, NEW f \in Due(root, isPage)
       PROVE  Ahead(f)'
  <2>1. f \in TreeOf(root) /\ Sees(root, root)
    BY <1>11, DueIsThere
  <2>2. work' = <<root>>
    BY <1>11, <2>1, EnteredIsSeen
  <2>3. Len(work') = 1 /\ work'[1] = root
    BY <2>2, LenOfOne
  <2> QED
    BY <2>1, <2>3 DEF Ahead
<1>1. CASE BeginScan /\ UNCHANGED tree
  <2>1. Enter(PostsDir, "posts") /\ (pc' = "posts" \/ pc' = "refused")
    BY <1>1 DEF BeginScan, Enter
  <2>2. \A f \in Due(PostsDir, FALSE) : Ahead(f)'
    BY <1>0, <1>1, <1>11, <2>1
  <2> QED
    BY <1>1, <1>9, <2>1, <2>2 DEF CoverInv
<1>2. CASE VisitDir /\ UNCHANGED tree
  <2>1. /\ Due(PostsDir, FALSE)' = Due(PostsDir, FALSE) /\ Due(PagesDir, TRUE)' = Due(PagesDir, TRUE)
        /\ \A f \in Files : EntryNow(f)' = EntryNow(f)
    BY <1>2, <1>9
  <2>2. UNCHANGED <<posts, pages, steady, vanished>> /\ Walking
    BY <1>2 DEF VisitDir
  <2>3. ASSUME ~vanished, pc' = pc, NEW f \in Files, Having(tree, f) # {}, Approach(Base, f), Ahead(f)
        PROVE  Ahead(f)'
    <3>1. Head(work) = work[1] /\ 1 \in 1 .. Len(work) /\ work[1] \in Dirs
      BY <1>0, <1>2 DEF VisitDir
    <3>2. Approach(Base, work[1]) /\ work[1] \in TreeOf(Base)
      BY <2>2, <2>3, <3>1 DEF ListedInv, WorkInv
    <3>3. Sees(Base, work[1])
      BY <3>1, <3>2 DEF Approach, TreeOf
    <3>4. Listable(tree, Head(work))
      BY <3>1, <3>3, SeenIsThere DEF Sees
    <3>5. ~Refused(tree, Head(work))
      BY <1>2, <2>2, <2>3 DEF VisitDir
    <3> QED
      BY <1>2, <2>3, <3>4, <3>5, AheadExpands
  <2>4. CASE pc' = "refused"
    BY <2>4 DEF CoverInv
  <2>5. CASE pc' = pc
    <3>1. \A f \in Due(PostsDir, FALSE) : f \in Files /\ Having(tree, f) # {} /\ Approach(PostsDir, f)
      BY <1>0, DueIsThere
    <3>2. \A f \in Due(PagesDir, TRUE) : f \in Files /\ Having(tree, f) # {} /\ Approach(PagesDir, f)
      BY <1>0, DueIsThere
    <3>3. CASE pc = "posts"
      <4>1. Base = PostsDir
        BY <3>3 DEF Base
      <4>2. ASSUME ~vanished, NEW f \in Due(PostsDir, FALSE), Ahead(f) PROVE Ahead(f)'
        BY <2>3, <2>5, <3>1, <4>1, <4>2
      <4> QED
        BY <1>10, <2>1, <2>2, <2>5, <3>3, <4>2 DEF CoverInv
    <3>4. CASE pc = "pages"
      <4>1. Base = PagesDir
        BY <3>4 DEF Base
      <4>2. ASSUME ~vanished, NEW f \in Due(PagesDir, TRUE), Ahead(f) PROVE Ahead(f)'
        BY <2>3, <2>5, <3>2, <4>1, <4>2
      <4> QED
        BY <1>10, <2>1, <2>2, <2>5, <3>4, <4>2 DEF CoverInv
    <3> QED
      BY <2>2, <3>3, <3>4
  <2> QED
    BY <1>2, <2>4, <2>5 DEF VisitDir
<1>3. CASE VisitFile /\ UNCHANGED tree
  <2> DEFINE g == Head(work)
             e == Entry(g, ReadFile(tree, g, claims[g]))
             isPage == pc = "pages"
  <2>1. Due(PostsDir, FALSE)' = Due(PostsDir, FALSE) /\ Due(PagesDir, TRUE)' = Due(PagesDir, TRUE)
        /\ \A f \in Files : EntryNow(f)' = EntryNow(f)
    BY <1>3, <1>9
  <2>2. CASE pc' = "failed"
    BY <2>2 DEF CoverInv
  <2>3. CASE pc' # "failed"
    <3>1. UNCHANGED <<pc, steady, vanished>> /\ Walking
      BY <1>3, <2>3 DEF VisitFile, SkipFile
    <3>2. ASSUME NEW f \in Files, f # g, Ahead(f) PROVE Ahead(f)'
      BY <1>3, <2>3, <3>2, AheadShortens
    <3>3. Range(posts) \subseteq Range(posts') /\ Range(pages) \subseteq Range(pages')
      <4>1. posts' = posts \/ posts' = Append(posts, e)
        BY <1>3 DEF VisitFile, SkipFile
      <4>2. pages' = pages \/ pages' = Append(pages, e)
        BY <1>3 DEF VisitFile, SkipFile
      <4> HIDE DEF e
      <4>3. \A s \in Seq(EntrySet) : Range(s) \subseteq Range(Append(s, e))
        BY DEF Range
      <4> QED
        BY <1>0, <4>1, <4>2, <4>3
    <3>4. ASSUME Taken(g, ReadFile(tree, g, claims[g]), isPage)
          PROVE  EntryNow(g) \in Range(IF isPage THEN pages' ELSE posts')
      <4>1. EntryNow(g) = e
        <5>1. g \in Files
          BY <1>3 DEF VisitFile
        <5> QED
          BY <5>1, CopyIsRead DEF EntryNow
      <4>2. IF isPage THEN pages' = Append(pages, e) ELSE posts' = Append(posts, e)
        BY <1>3, <2>3, <3>4 DEF VisitFile
      <4> HIDE DEF e
      <4>3. \A s \in Seq(EntrySet) : e \in Range(Append(s, e))
        BY DEF Range
      <4> QED
        BY <1>0, <4>1, <4>2, <4>3
    <3>5. \A f \in Due(PostsDir, FALSE) :
            f \in Files /\ Taken(f, ReadFile(tree, f, claims[f]), FALSE)
      BY <1>0, DueIsThere
    <3>6. \A f \in Due(PagesDir, TRUE) :
            f \in Files /\ Taken(f, ReadFile(tree, f, claims[f]), TRUE)
      BY <1>0, DueIsThere
    <3> HIDE DEF g
    <3> QED
      BY <1>10, <2>1, <3>1, <3>2, <3>3, <3>4, <3>5, <3>6 DEF CoverInv
  <2> QED
    BY <2>2, <2>3
<1>4. CASE NextTree /\ UNCHANGED tree
  <2>1. Due(PostsDir, FALSE)' = Due(PostsDir, FALSE) /\ Due(PagesDir, TRUE)' = Due(PagesDir, TRUE)
        /\ \A f \in Files : EntryNow(f)' = EntryNow(f)
    BY <1>4, <1>9
  <2>2. \A f : ~Ahead(f)
    BY <1>4 DEF NextTree, Ahead
  <2>3. CASE pc = "posts"
    <3>1. Enter(PagesDir, "pages") /\ (pc' = "pages" \/ pc' = "refused")
      BY <1>4, <2>3 DEF NextTree, Enter
    <3>2. \A f \in Due(PagesDir, TRUE) : Ahead(f)'
      BY <1>0, <1>4, <1>11, <3>1
    <3> QED
      BY <1>4, <1>10, <2>1, <2>2, <2>3, <3>1, <3>2 DEF CoverInv, NextTree
  <2>4. CASE pc = "pages"
    BY <1>4, <1>10, <2>1, <2>2, <2>4 DEF CoverInv, NextTree
  <2> QED
    BY <1>4, <2>3, <2>4 DEF NextTree
<1>5. CASE Check /\ UNCHANGED tree
  <2>1. Due(PostsDir, FALSE)' = Due(PostsDir, FALSE) /\ Due(PagesDir, TRUE)' = Due(PagesDir, TRUE)
        /\ \A f \in Files : EntryNow(f)' = EntryNow(f)
    BY <1>5, <1>9
  <2>2. CASE pc' = "failed"
    BY <2>2 DEF CoverInv
  <2>3. CASE pc' = "done"
    <3>1. posts' = StableSort(posts, Newer) /\ pages' = StableSort(pages, Lighter)
      BY <1>5, <2>3 DEF Check
    <3>2. Rearranges(posts', posts) /\ Rearranges(pages', pages)
          /\ posts' \in Seq(EntrySet) /\ pages' \in Seq(EntrySet)
      BY <1>0, <3>1, SortedByDate, SortedByWeight
    <3>3. Range(posts) \subseteq Range(posts') /\ Range(pages) \subseteq Range(pages')
      BY <1>0, <3>2, SameRange
    <3> QED
      BY <1>5, <1>10, <2>1, <2>3, <3>3 DEF CoverInv, Check
  <2> QED
    BY <1>5, <2>2, <2>3 DEF Check
<1>6. CASE pc' = "idle"
  BY <1>6 DEF CoverInv
<1>7. CASE UNCHANGED <<tree, scanVars>>
  BY <1>7 DEF CoverInv, scanVars, Due, EntryNow, Ahead, Copy, Hidden, Reaches, Sees
<1>8. CASE Edit
  <2> SUFFICES ASSUME ~vanished' PROVE CoverInv'
    BY DEF CoverInv
  <2>0. \A f \in steady' : f \in Files
    BY DEF TypeInv
  <2>1. ~vanished
    BY <1>8, EditKeepsSteady
  <2>2. UNCHANGED <<pc, work, posts, pages>> /\ steady' \subseteq steady
    BY <1>8, EditKeepsSteady
  <2>3. \A f \in steady' : f \in Due(PostsDir, FALSE)' <=> f \in Due(PostsDir, FALSE)
    BY <1>8, <2>0, EditKeepsDue
  <2>4. \A f \in steady' : f \in Due(PagesDir, TRUE)' <=> f \in Due(PagesDir, TRUE)
    BY <1>8, <2>0, EditKeepsDue
  <2>5. \A f \in steady' : EntryNow(f)' = EntryNow(f)
    BY <1>8, <2>0, EditKeepsDue
  <2>6. \A f : Ahead(f)' <=> Ahead(f)
    BY <2>2 DEF Ahead
  <2> QED
    BY <2>1, <2>2, <2>3, <2>4, <2>5, <2>6 DEF CoverInv
<1> QED
  BY <1>1, <1>2, <1>3, <1>4, <1>5, <1>6, <1>7, <1>8, StepCases

LEMMA ConflictStays ==
  ASSUME Due(PostsDir, FALSE)' = Due(PostsDir, FALSE), Due(PagesDir, TRUE)' = Due(PagesDir, TRUE),
         \A f \in Files : EntryNow(f)' = EntryNow(f), Conflict
  PROVE  Conflict'
<1>1. Due(PostsDir, FALSE) \subseteq Files /\ Due(PagesDir, TRUE) \subseteq Files
  BY DEF Due
<1>2. CASE Due(PostsDir, FALSE) \cap Due(PagesDir, TRUE) # {}
  BY <1>2 DEF Conflict
<1>3. CASE \E f, g \in Due(PostsDir, FALSE) \cup Due(PagesDir, TRUE) :
             f # g /\ EntryNow(f).slug = EntryNow(g).slug
  <2>1. PICK f \in Due(PostsDir, FALSE) \cup Due(PagesDir, TRUE),
             g \in Due(PostsDir, FALSE) \cup Due(PagesDir, TRUE) :
          f # g /\ EntryNow(f).slug = EntryNow(g).slug
    BY <1>3
  <2>2. EntryNow(f)' = EntryNow(f) /\ EntryNow(g)' = EntryNow(g)
    BY <1>1
  <2> QED
    BY <2>1, <2>2 DEF Conflict
<1> QED
  BY <1>2, <1>3 DEF Conflict

LEMMA ExactStep ==
  ASSUME TypeInv, TypeInv', WorkInv, ListedInv, ExactInv, [Next]_vars
  PROVE  ExactInv'
<1>0. /\ work \in Seq(Dirs \cup Files) /\ posts \in Seq(EntrySet) /\ pages \in Seq(EntrySet)
      /\ IsTree(tree) /\ steady \subseteq Files
  BY DEF TypeInv
<1>10. Due(PostsDir, FALSE) \subseteq Files /\ Due(PagesDir, TRUE) \subseteq Files
  BY DEF Due
<1>9. ASSUME UNCHANGED tree, BeginScan \/ VisitDir \/ VisitFile \/ NextTree \/ Check
      PROVE  /\ Due(PostsDir, FALSE)' = Due(PostsDir, FALSE)
             /\ Due(PagesDir, TRUE)' = Due(PagesDir, TRUE)
             /\ \A f \in Files : EntryNow(f)' = EntryNow(f)
  BY <1>9, ScansByClaim, WalkKeepsDue
<1>1. CASE BeginScan
  BY <1>1 DEF BeginScan, Enter, ExactInv
<1>2. CASE VisitFile /\ UNCHANGED tree
  <2> DEFINE g == Head(work)
             isPage == pc = "pages"
  <2>1. Due(PostsDir, FALSE)' = Due(PostsDir, FALSE) /\ Due(PagesDir, TRUE)' = Due(PagesDir, TRUE)
        /\ \A f \in Files : EntryNow(f)' = EntryNow(f)
    BY <1>2, <1>9
  <2>2. Walking /\ UNCHANGED <<steady, vanished>> /\ pc # "failed"
    BY <1>2 DEF VisitFile, Walking
  <2>3. 1 \in 1 .. Len(work) /\ g = work[1] /\ g \in Files
    BY <1>0, <1>2 DEF VisitFile
  <2>4. CASE ~Taken(g, ReadFile(tree, g, claims[g]), isPage)
    <3>1. UNCHANGED <<pc, posts, pages>>
      BY <1>2, <2>4 DEF VisitFile, SkipFile
    <3> QED
      BY <1>10, <2>1, <2>2, <3>1 DEF ExactInv
  <2>5. CASE Taken(g, ReadFile(tree, g, claims[g]), isPage)
    <3> SUFFICES ASSUME steady = Files, ~vanished PROVE ExactInv'
      BY <2>2 DEF ExactInv
    <3>0. EntryNow(g) = Entry(g, ReadFile(tree, g, claims[g]))
          /\ Taken(g, Copy(g), isPage)
      BY <2>3, <2>5, CopyIsRead DEF EntryNow
    <3>1. g \in TreeOf(Base) /\ Base \in Dirs
      BY <2>2, <2>3, ScanAssumption DEF WorkInv, Base
    <3>2. Within(g, Base)
      BY <2>3, <3>1, ScanAssumption DEF TreeOf
    <3>3. IF isPage THEN g \in Due(PagesDir, TRUE) ELSE g \in Due(PostsDir, FALSE)
      <4>1. Approach(Base, g)
        BY <2>2, <2>3 DEF ListedInv
      <4>2. Reaches(Base, g)
        BY <2>3, <3>2, <4>1 DEF Approach, Reaches
      <4> QED
        BY <2>2, <2>3, <3>0, <4>2 DEF Due, Base, Walking
    <3>4. CASE pc' = "failed"
      <4> SUFFICES Conflict
        BY <2>1, <3>4, ConflictStays DEF ExactInv
      <4>1. PICK k \in 1 .. Len(FoundHere) : FoundHere[k].slug = EntryNow(g).slug
        <5> DEFINE e == Entry(g, ReadFile(tree, g, claims[g]))
        <5>1. e.slug = SlugOf(g, ReadFile(tree, g, claims[g]))
          BY DEF Entry
        <5>2. Holds(FoundHere, SlugOf(g, ReadFile(tree, g, claims[g])))
          BY <1>2, <2>2, <2>5, <3>4 DEF VisitFile, SkipFile, FoundHere, Walking
        <5> QED
          BY <3>0, <5>1, <5>2 DEF Holds
      <4>2. \E f \in (IF isPage THEN Due(PagesDir, TRUE) ELSE Due(PostsDir, FALSE)) :
              FoundHere[k] = EntryNow(f)
        BY <2>2, <4>1 DEF ExactInv, FoundHere, Walking
      <4>3. PICK f \in (IF isPage THEN Due(PagesDir, TRUE) ELSE Due(PostsDir, FALSE)) :
              FoundHere[k] = EntryNow(f)
        BY <4>2
      <4>4. FoundHere[k].path = f
        BY <4>3 DEF EntryNow, Entry
      <4>5. g \in TreeOf(work[1])
        BY <2>3, OwnTree
      <4>6. f # g
        BY <2>2, <2>3, <4>1, <4>4, <4>5 DEF WorkInv
      <4> HIDE DEF g
      <4> QED
        BY <3>3, <4>1, <4>3, <4>6 DEF Conflict
    <3>5. CASE pc' # "failed"
      <4> DEFINE e == EntryNow(g)
      <4>1. /\ pc' = pc
            /\ IF isPage THEN pages' = Append(pages, e) /\ posts' = posts
               ELSE posts' = Append(posts, e) /\ pages' = pages
        BY <1>2, <2>5, <3>0, <3>5 DEF VisitFile
      <4>2. \A s \in Seq(EntrySet) : \A k \in 1 .. Len(Append(s, e)) :
              (k \in 1 .. Len(s) /\ Append(s, e)[k] = s[k]) \/ Append(s, e)[k] = e
        OBVIOUS
      <4>3. e = EntryNow(g)
        OBVIOUS
      <4>4. SUFFICES /\ \A k \in 1 .. Len(posts') :
                          \E f \in Due(PostsDir, FALSE) : posts'[k] = EntryNow(f)
                     /\ \A k \in 1 .. Len(pages') :
                          \E f \in Due(PagesDir, TRUE) : pages'[k] = EntryNow(f)
        BY <1>10, <2>1, <2>2, <3>5 DEF ExactInv
      <4>5. /\ \A k \in 1 .. Len(posts) : \E f \in Due(PostsDir, FALSE) : posts[k] = EntryNow(f)
            /\ \A k \in 1 .. Len(pages) : \E f \in Due(PagesDir, TRUE) : pages[k] = EntryNow(f)
        BY <2>2 DEF ExactInv, Walking
      <4> HIDE DEF g, e
      <4>6. CASE isPage
        BY <1>0, <3>3, <4>1, <4>2, <4>3, <4>5, <4>6, ZenonT(30)
      <4>7. CASE ~isPage
        BY <1>0, <3>3, <4>1, <4>2, <4>3, <4>5, <4>7, ZenonT(30)
      <4> QED
        BY <4>6, <4>7
    <3> QED
      BY <3>4, <3>5
  <2> QED
    BY <2>4, <2>5
<1>3. CASE Check /\ UNCHANGED tree
  <2>1. Due(PostsDir, FALSE)' = Due(PostsDir, FALSE) /\ Due(PagesDir, TRUE)' = Due(PagesDir, TRUE)
        /\ \A f \in Files : EntryNow(f)' = EntryNow(f)
    BY <1>3, <1>9
  <2>2. CASE pc' = "failed"
    <3> SUFFICES ASSUME steady = Files, ~vanished PROVE Conflict
      <4>1. UNCHANGED <<steady, vanished>>
        BY <1>3 DEF Check
      <4> QED
        BY <2>1, <2>2, <4>1, ConflictStays DEF ExactInv
    <3>1. PICK i \in 1 .. Len(pages), j \in 1 .. Len(posts) : posts[j].slug = pages[i].slug
      BY <1>3, <2>2 DEF Check, Holds
    <3>2. PICK f \in Due(PostsDir, FALSE) : posts[j] = EntryNow(f)
      BY <1>3, <3>1 DEF Check, ExactInv
    <3>3. PICK g \in Due(PagesDir, TRUE) : pages[i] = EntryNow(g)
      BY <1>3, <3>1 DEF Check, ExactInv
    <3>4. CASE f = g
      BY <3>4 DEF Conflict
    <3>5. CASE f # g
      BY <3>1, <3>2, <3>3, <3>5 DEF Conflict
    <3> QED
      BY <3>4, <3>5
  <2>3. CASE pc' = "done"
    <3>1. posts' = StableSort(posts, Newer) /\ pages' = StableSort(pages, Lighter)
      BY <1>3, <2>3 DEF Check
    <3>2. Rearranges(posts', posts) /\ Rearranges(pages', pages)
      BY <1>0, <3>1, SortedByDate, SortedByWeight
    <3>3. Len(posts) \in Nat /\ Len(pages) \in Nat
      BY <1>0
    <3>4. TakenFrom(posts', posts)
      BY <3>2, <3>3, SameEntries
    <3>5. TakenFrom(pages', pages)
      BY <3>2, <3>3, SameEntries
    <3>6. SUFFICES ASSUME steady = Files, ~vanished
                   PROVE  /\ \A k \in 1 .. Len(posts') :
                               \E f \in Due(PostsDir, FALSE) : posts'[k] = EntryNow(f)
                          /\ \A k \in 1 .. Len(pages') :
                               \E f \in Due(PagesDir, TRUE) : pages'[k] = EntryNow(f)
      BY <1>3, <1>10, <2>1, <2>3 DEF ExactInv, Check
    <3>7. /\ \A i \in 1 .. Len(posts) : \E f \in Due(PostsDir, FALSE) : posts[i] = EntryNow(f)
          /\ \A i \in 1 .. Len(pages) : \E f \in Due(PagesDir, TRUE) : pages[i] = EntryNow(f)
      BY <1>3, <3>6 DEF ExactInv, Check
    <3>8. ASSUME NEW k \in 1 .. Len(posts')
          PROVE  \E f \in Due(PostsDir, FALSE) : posts'[k] = EntryNow(f)
      <4>1. PICK i \in 1 .. Len(posts) : posts'[k] = posts[i]
        BY <3>4 DEF TakenFrom
      <4>2. PICK f \in Due(PostsDir, FALSE) : posts[i] = EntryNow(f)
        BY <3>7
      <4> QED
        BY <4>1, <4>2
    <3>9. ASSUME NEW k \in 1 .. Len(pages')
          PROVE  \E f \in Due(PagesDir, TRUE) : pages'[k] = EntryNow(f)
      <4>1. PICK i \in 1 .. Len(pages) : pages'[k] = pages[i]
        BY <3>5 DEF TakenFrom
      <4>2. PICK f \in Due(PagesDir, TRUE) : pages[i] = EntryNow(f)
        BY <3>7
      <4> QED
        BY <4>1, <4>2
    <3> QED
      BY <3>8, <3>9
  <2> QED
    BY <1>3, <2>2, <2>3 DEF Check
<1>4. CASE (VisitDir \/ NextTree) /\ UNCHANGED tree
  <2>1. Due(PostsDir, FALSE)' = Due(PostsDir, FALSE) /\ Due(PagesDir, TRUE)' = Due(PagesDir, TRUE)
        /\ \A f \in Files : EntryNow(f)' = EntryNow(f)
    BY <1>4, <1>9
  <2>2. /\ UNCHANGED <<posts, pages, steady, vanished>>
        /\ pc \in {"posts", "pages"} /\ pc' # "failed"
    BY <1>4 DEF VisitDir, NextTree, Enter, Walking
  <2> QED
    BY <1>10, <2>1, <2>2 DEF ExactInv
<1>5. CASE pc' = "idle"
  BY <1>5 DEF ExactInv
<1>6. CASE UNCHANGED <<tree, scanVars>>
  <2>1. UNCHANGED <<tree, claims, pc, posts, pages, steady, vanished>>
    BY <1>6 DEF scanVars
  <2>2. Due(PostsDir, FALSE)' = Due(PostsDir, FALSE) /\ Due(PagesDir, TRUE)' = Due(PagesDir, TRUE)
    BY <2>1 DEF Due, Copy, Hidden, Reaches, Sees
  <2>3. \A f \in Files : EntryNow(f)' = EntryNow(f)
    BY <2>1 DEF EntryNow, Copy, Hidden
  <2>4. Conflict => Conflict'
    BY <2>2, <2>3, ConflictStays
  <2> QED
    BY <1>10, <2>1, <2>2, <2>3, <2>4 DEF ExactInv
<1>7. CASE Edit
  <2> SUFFICES ASSUME steady' = Files, ~vanished' PROVE ExactInv'
    BY DEF ExactInv
  <2>1. UNCHANGED <<pc, work, posts, pages>> /\ steady = Files /\ ~vanished
    BY <1>0, <1>7, EditKeepsSteady
  <2>2. \A f \in Files : f \in Due(PostsDir, FALSE)' <=> f \in Due(PostsDir, FALSE)
    BY <1>7, EditKeepsDue
  <2>3. \A f \in Files : f \in Due(PagesDir, TRUE)' <=> f \in Due(PagesDir, TRUE)
    BY <1>7, EditKeepsDue
  <2>4. \A f \in Files : EntryNow(f)' = EntryNow(f)
    BY <1>7, EditKeepsDue
  <2>5. /\ Due(PostsDir, FALSE) \subseteq Files /\ Due(PagesDir, TRUE) \subseteq Files
        /\ Due(PostsDir, FALSE)' \subseteq Files /\ Due(PagesDir, TRUE)' \subseteq Files
    BY DEF Due
  <2>6. Due(PostsDir, FALSE)' = Due(PostsDir, FALSE) /\ Due(PagesDir, TRUE)' = Due(PagesDir, TRUE)
    BY <2>2, <2>3, <2>5
  <2>7. /\ \A f \in Due(PostsDir, FALSE) : EntryNow(f)' = EntryNow(f)
        /\ \A f \in Due(PagesDir, TRUE) : EntryNow(f)' = EntryNow(f)
    BY <2>4, <2>5
  <2>8. Conflict => Conflict'
    BY <2>6, <2>7 DEF Conflict
  <2>9. ASSUME pc \in {"posts", "pages", "check", "done"}
        PROVE  /\ \A k \in 1 .. Len(posts') :
                    \E f \in Due(PostsDir, FALSE)' : posts'[k] = EntryNow(f)'
               /\ \A k \in 1 .. Len(pages') :
                    \E f \in Due(PagesDir, TRUE)' : pages'[k] = EntryNow(f)'
    <3>1. /\ \A k \in 1 .. Len(posts) : \E f \in Due(PostsDir, FALSE) : posts[k] = EntryNow(f)
          /\ \A k \in 1 .. Len(pages) : \E f \in Due(PagesDir, TRUE) : pages[k] = EntryNow(f)
      BY <2>1, <2>9 DEF ExactInv
    <3> QED
      BY <2>1, <2>6, <2>7, <3>1
  <2> QED
    BY <2>1, <2>8, <2>9 DEF ExactInv
<1> QED
  BY <1>1, <1>2, <1>3, <1>4, <1>5, <1>6, <1>7, StepCases

\* Before the first scan nothing is to be shown.
LEMMA ScanInitially ==
  ASSUME Init
  PROVE  ScanInv
<1>1. TypeInv
  BY TypeInit
<1> QED
  BY <1>1 DEF Init, ScanInit, ScanInv, IndexInv, SlugsDiffer, WorkInv, ListedInv, CoverInv,
              ExactInv, Walking

LEMMA ScanInvStep ==
  ASSUME ScanInv, [Next]_vars
  PROVE  ScanInv'
<1>1. TypeInv'
  BY TypeStep DEF ScanInv
<1> QED
  BY <1>1, IndexStep, WorkStep, ListedStep, CoverStep, ExactStep DEF ScanInv

LEMMA ScanInvMeans ==
  ASSUME ScanInv
  PROVE  ScanIsComplete
<1>0. posts \in Seq(EntrySet) /\ pages \in Seq(EntrySet)
      /\ DOMAIN posts = 1 .. Len(posts) /\ DOMAIN pages = 1 .. Len(pages)
  BY DEF ScanInv, TypeInv
<1>1. NothingSteadyIsLost
  BY DEF ScanInv, CoverInv, NothingSteadyIsLost
<1>2. ASSUME steady = Files, ~vanished, pc = "done"
      PROVE  /\ Range(posts) = {EntryNow(f) : f \in Due(PostsDir, FALSE)}
             /\ Range(pages) = {EntryNow(f) : f \in Due(PagesDir, TRUE)}
  <2>1. /\ \A f \in Due(PostsDir, FALSE) : EntryNow(f) \in Range(posts)
        /\ \A f \in Due(PagesDir, TRUE) : EntryNow(f) \in Range(pages)
    BY <1>2 DEF ScanInv, CoverInv, Due
  <2>2. /\ \A k \in DOMAIN posts : \E f \in Due(PostsDir, FALSE) : posts[k] = EntryNow(f)
        /\ \A k \in DOMAIN pages : \E f \in Due(PagesDir, TRUE) : pages[k] = EntryNow(f)
    BY <1>0, <1>2 DEF ScanInv, ExactInv
  <2>3. Range(posts) = {posts[k] : k \in DOMAIN posts} /\ Range(pages) = {pages[k] : k \in DOMAIN pages}
    BY DEF Range
  <2>4. ASSUME NEW x PROVE x \in Range(posts) <=> x \in {EntryNow(f) : f \in Due(PostsDir, FALSE)}
    BY <2>1, <2>2, <2>3
  <2>5. ASSUME NEW x PROVE x \in Range(pages) <=> x \in {EntryNow(f) : f \in Due(PagesDir, TRUE)}
    BY <2>1, <2>2, <2>3
  <2> QED
    BY <2>4, <2>5
<1>3. ASSUME pc = "done", NEW i \in DOMAIN posts, NEW j \in DOMAIN posts, i < j
      PROVE  posts[i] # posts[j] /\ posts[i].doc.date >= posts[j].doc.date
  BY <1>0, <1>3 DEF ScanInv, IndexInv, SlugsDiffer, NewestFirst
<1>4. ASSUME steady = Files, ~vanished, pc = "failed" PROVE Conflict
  BY <1>4 DEF ScanInv, ExactInv
<1>5. UndisturbedScanIsExact
  BY <1>2, <1>3, <1>4 DEF UndisturbedScanIsExact, Conflict
<1> QED
  BY <1>1, <1>5 DEF ScanIsComplete

\* No scan that ends well has lost a file that was there all the time, and one
\* that nothing disturbed has found what is due and nothing else, or has failed
\* on a conflict that is really there (Scan and scanDir, scanner.go:190-379).
THEOREM ScansAreComplete == Spec => []ScanIsComplete
<1>1. Init => ScanInv
  BY ScanInitially
<1>2. ScanInv /\ [Next]_vars => ScanInv'
  BY ScanInvStep
<1>3. ScanInv => ScanIsComplete
  BY ScanInvMeans
<1> QED
  BY <1>1, <1>2, <1>3, PTL DEF Spec

(***************************************************************************)
(* What is served.                                                         *)
(***************************************************************************)
LEMMA ServedStep ==
  ASSUME ScanInv, ServedInv, [Next]_vars
  PROVE  ServedInv'
<1>0. posts \in Seq(EntrySet) /\ pages \in Seq(EntrySet) /\ config \in Configs
  BY DEF ScanInv, TypeInv
<1>1. CASE PublishSnapshot
  <2>1. PICK ix \in {Build(posts, config), NoSearch} :
          snap' = [posts |-> posts, pages |-> pages, search |-> ix]
    BY <1>1 DEF PublishSnapshot
  <2>2. NewestFirst(posts)
    BY <1>1 DEF PublishSnapshot, ScanInv, IndexInv
  <2>3. ix = NoSearch \/ \E c \in Configs : ix = Build(posts, c)
    BY <1>0
  <2>4. Served(snap')
    <3>1. snap'.posts = posts /\ snap'.pages = pages /\ snap'.search = ix
      BY <2>1
    <3> QED
      BY <1>0, <2>2, <2>3, <3>1 DEF Served
  <2>5. asked' = asked
    BY <1>1 DEF PublishSnapshot, readerVars
  <2> QED
    BY <2>4, <2>5 DEF ServedInv
<1>2. CASE Poll
  BY <1>0, <1>2 DEF Poll, ServedInv, siteVars
<1>3. CASE Answer
  BY <1>3 DEF Answer, ServedInv, siteVars
<1>4. CASE UNCHANGED <<snap, asked>>
  BY <1>4 DEF ServedInv
<1> QED
  BY <1>1, <1>2, <1>3, <1>4
     DEF Next, vars, BeginReload, Scanning, EndReload, Change, siteVars, readerVars

LEMMA ServedInitially ==
  ASSUME Init
  PROVE  ServedInv
BY DEF Init, ServedInv

\* An index that is served admitted the newest posts, as many as fit.
LEMMA ServedIndexIsLargestPrefix ==
  ASSUME ServedInv
  PROVE  IndexIsLargestPrefix
<1> SUFFICES ASSUME snap # NoSnapshot, snap.search # NoSearch
             PROVE  LET ix == snap.search
                        n == Len(ix.docs)
                    IN  /\ ix.docs = SubSeq(snap.posts, 1, n)
                        /\ FitsCaps(snap.posts, n, ix.caps)
                        /\ n < Len(snap.posts) => ~FitsCaps(snap.posts, n + 1, ix.caps)
                        /\ ix.reason = "none" <=> n = Len(snap.posts)
  BY DEF IndexIsLargestPrefix
<1>1. PICK c \in Configs : snap.search = Build(snap.posts, c)
  BY DEF ServedInv, Served
<1>2. snap.posts \in Seq(EntrySet)
  BY DEF ServedInv, Served
<1>3. snap.search \in IndexSet(c) /\ IndexAfter(snap.search, snap.posts, Len(snap.posts))
  BY <1>1, <1>2, BuildKnows
<1>4. Len(snap.search.docs) \in Nat /\ Len(snap.posts) \in Nat
  BY <1>2, <1>3 DEF IndexSet
<1> QED
  BY <1>3, <1>4 DEF IndexAfter

\* The index that answers searches holds exactly as many of the newest posts as
\* the three limits let in, and its reason says whether any was left out
\* (Build, index.go:85-170).
THEOREM IndexesHoldTheNewestPosts == Spec => []IndexIsLargestPrefix
<1>1. Init => ScanInv /\ ServedInv
  BY ScanInitially, ServedInitially
<1>2. ScanInv /\ ServedInv /\ [Next]_vars => (ScanInv /\ ServedInv)'
  BY ScanInvStep, ServedStep
<1>3. ServedInv => IndexIsLargestPrefix
  BY ServedIndexIsLargestPrefix
<1> QED
  BY <1>1, <1>2, <1>3, PTL DEF Spec

(***************************************************************************)
(* What a reader holds.                                                    *)
(***************************************************************************)

LEMMA BoundExists ==
  ASSUME NEW n \in Nat, NEW d, \A i \in 1 .. n : d[i] \in Nat
  PROVE  \E b \in Nat : \A i \in 1 .. n : d[i] <= b
<1> DEFINE P == {m \in Nat : m <= n => \E b \in Nat : \A i \in 1 .. m : d[i] <= b}
<1>1. 0 \in P
  OBVIOUS
<1>2. ASSUME NEW m \in Nat, m \in P PROVE m + 1 \in P
  <2> SUFFICES ASSUME m + 1 <= n PROVE \E b \in Nat : \A i \in 1 .. m + 1 : d[i] <= b
    OBVIOUS
  <2>1. PICK b \in Nat : \A i \in 1 .. m : d[i] <= b
    BY <1>2
  <2>2. d[m + 1] \in Nat /\ b + d[m + 1] \in Nat
    OBVIOUS
  <2>3. ASSUME NEW i \in 1 .. m + 1 PROVE d[i] <= b + d[m + 1]
    <3>1. CASE i = m + 1
      BY <2>2, <3>1
    <3>2. CASE i # m + 1
      <4>1. i \in 1 .. m /\ d[i] \in Nat
        BY <3>2
      <4> QED
        BY <2>1, <2>2, <4>1
    <3> QED
      BY <3>1, <3>2
  <2> QED
    BY <2>2, <2>3
<1>3. n \in P
  <2> HIDE DEF P
  <2> QED
    BY <1>1, <1>2, NatInductionOnSets
<1> QED
  BY <1>3

LEMMA RangeOfList ==
  ASSUME NEW S, NEW s \in Seq(S)
  PROVE  Range(s) = {s[i] : i \in 1 .. Len(s)}
BY DEF Range

LEMMA FeedKnows ==
  ASSUME NEW c \in Configs, NEW s, Served(s)
  PROVE  /\ FeedOf(c, s).modified \in Nat
         /\ \A d \in Dates(FeedOf(c, s)) : d \in Nat /\ d <= FeedOf(c, s).modified
<1> DEFINE n == IF Len(s.posts) > FeedLimit(c) THEN FeedLimit(c) ELSE Len(s.posts)
           shown == SubSeq(s.posts, 1, n)
           es == Entries(shown)
           r == FeedOf(c, s)
<1>1. s.posts \in Seq(EntrySet) /\ NewestFirst(s.posts)
  BY DEF Served
<1>2. r.body = <<"feed", c.feedType, es>>
      /\ r.modified = IF s.posts = << >> THEN 0 ELSE s.posts[1].doc.date
  BY DEF FeedOf
<1>3. \A i \in 1 .. Len(s.posts) : s.posts[i].doc.date \in Nat
  BY <1>1, EntryDoc, DocAssumption
<1>4. n \in 0 .. Len(s.posts)
  <2>1. c.feedItems \in Int /\ Len(s.posts) \in Nat
    BY <1>1, ConfigAssumption
  <2> QED
    BY <2>1 DEF FeedLimit
<1>5. /\ shown \in Seq(EntrySet) /\ Len(shown) = n
      /\ \A i \in 1 .. n : shown[i] = s.posts[i]
  <2> HIDE DEF n
  <2> QED
    BY <1>1, <1>4
<1> HIDE DEF n, shown
<1>6. /\ es = [i \in 1 .. n |-> <<shown[i].slug, shown[i].doc.date, shown[i].doc.title,
                                  shown[i].doc.summary>>]
  BY <1>5 DEF Entries
<1>7. Dates(r) = {e[2] : e \in Range(es)}
  BY <1>2 DEF Dates
<1> HIDE DEF r
<1>8. ASSUME NEW d \in Dates(r) PROVE d \in Nat /\ d <= r.modified
  <2>1. Range(es) = {es[i] : i \in 1 .. n}
    BY <1>6 DEF Range
  <2>2. PICK i \in 1 .. n : d = es[i][2]
    BY <1>7, <2>1
  <2>3. d = s.posts[i].doc.date
    BY <1>5, <1>6, <2>2
  <2>4. 1 \in 1 .. Len(s.posts) /\ i \in 1 .. Len(s.posts) /\ s.posts # << >>
    BY <1>1, <1>4
  <2>5. s.posts[1].doc.date >= s.posts[i].doc.date
    BY <1>1, <1>3, <2>4 DEF NewestFirst
  <2> QED
    BY <1>2, <1>3, <2>3, <2>4, <2>5
<1>9. r.modified \in Nat
  BY <1>1, <1>2, <1>3
<1> QED
  BY <1>8, <1>9 DEF r

LEMMA SitemapKnows ==
  ASSUME NEW s, Served(s)
  PROVE  /\ SitemapOf(s).modified \in Nat
         /\ \A d \in Dates(SitemapOf(s)) : d \in Nat /\ d <= SitemapOf(s).modified
<1> DEFINE A == Locations(s.posts)
           B == Locations(s.pages)
           urls == <<"home">> \o A \o B
           dates == {s.posts[i].doc.date : i \in DOMAIN s.posts}
                      \cup {s.pages[i].doc.date : i \in DOMAIN s.pages} \cup {0}
           k == IF Len(urls) > MaxURLs THEN MaxURLs ELSE Len(urls)
           sub == SubSeq(urls, 1, k)
           r == SitemapOf(s)
           T == {"home"} \cup {<<e.slug, e.doc.date>> : e \in EntrySet}
<1>1. s.posts \in Seq(EntrySet) /\ s.pages \in Seq(EntrySet)
  BY DEF Served
<1>2. r.body = <<"sitemap", sub>> /\ r.modified = CHOOSE d \in dates : \A e \in dates : e <= d
  BY DEF SitemapOf
<1>3. /\ \A i \in 1 .. Len(s.posts) : s.posts[i].doc.date \in Nat
      /\ \A i \in 1 .. Len(s.pages) : s.pages[i].doc.date \in Nat
  BY <1>1, EntryDoc, DocAssumption
<1>4. ASSUME NEW found \in Seq(EntrySet)
      PROVE  /\ Locations(found) \in Seq(T) /\ Len(Locations(found)) = Len(found)
             /\ \A i \in 1 .. Len(found) : Locations(found)[i][2] = found[i].doc.date
  BY DEF Locations
<1>5. A \in Seq(T) /\ B \in Seq(T)
  BY <1>1, <1>4
<1>6. <<"home">> \in Seq(T)
  OBVIOUS
<1> HIDE DEF A, B, T
<1>7. urls \in Seq(T) /\ Len(urls) = 1 + Len(A) + Len(B)
  BY <1>5, <1>6
<1>8. ASSUME NEW j \in 2 .. Len(urls)
      PROVE  \/ j - 1 \in 1 .. Len(A) /\ urls[j] = A[j - 1]
             \/ j - 1 - Len(A) \in 1 .. Len(B) /\ urls[j] = B[j - 1 - Len(A)]
  BY <1>5, <1>6, <1>7
<1> HIDE DEF urls
<1>9. k \in 1 .. Len(urls)
  <2>1. Len(A) \in Nat /\ Len(B) \in Nat
    BY <1>5
  <2> QED
    BY <1>7, <2>1, SiteAssumption
<1> HIDE DEF k
<1>10. sub \in Seq(T) /\ Len(sub) = k /\ \A j \in 1 .. k : sub[j] = urls[j]
  BY <1>7, <1>9
<1> HIDE DEF sub
<1>11. /\ Tail(sub) \in Seq(T) /\ Len(Tail(sub)) = k - 1
       /\ \A j \in 1 .. k - 1 : Tail(sub)[j] = urls[j + 1]
  BY <1>9, <1>10
<1>12. \E x \in dates : \A y \in dates : y <= x
  <2>1. PICK b \in Nat : \A i \in 1 .. Len(s.posts) : s.posts[i].doc.date <= b
    <3> DEFINE d == [i \in 1 .. Len(s.posts) |-> s.posts[i].doc.date]
    <3>1. \A i \in 1 .. Len(s.posts) : d[i] \in Nat
      BY <1>3
    <3>2. Len(s.posts) \in Nat
      BY <1>1
    <3> HIDE DEF d
    <3>3. \E b \in Nat : \A i \in 1 .. Len(s.posts) : d[i] <= b
      BY <3>1, <3>2, BoundExists
    <3> QED
      BY <3>3 DEF d
  <2>2. PICK b2 \in Nat : \A i \in 1 .. Len(s.pages) : s.pages[i].doc.date <= b2
    <3> DEFINE d == [i \in 1 .. Len(s.pages) |-> s.pages[i].doc.date]
    <3>1. \A i \in 1 .. Len(s.pages) : d[i] \in Nat
      BY <1>3
    <3>2. Len(s.pages) \in Nat
      BY <1>1
    <3> HIDE DEF d
    <3>3. \E b2 \in Nat : \A i \in 1 .. Len(s.pages) : d[i] <= b2
      BY <3>1, <3>2, BoundExists
    <3> QED
      BY <3>3 DEF d
  <2>3. ASSUME NEW x \in dates PROVE x \in 0 .. b + b2
    BY <1>1, <1>3, <2>1, <2>2
  <2>4. dates # {} /\ dates \subseteq 0 .. b + b2 /\ b + b2 \in Nat
    BY <2>3
  <2> HIDE DEF dates
  <2> QED
    BY <2>4, GreatestExists
<1>13. dates \subseteq Nat
  BY <1>1, <1>3
<1>14. r.modified \in dates /\ \A e \in dates : e <= r.modified
  <2> HIDE DEF dates, r
  <2> QED
    BY <1>2, <1>12
<1>15. Dates(r) = {e[2] : e \in Range(Tail(sub))}
  BY <1>2 DEF Dates
<1>16. ASSUME NEW d \in Dates(r) PROVE d \in dates
  <2>1. Range(Tail(sub)) = {Tail(sub)[j] : j \in 1 .. k - 1}
    BY <1>11, RangeOfList
  <2>2. PICK j \in 1 .. k - 1 : d = Tail(sub)[j][2]
    BY <1>15, <2>1
  <2>3. d = urls[j + 1][2] /\ j + 1 \in 2 .. Len(urls)
    BY <1>9, <1>11, <2>2
  <2>4. CASE j \in 1 .. Len(A) /\ urls[j + 1] = A[j]
    <3>1. Len(A) = Len(s.posts) /\ \A i \in 1 .. Len(s.posts) : A[i][2] = s.posts[i].doc.date
      BY <1>1, <1>4 DEF A
    <3> QED
      BY <1>1, <2>3, <2>4, <3>1
  <2>5. CASE j - Len(A) \in 1 .. Len(B) /\ urls[j + 1] = B[j - Len(A)]
    <3>1. Len(B) = Len(s.pages) /\ \A i \in 1 .. Len(s.pages) : B[i][2] = s.pages[i].doc.date
      BY <1>1, <1>4 DEF B
    <3> QED
      BY <1>1, <2>3, <2>5, <3>1
  <2>6. (j + 1) - 1 = j /\ (j + 1) - 1 - Len(A) = j - Len(A)
    BY <1>5
  <2> QED
    BY <1>8, <2>3, <2>4, <2>5, <2>6
<1> HIDE DEF r, dates
<1> QED
  BY <1>13, <1>14, <1>16 DEF r

LEMMA RenderingKnows ==
  ASSUME NEW resource, NEW c \in Configs, NEW s, Served(s)
  PROVE  /\ Rendering(resource, c, s).modified \in Nat
         /\ \A d \in Dates(Rendering(resource, c, s)) :
              d \in Nat /\ d <= Rendering(resource, c, s).modified
BY FeedKnows, SitemapKnows DEF Rendering

LEMMA CopyStep ==
  ASSUME ScanInv, ServedInv, CopyInv, [Next]_vars
  PROVE  CopyInv'
<1>1. CASE Answer
  <2> DEFINE r == Rendering(reader.resource, asked, snap)
  <2>1. r.modified \in Nat /\ \A d \in Dates(r) : d \in Nat /\ d <= r.modified
    <3>1. asked \in Configs /\ Served(snap)
      BY <1>1 DEF Answer, ServedInv
    <3> QED
      BY <3>1, RenderingKnows
  <2>2. seen' = r /\ reader' = reader /\ copy' = IF NotModified(r) THEN copy ELSE r
    BY <1>1 DEF Answer
  <2> HIDE DEF r
  <2>3. CASE NotModified(r)
    <3>1. copy' = copy /\ copy # NoCopy /\ copy.modified \in Nat
      BY <2>2, <2>3 DEF NotModified, CopyInv
    <3>2. CASE reader.sends = "etag"
      BY <2>2, <2>3, <3>1, <3>2 DEF NotModified, CopyInv, RevalidationIsCurrent
    <3>3. CASE reader.sends # "etag"
      <4>1. reader.sends = "date"
        BY <3>3, SiteAssumption DEF ScanInv, TypeInv
      <4>2. r.modified <= copy.modified
        BY <2>3, <3>3 DEF NotModified
      <4>3. ASSUME NEW d \in Dates(r) PROVE d <= copy.modified
        <5>1. d \in Nat /\ d <= r.modified
          BY <2>1
        <5> QED
          BY <2>1, <3>1, <4>2, <5>1
      <4> QED
        BY <2>2, <3>1, <4>1, <4>3 DEF CopyInv, RevalidationIsCurrent
    <3> QED
      BY <3>2, <3>3
  <2>4. CASE ~NotModified(r)
    BY <2>1, <2>2, <2>4 DEF CopyInv, RevalidationIsCurrent
  <2> QED
    BY <2>3, <2>4
<1>2. CASE UNCHANGED <<copy, seen, reader>>
  BY <1>2 DEF CopyInv, RevalidationIsCurrent
<1> QED
  BY <1>1, <1>2
     DEF Next, vars, BeginReload, Scanning, EndReload, PublishSnapshot, Poll, Change, readerVars

\* A reader that polls the feed or the sitemap with an ETag never keeps a body
\* that differs from the one it would be sent now, and one that sends only a
\* date never misses anything dated later than its copy (writeXMLCached,
\* cache.go:39-57, with the bodies of feed.go and sitemap.go).
THEOREM CopiesAreCurrent == Spec => []RevalidationIsCurrent
<1>1. Init => ScanInv /\ ServedInv /\ CopyInv
  BY ScanInitially, ServedInitially DEF Init, CopyInv, RevalidationIsCurrent
<1>2. ScanInv /\ ServedInv /\ CopyInv /\ [Next]_vars => (ScanInv /\ ServedInv /\ CopyInv)'
  BY ScanInvStep, ServedStep, CopyStep
<1>3. CopyInv => RevalidationIsCurrent
  BY DEF CopyInv
<1> QED
  BY <1>1, <1>2, <1>3, PTL DEF Spec

(***************************************************************************)
(* Links.                                                                  *)
(***************************************************************************)
LEMMA SearchPageMeans ==
  ASSUME NEW page \in Int
  PROVE  /\ page < 1 => SearchPage(page) = 1
         /\ page \in 1 .. MaxSearchPage => SearchPage(page) = page
         /\ page > MaxSearchPage => SearchPage(page) = MaxSearchPage
<1>0. MaxSearchPage \in Nat \ {0}
  BY SMT DEF MaxSearchPage
<1>1. page < 1 => ~(page > MaxSearchPage)
  BY <1>0
<1>2. page \in 1 .. MaxSearchPage => ~(page < 1) /\ ~(page > MaxSearchPage)
  BY <1>0
<1>3. page > MaxSearchPage => ~(page < 1)
  BY <1>0
<1> QED
  BY <1>1, <1>2, <1>3, Zenon DEF SearchPage

LEMMA LinksOf ==
  ASSUME NEW s, NEW c, NEW req
  PROVE  /\ req.to \in {"home", "list", "posts", "tag"} => Links(s, c, req) = ListLinks(s, c, req)
         /\ req.to = "search" => Links(s, c, req) = SearchLinks(s, c, req)
         /\ req.to = "sitemap" => Links(s, c, req) = SitemapLinks(s)
         /\ req.to = "post" =>
              Links(s, c, req) =
                UNION {TagLinks(s.posts[i]) :
                         i \in {k \in DOMAIN s.posts : s.posts[k].slug = req.arg}}
BY Zenon DEF Links

LEMMA FoundIf ==
  ASSUME NEW s, NEW c, NEW req
  PROVE  /\ req.to \in {"home", "posts", "feed", "sitemap"} => Found(s, c, req)
         /\ req.to = "list" =>
              (Found(s, c, req) <=> req.page >= 2 /\ req.page <= PagesFor(Len(s.posts), c.postsPerPage))
         /\ req.to = "post" => (Found(s, c, req) <=> req.arg \in Slugs(s.posts) \ {""})
         /\ req.to = "tag" => (Found(s, c, req) <=> ByTag(s, req.arg) # << >>)
         /\ req.to = "search" => (Found(s, c, req) <=> SearchStatus(s.search, c, req.arg) = "ok")
BY Zenon DEF Found

\* What FlattenSeq computes, one list after the other.
Flattens(f, seqs) ==
  \A i \in 1 .. Len(seqs) : f[i] = IF i = 1 THEN seqs[1] ELSE f[i - 1] \o seqs[i]

LEMMA FlattenIs ==
  ASSUME NEW S, NEW seqs \in Seq(Seq(S)), Len(seqs) # 0
  PROVE  \E f \in [1 .. Len(seqs) -> Seq(S)] :
           Flattens(f, seqs) /\ FlattenSeq(seqs) = f[Len(seqs)]
<1> DEFINE N == Len(seqs)
           Next1(f, i) == IF i = 1 THEN seqs[i] ELSE f[i - 1] \o seqs[i]
           Is(f) == f = [i \in 1 .. N |-> Next1(f, i)]
           P == {m \in Nat : m <= N =>
                   \E f \in [1 .. m -> Seq(S)] : \A i \in 1 .. m : f[i] = Next1(f, i)}
<1>0. N \in Nat \ {0} /\ \A i \in 1 .. N : seqs[i] \in Seq(S)
  OBVIOUS
<1>1. 0 \in P
  <2>1. [i \in 1 .. 0 |-> << >>] \in [1 .. 0 -> Seq(S)]
    OBVIOUS
  <2>2. \A f : \A i \in 1 .. 0 : f[i] = Next1(f, i)
    OBVIOUS
  <2> HIDE DEF Next1
  <2> QED
    BY <2>1, <2>2
<1>2. ASSUME NEW m \in Nat, m \in P PROVE m + 1 \in P
  <2> SUFFICES ASSUME m + 1 <= N
               PROVE  \E f \in [1 .. m + 1 -> Seq(S)] : \A i \in 1 .. m + 1 : f[i] = Next1(f, i)
    OBVIOUS
  <2>1. PICK f \in [1 .. m -> Seq(S)] : \A i \in 1 .. m : f[i] = Next1(f, i)
    <3>1. m <= N
      BY <1>0
    <3> HIDE DEF Next1, N
    <3> QED
      BY <1>2, <3>1
  <2> DEFINE last == Next1(f, m + 1)
             g == [i \in 1 .. m + 1 |-> IF i = m + 1 THEN last ELSE f[i]]
  <2>2. last \in Seq(S)
    <3>1. seqs[m + 1] \in Seq(S)
      BY <1>0
    <3>2. CASE m = 0
      BY <3>1, <3>2
    <3>3. CASE m # 0
      <4>1. f[m] \in Seq(S) /\ (m + 1) - 1 = m
        BY <3>3
      <4>2. f[m] \o seqs[m + 1] \in Seq(S)
        BY <3>1, <4>1
      <4> QED
        BY <3>3, <4>1, <4>2
    <3> QED
      BY <3>2, <3>3
  <2>3. g \in [1 .. m + 1 -> Seq(S)]
    <3> HIDE DEF last
    <3>1. \A i \in 1 .. m + 1 : i # m + 1 => i \in 1 .. m
      OBVIOUS
    <3> QED
      BY <2>2, <3>1
  <2>4. ASSUME NEW i \in 1 .. m + 1 PROVE g[i] = Next1(g, i)
    <3>1. i # 1 => i - 1 \in 1 .. m /\ g[i - 1] = f[i - 1]
      <4> HIDE DEF last
      <4> QED
        OBVIOUS
    <3>2. Next1(g, i) = Next1(f, i)
      BY <3>1
    <3>3. CASE i = m + 1
      BY <3>2, <3>3
    <3>4. CASE i # m + 1
      <4>1. i \in 1 .. m /\ g[i] = f[i]
        BY <3>4
      <4> QED
        BY <2>1, <3>2, <4>1
    <3> QED
      BY <3>3, <3>4
  <2> QED
    BY <2>3, <2>4
<1>3. N \in P
  <2> HIDE DEF P, N
  <2> QED
    BY <1>0, <1>1, <1>2, NatInductionOnSets
<1>4. \E f : Is(f)
  <2>1. PICK f \in [1 .. N -> Seq(S)] : \A i \in 1 .. N : f[i] = Next1(f, i)
    BY <1>0, <1>3, SMTT(30)
  <2>2. f = [i \in 1 .. N |-> f[i]]
    OBVIOUS
  <2>3. Is(f)
    <3> HIDE DEF N, Next1
    <3> QED
      BY <2>1, <2>2
  <2> QED
    BY <2>3
<1> DEFINE f == CHOOSE f : Is(f)
<1>5. Is(f)
  <2> HIDE DEF Is
  <2> QED
    BY <1>4
<1>6. FlattenSeq(seqs) = f[N]
  BY <1>0 DEF FlattenSeq
<1> HIDE DEF f
<1>7. \A i \in 1 .. N : f[i] = Next1(f, i)
  <2> HIDE DEF N, Next1
  <2> QED
    BY <1>5
<1>8. f \in [1 .. N -> Seq(S)]
  <2> DEFINE Q == {m \in Nat : \A i \in 1 .. N : i <= m => f[i] \in Seq(S)}
  <2>1. 0 \in Q
    OBVIOUS
  <2>2. ASSUME NEW m \in Nat, m \in Q PROVE m + 1 \in Q
    <3> SUFFICES ASSUME NEW i \in 1 .. N, i <= m + 1 PROVE f[i] \in Seq(S)
      OBVIOUS
    <3>1. CASE i = 1
      BY <1>0, <1>7, <3>1
    <3>2. CASE i # 1
      <4>1. i - 1 \in 1 .. N /\ i - 1 <= m
        BY <1>0, <3>2
      <4>2. f[i - 1] \in Seq(S) /\ seqs[i] \in Seq(S)
        BY <1>0, <2>2, <4>1
      <4>3. f[i - 1] \o seqs[i] \in Seq(S)
        BY <4>2
      <4> QED
        BY <1>7, <3>2, <4>3
    <3> QED
      BY <3>1, <3>2
  <2>3. N \in Q
    <3> HIDE DEF Q, N
    <3> QED
      BY <1>0, <2>1, <2>2, NatInductionOnSets
  <2>4. \A i \in 1 .. N : f[i] \in Seq(S)
    BY <1>0, <2>3
  <2>5. f = [i \in 1 .. N |-> f[i]]
    <3> HIDE DEF N, Next1
    <3> QED
      BY <1>5
  <2> HIDE DEF N
  <2> QED
    BY <2>4, <2>5
<1>9. Flattens(f, seqs)
  <2>1. \A i \in 1 .. Len(seqs) : f[i] = IF i = 1 THEN seqs[1] ELSE f[i - 1] \o seqs[i]
    BY <1>7
  <2> QED
    BY <2>1 DEF Flattens
<1> QED
  BY <1>6, <1>8, <1>9

LEMMA PagesForKnows ==
  ASSUME NEW total \in Nat, NEW limit \in Nat \ {0}
  PROVE  /\ PagesFor(total, limit) \in Nat \ {0}
         /\ total <= PagesFor(total, limit) * limit
         /\ total > 0 => /\ PagesFor(total, limit) <= total
                         /\ (PagesFor(total, limit) - 1) * limit < total
         /\ total = 0 => PagesFor(total, limit) = 1
<1> DEFINE q == (total + limit - 1) \div limit
<1>1. q \in Int /\ limit * q <= total + limit - 1 /\ total + limit - 1 < limit * q + limit
  OBVIOUS
<1> HIDE DEF q
<1>2. total <= q * limit /\ q * limit < total + limit
  BY <1>1
<1>3. (q - 1) * limit = q * limit - limit
  BY <1>1
<1>4. q >= 0 /\ (total > 0 => q >= 1) /\ (total = 0 => q < 1)
  <2>1. CASE q <= -1
    <3>1. q * limit <= (-1) * limit
      BY <1>1, <2>1
    <3> QED
      BY <1>1, <1>2, <3>1
  <2>2. CASE q = 0
    BY <1>2, <2>2
  <2>3. CASE q >= 1
    <3>1. 1 * limit <= q * limit
      BY <1>1, <2>3
    <3> QED
      BY <1>1, <1>2, <2>3, <3>1
  <2> QED
    BY <1>1, <2>1, <2>2, <2>3
<1>5. total > 0 => q <= total
  <2> SUFFICES ASSUME total > 0, q > total PROVE FALSE
    BY <1>1
  <2>1. total * limit <= (q - 1) * limit
    BY <1>1
  <2>2. total * 1 <= total * limit
    OBVIOUS
  <2> QED
    BY <1>1, <1>2, <1>3, <2>1, <2>2
<1>6. PagesFor(total, limit) = IF q < 1 THEN 1 ELSE q
  BY DEF PagesFor, q
<1>7. CASE total = 0
  BY <1>1, <1>4, <1>6, <1>7
<1>8. CASE total > 0
  <2>1. PagesFor(total, limit) = q
    BY <1>1, <1>4, <1>6, <1>8
  <2> QED
    BY <1>1, <1>2, <1>3, <1>4, <1>5, <1>8, <2>1
<1> QED
  BY <1>7, <1>8

\* Where the pages of a list begin.
LEMMA PagesBegin ==
  ASSUME NEW total \in Nat, NEW limit \in Nat \ {0}, NEW n \in 1 .. PagesFor(total, limit)
  PROVE  /\ (n - 1) * limit \in Nat /\ n * limit = (n - 1) * limit + limit
         /\ (n - 1) * limit <= total
         /\ total > 0 => (n - 1) * limit < total
         /\ n = PagesFor(total, limit) => total <= n * limit
         /\ n < PagesFor(total, limit) => n * limit < total
<1> DEFINE last == PagesFor(total, limit)
<1>1. last \in Nat \ {0} /\ total <= last * limit
  BY PagesForKnows
<1>2. total > 0 => (last - 1) * limit < total
  BY PagesForKnows
<1>3. total = 0 => last = 1
  BY PagesForKnows
<1> HIDE DEF last
<1>4. n \in 1 .. last
  BY DEF last
<1>5. (n - 1) * limit \in Nat /\ n * limit = (n - 1) * limit + limit
  <2>1. \A a, b \in Nat : a * b \in Nat /\ (a + 1) * b = a * b + b
    OBVIOUS
  <2>2. n - 1 \in Nat /\ limit \in Nat /\ (n - 1) + 1 = n
    BY <1>1, <1>4
  <2> QED
    BY <2>1, <2>2
<1>6. (n - 1) * limit <= (last - 1) * limit
  <2>1. n - 1 \in Nat /\ last - 1 \in Nat /\ n - 1 <= last - 1
    BY <1>1, <1>4
  <2> QED
    BY <2>1
<1>7. n < last => n * limit <= (last - 1) * limit
  <2>1. ASSUME n < last PROVE n \in Nat /\ last - 1 \in Nat /\ n <= last - 1
    BY <1>1, <1>4, <2>1
  <2> QED
    BY <2>1
<1>8. (last - 1) * limit \in Nat
  BY <1>1
<1>9. CASE total = 0
  <2>1. n = 1 /\ last = 1
    BY <1>3, <1>4, <1>9
  <2> QED
    BY <1>1, <1>5, <1>9, <2>1 DEF last
<1>10. CASE total > 0
  BY <1>1, <1>2, <1>4, <1>5, <1>6, <1>7, <1>8, <1>10 DEF last
<1> QED
  BY <1>9, <1>10

\* Page n of a list, and all of them.
EndOf(s, limit, n) == IF n * limit > Len(s) THEN Len(s) ELSE n * limit
PageOf(s, limit, n) == SubSeq(s, (n - 1) * limit + 1, EndOf(s, limit, n))
PagesOf(s, limit) == [n \in 1 .. PagesFor(Len(s), limit) |-> PageOf(s, limit, n)]

LEMMA PageOfList ==
  ASSUME NEW S, NEW s \in Seq(S), NEW limit \in Nat \ {0}, NEW n \in 1 .. PagesFor(Len(s), limit)
  PROVE  /\ PageOf(s, limit, n) \in Seq(S)
         /\ Len(PageOf(s, limit, n)) = EndOf(s, limit, n) - (n - 1) * limit
         /\ \A i \in 1 .. EndOf(s, limit, n) - (n - 1) * limit :
              PageOf(s, limit, n)[i] = s[(n - 1) * limit + i]
         /\ s # << >> => PageOf(s, limit, n) # << >>
<1> DEFINE from == (n - 1) * limit
           end == EndOf(s, limit, n)
           page == PageOf(s, limit, n)
<1>1. Len(s) \in Nat
  OBVIOUS
<1>2. /\ from \in Nat /\ n * limit = from + limit /\ from <= Len(s)
      /\ Len(s) > 0 => from < Len(s)
  BY <1>1, PagesBegin
<1> HIDE DEF from
<1>3. end \in Nat /\ from <= end /\ end <= Len(s) /\ (Len(s) > 0 => from < end)
  BY <1>1, <1>2 DEF EndOf
<1> HIDE DEF end
<1>4. page = SubSeq(s, from + 1, end)
  BY DEF PageOf, from, end
<1>5. \A i \in from + 1 .. end : s[i] \in S
  BY <1>1, <1>2, <1>3
<1>6. /\ page \in Seq(S)
      /\ Len(page) = IF from + 1 <= end THEN end - (from + 1) + 1 ELSE 0
      /\ \A i \in 1 .. end - (from + 1) + 1 : page[i] = s[(from + 1) + i - 1]
  <2>1. from + 1 \in Int /\ end \in Int
    BY <1>2, <1>3
  <2> HIDE DEF page
  <2> QED
    BY <1>4, <1>5, <2>1, SubSeqProperties
<1> HIDE DEF page
<1>7. Len(page) = end - from /\ \A i \in 1 .. end - from : page[i] = s[from + i]
  BY <1>2, <1>3, <1>6
<1>8. ASSUME s # << >> PROVE page # << >>
  <2>1. Len(s) > 0
    BY <1>8
  <2>2. Len(page) # 0
    BY <1>1, <1>2, <1>3, <1>7, <2>1
  <2> QED
    BY <2>2
<1> QED
  BY <1>6, <1>7, <1>8 DEF page, from, end

\* Every element is on one of the pages.
LEMMA PageExists ==
  ASSUME NEW S, NEW s \in Seq(S), NEW limit \in Nat \ {0}, NEW i \in 1 .. Len(s)
  PROVE  \E n \in 1 .. PagesFor(Len(s), limit) :
           \E k \in 1 .. Len(PageOf(s, limit, n)) : PageOf(s, limit, n)[k] = s[i]
<1> DEFINE q == (i - 1) \div limit
           last == PagesFor(Len(s), limit)
           k == i - q * limit
<1>1. Len(s) \in Nat /\ i - 1 \in Nat
  OBVIOUS
<1>2. q \in Int /\ limit * q <= i - 1 /\ i - 1 < limit * q + limit
  <2>1. \A a \in Nat : /\ a \div limit \in Int /\ limit * (a \div limit) <= a
                       /\ a < limit * (a \div limit) + limit
    OBVIOUS
  <2> QED
    BY <1>1, <2>1
<1> HIDE DEF q
<1>3. last \in Nat \ {0} /\ Len(s) <= last * limit
  BY <1>1, PagesForKnows
<1> HIDE DEF last
<1>4. q * limit <= i - 1 /\ i - 1 < q * limit + limit /\ q * limit \in Int
  BY <1>2
<1>5. q >= 0
  <2> SUFFICES ASSUME q <= -1 PROVE FALSE
    BY <1>2
  <2>1. q * limit <= (-1) * limit
    BY <1>2
  <2> QED
    BY <1>1, <1>4, <2>1
<1>6. q < last
  <2> SUFFICES ASSUME last <= q PROVE FALSE
    BY <1>2, <1>3
  <2>1. last * limit <= q * limit
    BY <1>2, <1>3
  <2>2. last * limit \in Int
    BY <1>3
  <2> QED
    BY <1>1, <1>3, <1>4, <2>1, <2>2
<1>7. q + 1 \in 1 .. last /\ (q + 1) - 1 = q
  BY <1>2, <1>3, <1>5, <1>6
<1>8. (q + 1) * limit = q * limit + limit
  BY <1>2
<1>9. /\ Len(PageOf(s, limit, q + 1)) = EndOf(s, limit, q + 1) - q * limit
      /\ \A j \in 1 .. EndOf(s, limit, q + 1) - q * limit :
           PageOf(s, limit, q + 1)[j] = s[q * limit + j]
  BY <1>7, PageOfList DEF last
<1>10. k \in 1 .. EndOf(s, limit, q + 1) - q * limit /\ q * limit + k = i
  <2> DEFINE ql == q * limit
  <2>1. ql \in Int /\ ql <= i - 1 /\ i - 1 < ql + limit
    BY <1>4
  <2>2. EndOf(s, limit, q + 1) = IF ql + limit > Len(s) THEN Len(s) ELSE ql + limit
    BY <1>8 DEF EndOf
  <2> HIDE DEF ql
  <2>3. i - ql \in 1 .. EndOf(s, limit, q + 1) - ql /\ ql + (i - ql) = i
    BY <1>1, <2>1, <2>2
  <2> QED
    BY <2>3 DEF ql
<1>11. k \in 1 .. Len(PageOf(s, limit, q + 1)) /\ PageOf(s, limit, q + 1)[k] = s[i]
  BY <1>9, <1>10
<1> QED
  BY <1>7, <1>11 DEF last

\* One after the other the pages are the list.
LEMMA PagesJoined ==
  ASSUME NEW S, NEW s \in Seq(S), NEW limit \in Nat \ {0}
  PROVE  FlattenSeq(PagesOf(s, limit)) = s
<1> DEFINE last == PagesFor(Len(s), limit)
           seqs == PagesOf(s, limit)
<1>1. Len(s) \in Nat /\ last \in Nat \ {0}
  <2>1. Len(s) \in Nat
    OBVIOUS
  <2> QED
    BY <2>1, PagesForKnows
<1>2. \A n \in 1 .. last : PageOf(s, limit, n) \in Seq(S)
  BY PageOfList
<1> HIDE DEF last
<1>3. seqs = [n \in 1 .. last |-> PageOf(s, limit, n)]
  BY DEF PagesOf, last
<1> HIDE DEF seqs
<1>4. seqs \in Seq(Seq(S)) /\ Len(seqs) = last
  BY <1>1, <1>2, <1>3
<1>5. PICK f \in [1 .. last -> Seq(S)] : Flattens(f, seqs) /\ FlattenSeq(seqs) = f[last]
  <2>1. Len(seqs) # 0
    BY <1>1, <1>4
  <2>2. \E f \in [1 .. Len(seqs) -> Seq(S)] :
          Flattens(f, seqs) /\ FlattenSeq(seqs) = f[Len(seqs)]
    BY <1>4, <2>1, FlattenIs
  <2> QED
    BY <1>4, <2>2
<1> DEFINE P == {m \in Nat : \A n \in 1 .. last : n <= m =>
                               f[n] = SubSeq(s, 1, EndOf(s, limit, n))}
<1>6. 0 \in P
  OBVIOUS
<1>7. ASSUME NEW m \in Nat, m \in P PROVE m + 1 \in P
  <2> SUFFICES ASSUME NEW n \in 1 .. last, n <= m + 1
               PROVE  f[n] = SubSeq(s, 1, EndOf(s, limit, n))
    OBVIOUS
  <2>1. seqs[n] = SubSeq(s, (n - 1) * limit + 1, EndOf(s, limit, n))
    BY <1>3 DEF PageOf
  <2>2. CASE n = 1
    <3>1. f[1] = seqs[1]
      BY <1>1, <1>4, <1>5, <2>2 DEF Flattens
    <3>2. (1 - 1) * limit + 1 = 1
      OBVIOUS
    <3> QED
      BY <2>1, <2>2, <3>1, <3>2
  <2>3. CASE n # 1
    <3>1. n - 1 \in 1 .. last /\ n - 1 <= m /\ n - 1 < last
      BY <1>1, <2>3
    <3>2. f[n] = f[n - 1] \o seqs[n]
      BY <1>4, <1>5, <2>3 DEF Flattens
    <3> DEFINE k == (n - 1) * limit
    <3>3. k \in Nat /\ n * limit = k + limit /\ k < Len(s)
      <4>1. k < Len(s)
        BY <1>1, <3>1, PagesBegin DEF last
      <4> QED
        BY <1>1, <4>1, PagesBegin DEF last
    <3>4. f[n - 1] = SubSeq(s, 1, k)
      BY <1>1, <1>7, <3>1, <3>3 DEF EndOf
    <3>5. EndOf(s, limit, n) \in k .. Len(s)
      <4> HIDE DEF k
      <4> QED
        BY <1>1, <3>3 DEF EndOf
    <3> HIDE DEF k
    <3>6. 1 \in 1 .. Len(s) + 1 /\ k \in 1 - 1 .. Len(s)
      BY <1>1, <3>3
    <3>7. SubSeq(s, 1, k) \o SubSeq(s, k + 1, EndOf(s, limit, n))
            = SubSeq(s, 1, EndOf(s, limit, n))
      BY <3>5, <3>6, ConcatAdjacentSubSeq
    <3> QED
      BY <2>1, <3>2, <3>4, <3>7 DEF k
  <2> QED
    BY <2>2, <2>3
<1>8. last \in P
  <2> HIDE DEF P
  <2> QED
    BY <1>1, <1>6, <1>7, NatInductionOnSets
<1>9. EndOf(s, limit, last) = Len(s)
  <2>1. Len(s) <= last * limit /\ last * limit \in Int
    BY <1>1, PagesForKnows DEF last
  <2> QED
    BY <1>1, <2>1 DEF EndOf
<1>10. f[last] = SubSeq(s, 1, Len(s))
  BY <1>1, <1>8, <1>9
<1> QED
  BY <1>5, <1>10, SubSeqFull DEF seqs

\* The posts of a snapshot, as a set.
PostsOf(s) == {s.posts[i] : i \in 1 .. Len(s.posts)}

LEMMA PostsOfKnows ==
  ASSUME NEW s, s.posts \in Seq(EntrySet)
  PROVE  /\ s.posts \in Seq(PostsOf(s)) /\ DOMAIN s.posts = 1 .. Len(s.posts)
         /\ PostsOf(s) \subseteq EntrySet
         /\ \A post \in PostsOf(s) : post.slug \in Slugs(s.posts)
BY DEF PostsOf, Slugs

\* paginate shows a page that there is, and the page that is asked for if
\* there is one.
LEMMA PaginateKnows ==
  ASSUME NEW S, NEW s \in Seq(S), NEW perPage \in Nat \ {0}, NEW page \in Int
  PROVE  LET pag == Paginate(s, page, perPage)
         IN  /\ pag.last = PagesFor(Len(s), perPage) /\ pag.current \in 1 .. pag.last
             /\ pag.posts = PageOf(s, perPage, pag.current) /\ pag.posts \in Seq(S)
             /\ page \in 1 .. pag.last => pag.current = page
<1> DEFINE pag == Paginate(s, page, perPage)
           last == PagesFor(Len(s), perPage)
<1>1. last \in Nat \ {0}
  <2>1. Len(s) \in Nat
    OBVIOUS
  <2> QED
    BY <2>1, PagesForKnows
<1>2. /\ pag.last = last /\ pag.current = Clamped(page, last)
      /\ pag.posts = PageOf(s, perPage, Clamped(page, last))
  BY DEF Paginate, PageOf, EndOf
<1> HIDE DEF last
<1>3. Clamped(page, last) \in 1 .. last /\ (page \in 1 .. last => Clamped(page, last) = page)
  BY <1>1 DEF Clamped
<1>4. PageOf(s, perPage, Clamped(page, last)) \in Seq(S)
  BY <1>3, PageOfList DEF last
<1> HIDE DEF pag
<1> QED
  BY <1>2, <1>3, <1>4 DEF pag, last

\* A page of results that there is, and one that is asked for in vain.
LEMMA ResultsKnow ==
  ASSUME NEW S, NEW ix, NEW c, NEW query, NEW page \in Int, c.maxResults \in Nat \ {0},
         Matches(ix, query) \in Seq(S)
  PROVE  /\ Results(ix, c, query, page) \in Seq(S)
         /\ SearchPage(page) \in Nat \ {0}
         /\ page \in 1 .. MaxSearchPage =>
              Results(ix, c, query, page) = PageOf(Matches(ix, query), c.maxResults, page)
<1> DEFINE found == Matches(ix, query)
           n == SearchPage(page)
           L == c.maxResults
           offset == (n - 1) * L
           end == IF offset + L > Len(found) THEN Len(found) ELSE offset + L
<1>0. MaxSearchPage \in Nat \ {0}
  BY SMT DEF MaxSearchPage
<1>1. n \in Nat \ {0}
  <2>1. CASE page < 1
    BY <2>1, SearchPageMeans
  <2>2. CASE page \in 1 .. MaxSearchPage
    BY <1>0, <2>2, SearchPageMeans
  <2>3. CASE page > MaxSearchPage
    BY <1>0, <2>3, SearchPageMeans
  <2> QED
    BY <1>0, <2>1, <2>2, <2>3
<1>2. Results(ix, c, query, page) = SubSeq(found, offset + 1, end)
  BY DEF Results
<1> HIDE DEF n
<1>3. n - 1 \in Nat /\ L \in Nat /\ offset \in Nat /\ n * L = offset + L
  <2>1. \A a, b \in Nat : a * b \in Nat /\ (a + 1) * b = a * b + b
    OBVIOUS
  <2>2. n - 1 \in Nat /\ L \in Nat /\ (n - 1) + 1 = n
    BY <1>1
  <2> QED
    BY <2>1, <2>2
<1>4. Len(found) \in Nat /\ \A i \in 1 .. Len(found) : found[i] \in S
  OBVIOUS
<1>5. SubSeq(found, offset + 1, end) \in Seq(S)
  <2> HIDE DEF offset, L, found
  <2>1. offset + 1 \in Int /\ end \in Int /\ \A i \in offset + 1 .. end : found[i] \in S
    BY <1>3, <1>4 DEF L
  <2> HIDE DEF end
  <2> QED
    BY <2>1, SubSeqProperties
<1>6. ASSUME page \in 1 .. MaxSearchPage
      PROVE  SubSeq(found, offset + 1, end) = PageOf(found, L, page)
  <2>1. n = page
    BY <1>6, SearchPageMeans DEF n
  <2>2. end = EndOf(found, L, page)
    BY <1>3, <2>1 DEF EndOf
  <2> QED
    BY <2>1, <2>2 DEF PageOf
<1> QED
  BY <1>1, <1>2, <1>5, <1>6 DEF n

LEMMA JoinedIsLonger ==
  ASSUME NEW S, NEW s \in Seq(S), NEW t \in Seq(S), Len(s) > 0 \/ Len(t) > 0
  PROVE  Len(s \o t) > 0
<1>1. Len(s \o t) = Len(s) + Len(t) /\ Len(s) \in Nat /\ Len(t) \in Nat
  OBVIOUS
<1> QED
  BY <1>1

LEMMA FlattenKnows ==
  ASSUME NEW S, NEW seqs \in Seq(Seq(S))
  PROVE  /\ FlattenSeq(seqs) \in Seq(S)
         /\ (\E i \in 1 .. Len(seqs) : seqs[i] # << >>) => FlattenSeq(seqs) # << >>
<1> DEFINE N == Len(seqs)
<1>0. N \in Nat /\ \A i \in 1 .. N : seqs[i] \in Seq(S)
  OBVIOUS
<1>1. CASE N = 0
  <2>1. FlattenSeq(seqs) = seqs
    BY <1>1 DEF FlattenSeq
  <2>2. seqs = << >> /\ << >> \in Seq(S)
    BY <1>1
  <2> QED
    BY <1>1, <2>1, <2>2
<1>2. CASE N # 0
  <2>1. PICK f \in [1 .. N -> Seq(S)] : Flattens(f, seqs) /\ FlattenSeq(seqs) = f[N]
    BY <1>2, FlattenIs
  <2>2. f[N] \in Seq(S)
    BY <1>0, <1>2, <2>1
  <2>3. ASSUME NEW i \in 1 .. N, seqs[i] # << >> PROVE FlattenSeq(seqs) # << >>
    <3> DEFINE P == {m \in Nat : \A n \in i .. N : n - i <= m => Len(f[n]) > 0}
    <3>1. \A n \in 1 .. N : f[n] = IF n = 1 THEN seqs[1] ELSE f[n - 1] \o seqs[n]
      BY <2>1 DEF Flattens
    <3>2. Len(seqs[i]) > 0
      <4>1. seqs[i] \in Seq(S)
        BY <1>0
      <4> QED
        BY <2>3, <4>1
    <3>3. Len(f[i]) > 0
      <4>1. CASE i = 1
        BY <3>1, <3>2, <4>1
      <4>2. CASE i # 1
        <5>1. i - 1 \in 1 .. N
          BY <1>0, <4>2
        <5>2. f[i - 1] \in Seq(S) /\ seqs[i] \in Seq(S) /\ f[i] = f[i - 1] \o seqs[i]
          BY <1>0, <3>1, <4>2, <5>1
        <5> QED
          BY <3>2, <5>2, JoinedIsLonger
      <4> QED
        BY <4>1, <4>2
    <3>4. 0 \in P
      <4>1. \A n \in i .. N : n - i <= 0 => n = i
        BY <1>0
      <4> QED
        BY <3>3, <4>1
    <3>5. ASSUME NEW m \in Nat, m \in P PROVE m + 1 \in P
      <4> SUFFICES ASSUME NEW n \in i .. N, n - i <= m + 1 PROVE Len(f[n]) > 0
        OBVIOUS
      <4>1. CASE n = i
        BY <3>3, <4>1
      <4>2. CASE n # i
        <5>1. n - 1 \in i .. N /\ (n - 1) - i <= m /\ n \in 1 .. N /\ n # 1 /\ n - 1 \in 1 .. N
          BY <1>0, <4>2
        <5>2. Len(f[n - 1]) > 0
          BY <3>5, <5>1
        <5>3. f[n - 1] \in Seq(S) /\ seqs[n] \in Seq(S) /\ f[n] = f[n - 1] \o seqs[n]
          BY <1>0, <2>1, <3>1, <5>1
        <5> QED
          BY <5>2, <5>3, JoinedIsLonger
      <4> QED
        BY <4>1, <4>2
    <3>6. N - i \in P
      <4>1. N - i \in Nat
        BY <1>0
      <4> HIDE DEF P
      <4> QED
        BY <3>4, <3>5, <4>1, NatInductionOnSets
    <3>7. Len(f[N]) > 0
      BY <1>0, <3>6
    <3> QED
      BY <2>1, <2>2, <3>7
  <2> QED
    BY <2>1, <2>2, <2>3
<1> QED
  BY <1>1, <1>2

\* A tag lists posts, and one in normal form that a post has lists some.
LEMMA ByTagKnows ==
  ASSUME NEW s, s.posts \in Seq(EntrySet), NEW tag
  PROVE  /\ ByTag(s, tag) \in Seq(PostsOf(s))
         /\ tag \in PlainTags(s) => ByTag(s, tag) # << >>
<1> DEFINE Ks(post) == {k \in DOMAIN post.doc.tags : Normal[post.doc.tags[k]] = tag}
           Copies(post) == [i \in 1 .. Cardinality(Ks(post)) |-> post]
           seqs == [i \in 1 .. Len(s.posts) |-> Copies(s.posts[i])]
           S == PostsOf(s)
<1>1. Len(s.posts) \in Nat /\ \A i \in 1 .. Len(s.posts) : s.posts[i] \in S /\ s.posts[i] \in EntrySet
  BY DEF PostsOf
<1>2. ASSUME NEW post \in EntrySet
      PROVE  /\ Cardinality(Ks(post)) \in Nat
             /\ \A k \in DOMAIN post.doc.tags :
                  Normal[post.doc.tags[k]] = tag => Cardinality(Ks(post)) # 0
  <2>1. post.doc.tags \in Seq(DOMAIN Normal)
    BY EntryDoc, SiteAssumption
  <2>2. DOMAIN post.doc.tags = 1 .. Len(post.doc.tags) /\ Len(post.doc.tags) \in Nat
    BY <2>1
  <2>3. IsFiniteSet(1 .. Len(post.doc.tags))
    <3> DEFINE n == Len(post.doc.tags)
    <3>1. n \in Int
      BY <2>2
    <3> HIDE DEF n
    <3>2. IsFiniteSet(1 .. n)
      BY <3>1, FS_Interval
    <3> QED
      BY <3>2 DEF n
  <2>4. Ks(post) \subseteq 1 .. Len(post.doc.tags)
    BY <2>2
  <2>5. IsFiniteSet(Ks(post))
    <3> HIDE DEF Ks
    <3> QED
      BY <2>3, <2>4, FS_Subset
  <2>6. Cardinality(Ks(post)) \in Nat /\ (Cardinality(Ks(post)) = 0 <=> Ks(post) = {})
    <3> HIDE DEF Ks
    <3> QED
      BY <2>5, FS_CardinalityType, FS_EmptySet
  <2> QED
    BY <2>6
<1>3. ASSUME NEW i \in 1 .. Len(s.posts)
      PROVE  /\ Copies(s.posts[i]) \in Seq(S)
             /\ Len(Copies(s.posts[i])) = Cardinality(Ks(s.posts[i]))
  <2>1. s.posts[i] \in S /\ Cardinality(Ks(s.posts[i])) \in Nat
    BY <1>1, <1>2
  <2> HIDE DEF Ks, S
  <2> QED
    BY <2>1
<1>4. seqs \in Seq(Seq(S)) /\ Len(seqs) = Len(s.posts)
      /\ \A i \in 1 .. Len(s.posts) : seqs[i] = Copies(s.posts[i])
  <2> DEFINE n == Len(s.posts)
             c(i) == Copies(s.posts[i])
  <2>1. n \in Nat /\ \A i \in 1 .. n : c(i) \in Seq(S)
    BY <1>1, <1>3
  <2>2. seqs = [i \in 1 .. n |-> c(i)]
    OBVIOUS
  <2> HIDE DEF c, n, seqs, S
  <2>3. seqs \in Seq(Seq(S)) /\ Len(seqs) = n /\ \A i \in 1 .. n : seqs[i] = c(i)
    BY <2>1, <2>2
  <2> QED
    BY <2>3 DEF c, n
<1>5. ByTag(s, tag) = IF tag = NoTag THEN << >> ELSE FlattenSeq(seqs)
  BY DEF ByTag
<1>6. << >> \in Seq(S)
  OBVIOUS
<1>7. ASSUME tag \in PlainTags(s)
      PROVE  tag # NoTag /\ \E i \in 1 .. Len(seqs) : seqs[i] # << >>
  <2>1. DOMAIN s.posts = 1 .. Len(s.posts)
    BY <1>1
  <2>2. PICK i \in 1 .. Len(s.posts) : tag \in Range(s.posts[i].doc.tags)
    BY <1>7, <2>1 DEF PlainTags, Tags
  <2>3. PICK k \in DOMAIN s.posts[i].doc.tags : s.posts[i].doc.tags[k] = tag
    BY <2>2 DEF Range
  <2>4. Normal[tag] = tag /\ tag # NoTag
    BY <1>7 DEF PlainTags
  <2>5. Cardinality(Ks(s.posts[i])) # 0
    BY <1>1, <1>2, <2>3, <2>4
  <2>6. Len(Copies(s.posts[i])) # 0
    BY <1>3, <2>5
  <2>7. Copies(s.posts[i]) # << >>
    <3> HIDE DEF Copies
    <3> QED
      BY <2>6
  <2> HIDE DEF Copies, seqs
  <2> QED
    BY <1>4, <2>4, <2>7
<1> HIDE DEF seqs, S
<1>8. /\ FlattenSeq(seqs) \in Seq(S)
      /\ (\E i \in 1 .. Len(seqs) : seqs[i] # << >>) => FlattenSeq(seqs) # << >>
  BY <1>4, FlattenKnows
<1> QED
  BY <1>5, <1>6, <1>7, <1>8 DEF S

\* How the slugs of the links on a page arrive.
Arriving(req) == IF req.to = "sitemap" THEN Mapped ELSE Linked

\* What NoDeadLinks asks of a link on the page that is asked for with req.
Allowed(s, c, req, link) == link \in Crooked(s, Arriving(req)) \/ Leads(s, c, link)

LEMMA FoundLeads ==
  ASSUME NEW s, NEW c, NEW req, NEW link, link.to # "search", Found(s, c, link)
  PROVE  Allowed(s, c, req, link)
BY DEF Allowed, Leads

LEMMA CrookedKnows ==
  ASSUME NEW s, NEW arriving
  PROVE  /\ \A slug \in Slugs(s.posts) \ PlainSlugs(s, arriving) :
              Request("post", arriving[slug], 1) \in Crooked(s, arriving)
         /\ \A t \in Tags(s) \ PlainTags(s) :
              Request("tag", Arrives[t], 1) \in Crooked(s, arriving)
         /\ \A i \in DOMAIN s.pages :
              Request("root", s.pages[i].slug, 1) \in Crooked(s, arriving)
<1> DEFINE bent == {Request("post", arriving[slug], 1) :
                      slug \in Slugs(s.posts) \ PlainSlugs(s, arriving)}
           tags == {Request("tag", Arrives[t], 1) : t \in Tags(s) \ PlainTags(s)}
           roots == {Request("root", s.pages[i].slug, 1) : i \in DOMAIN s.pages}
<1>1. Crooked(s, arriving) = bent \cup tags \cup roots
  BY Zenon DEF Crooked
<1>2. \A slug \in Slugs(s.posts) \ PlainSlugs(s, arriving) :
        Request("post", arriving[slug], 1) \in bent
  OBVIOUS
<1>3. \A t \in Tags(s) \ PlainTags(s) : Request("tag", Arrives[t], 1) \in tags
  OBVIOUS
<1>4. \A i \in DOMAIN s.pages : Request("root", s.pages[i].slug, 1) \in roots
  OBVIOUS
<1> HIDE DEF bent, tags, roots
<1> QED
  BY <1>1, <1>2, <1>3, <1>4

\* The link of a post leads to it if its slug arrives.
LEMMA PostLinkLeads ==
  ASSUME NEW s, NEW c, NEW req, NEW slug \in Slugs(s.posts)
  PROVE  Allowed(s, c, req, Request("post", Arriving(req)[slug], 1))
<1> DEFINE link == Request("post", Arriving(req)[slug], 1)
<1>1. CASE slug \in PlainSlugs(s, Arriving(req))
  <2>1. slug \in Slugs(s.posts) \ {""} /\ Arriving(req)[slug] = slug
    BY <1>1 DEF PlainSlugs
  <2>2. link.to = "post" /\ link.arg = slug
    BY <2>1 DEF Request
  <2> HIDE DEF link
  <2>3. Found(s, c, link)
    BY <2>1, <2>2, FoundIf
  <2> QED
    BY <2>2, <2>3, FoundLeads DEF link
<1>2. CASE slug \notin PlainSlugs(s, Arriving(req))
  BY <1>2, CrookedKnows DEF Allowed
<1> QED
  BY <1>1, <1>2

LEMMA TagLinkLeads ==
  ASSUME NEW s, s.posts \in Seq(EntrySet), NEW c, NEW req, NEW i \in DOMAIN s.posts,
         NEW link \in TagLinks(s.posts[i])
  PROVE  Allowed(s, c, req, link)
<1>1. PICK t \in Range(s.posts[i].doc.tags) : link = Request("tag", Arrives[t], 1)
  BY DEF TagLinks, Range
<1>2. t \in Tags(s)
  BY DEF Tags
<1>3. CASE t \in PlainTags(s)
  <2>1. link.to = "tag" /\ link.arg = t
    BY <1>1, <1>3 DEF Request, PlainTags
  <2>2. ByTag(s, t) # << >>
    BY <1>3, ByTagKnows
  <2>3. Found(s, c, link)
    BY <2>1, <2>2, FoundIf
  <2> QED
    BY <2>1, <2>3, FoundLeads
<1>4. CASE t \notin PlainTags(s)
  BY <1>1, <1>2, <1>4, CrookedKnows DEF Allowed
<1> QED
  BY <1>3, <1>4

LEMMA EntryLinksLead ==
  ASSUME NEW s, s.posts \in Seq(EntrySet), NEW c, NEW req, req.to # "sitemap",
         NEW found \in Seq(PostsOf(s)), NEW link \in EntryLinks(found)
  PROVE  Allowed(s, c, req, link)
<1>1. \A i \in DOMAIN found : found[i] \in PostsOf(s)
  OBVIOUS
<1>2. \A post \in PostsOf(s) : post.slug \in Slugs(s.posts) /\ \E i \in DOMAIN s.posts : post = s.posts[i]
  BY PostsOfKnows DEF PostsOf
<1>3. \/ \E i \in DOMAIN found : link = PostLink(found[i])
      \/ \E i \in DOMAIN found : link \in TagLinks(found[i])
  BY DEF EntryLinks
<1>4. CASE \E i \in DOMAIN found : link = PostLink(found[i])
  <2>1. PICK post \in PostsOf(s) : link = PostLink(post)
    BY <1>1, <1>4
  <2>2. link = Request("post", Arriving(req)[post.slug], 1)
    BY <2>1 DEF PostLink, Arriving
  <2> QED
    BY <1>2, <2>2, PostLinkLeads
<1>5. CASE \E i \in DOMAIN found : link \in TagLinks(found[i])
  BY <1>1, <1>2, <1>5, TagLinkLeads
<1> QED
  BY <1>3, <1>4, <1>5

LEMMA ListLinksLead ==
  ASSUME NEW s, Served(s), NEW c \in Configs, NEW req,
         req.to \in {"home", "list", "posts", "tag"}, req.page \in Int, Found(s, c, req),
         NEW link \in ListLinks(s, c, req)
  PROVE  Allowed(s, c, req, link)
<1> DEFINE pag == Listing(s, c, req)
<1>0. s.posts \in Seq(EntrySet) /\ c.postsPerPage \in Nat \ {0}
  BY ConfigAssumption DEF Served
<1>1. Listed(s, req) \in Seq(PostsOf(s))
  BY <1>0, ByTagKnows, PostsOfKnows DEF Listed
<1>2. /\ pag.last = PagesFor(Len(Listed(s, req)), c.postsPerPage)
      /\ pag.current \in 1 .. pag.last
      /\ pag.posts \in Seq(PostsOf(s))
  BY <1>0, <1>1, PaginateKnows, SMTT(30) DEF Listing
<1>3. pag.last \in Nat
  <2>1. Len(Listed(s, req)) \in Nat
    BY <1>1
  <2> QED
    BY <1>0, <1>2, <2>1, PagesForKnows
<1>4. link \in EntryLinks(pag.posts) \/ link \in PagingLinks(req, pag)
  BY DEF ListLinks
<1> HIDE DEF pag
<1>6. CASE link \in EntryLinks(pag.posts)
  BY <1>0, <1>2, <1>6, EntryLinksLead
<1>7. CASE link \in PagingLinks(req, pag)
  <2>1. PICK n \in PrevOf(pag) \cup NextOf(pag) : link = PageURL(req, n)
    BY <1>7 DEF PagingLinks
  <2>2. n \in 1 .. pag.last
    BY <1>2, <1>3 DEF PrevOf, NextOf
  <2>3. CASE req.to \in {"home", "list"} /\ n = 1
    <3>1. link.to = "home"
      BY <2>1, <2>3 DEF PageURL, Request
    <3> QED
      BY <3>1, FoundIf, FoundLeads
  <2>4. CASE req.to \in {"home", "list"} /\ n # 1
    <3>1. link.to = "list" /\ link.page = n
      BY <2>1, <2>4 DEF PageURL, Request
    <3>2. pag.last = PagesFor(Len(s.posts), c.postsPerPage)
      BY <1>2, <2>4 DEF Listed
    <3>3. link.page >= 2 /\ link.page <= PagesFor(Len(s.posts), c.postsPerPage)
      BY <1>3, <2>2, <2>4, <3>1, <3>2
    <3>4. Found(s, c, link)
      BY <3>1, <3>3, FoundIf
    <3> QED
      BY <3>1, <3>4, FoundLeads
  <2>5. CASE req.to = "posts"
    <3>1. link.to = "posts"
      BY <2>1, <2>5 DEF PageURL, Request
    <3> QED
      BY <3>1, FoundIf, FoundLeads
  <2>6. CASE req.to = "tag"
    <3>1. link.to = "tag" /\ link.arg = req.arg
      BY <2>1, <2>6 DEF PageURL, Request
    <3>2. ByTag(s, link.arg) # << >>
      BY <2>6, <3>1, FoundIf
    <3>3. Found(s, c, link)
      BY <3>1, <3>2, FoundIf
    <3> QED
      BY <3>1, <3>3, FoundLeads
  <2> QED
    BY <2>3, <2>4, <2>5, <2>6
<1> QED
  BY <1>4, <1>6, <1>7

\* The matches in an index that is served are posts, and no more than there
\* are pages that can be asked for.
LEMMA ServedMatches ==
  ASSUME NEW s, Served(s), s.search # NoSearch, NEW query
  PROVE  /\ Matches(s.search, query) \in Seq(PostsOf(s))
         /\ Len(Matches(s.search, query)) <= MaxSearchPage
<1>1. s.posts \in Seq(EntrySet)
  BY DEF Served
<1>2. PICK caps \in Configs : s.search = Build(s.posts, caps)
  BY DEF Served
<1> DEFINE ix == s.search
           m == Len(ix.docs)
<1>3. ix \in IndexSet(caps) /\ IndexAfter(ix, s.posts, Len(s.posts))
  BY <1>1, <1>2, BuildKnows
<1>4. ix.docs \in Seq(EntrySet) /\ ix.caps = caps
  BY <1>3 DEF IndexSet
<1>5. m \in Nat /\ m <= Len(s.posts) /\ ix.docs = SubSeq(s.posts, 1, m)
  BY <1>3, <1>4 DEF IndexAfter
<1>6. m <= caps.maxDocs
  BY <1>3, <1>4 DEF IndexAfter, FitsCaps
<1>7. MaxSearchPage \in Nat
  BY SMT DEF MaxSearchPage
<1>8. caps.maxDocs \in 1 .. MaxSearchPage
  BY ConfigAssumption
<1> HIDE DEF m
<1>9. ix.docs \in Seq(PostsOf(s))
  <2>1. s.posts \in Seq(PostsOf(s)) /\ Len(s.posts) \in Nat
    BY <1>1, PostsOfKnows
  <2>2. \A i \in 1 .. m : s.posts[i] \in PostsOf(s)
    BY <1>5, <2>1
  <2>3. SubSeq(s.posts, 1, m) \in Seq(PostsOf(s))
    BY <1>5, <2>2, SubSeqProperties
  <2> QED
    BY <1>5, <2>3
<1> HIDE DEF ix
<1>10. Matches(ix, query) \in Seq(PostsOf(s)) /\ Len(Matches(ix, query)) <= Len(ix.docs)
  BY <1>9, MatchesAreDocs
<1>11. Len(Matches(ix, query)) \in Nat
  BY <1>10
<1> QED
  BY <1>5, <1>6, <1>7, <1>8, <1>10, <1>11 DEF ix, m

\* The pages that a page of results links to are pages that there are.
LEMMA PagingIsWithin ==
  ASSUME NEW total \in Nat, total > 0, NEW limit \in Nat \ {0}, NEW n \in Nat \ {0},
         NEW m \in Preceding(total, limit, n) \cup Following(total, limit, n)
  PROVE  m \in 1 .. PagesFor(total, limit)
<1> DEFINE last == PagesFor(total, limit)
<1>1. last \in Nat \ {0}
  BY PagesForKnows
<1> HIDE DEF last
<1>2. ASSUME m \in Preceding(total, limit, n) PROVE m \in 1 .. last
  <2>1. n > 1 /\ m = IF n - 1 > last THEN last ELSE n - 1
    BY <1>2 DEF Preceding, last
  <2> QED
    BY <1>1, <2>1
<1>3. ASSUME m \in Following(total, limit, n) PROVE m \in 1 .. last
  <2>1. n < last /\ m = n + 1
    BY <1>3 DEF Following, last
  <2> QED
    BY <1>1, <2>1
<1> QED
  BY <1>2, <1>3 DEF last

LEMMA SearchLinksLead ==
  ASSUME NEW s, Served(s), NEW c \in Configs, NEW req,
         req.to = "search", req.page \in Int, Found(s, c, req),
         NEW link \in SearchLinks(s, c, req)
  PROVE  Allowed(s, c, req, link)
<1> DEFINE found == Matches(s.search, req.arg)
           total == Len(found)
           n == SearchPage(req.page)
<1>0. s.posts \in Seq(EntrySet) /\ c.maxResults \in Nat \ {0}
  BY ConfigAssumption DEF Served
<1>1. SearchStatus(s.search, c, req.arg) = "ok"
  BY FoundIf
<1>2. s.search # NoSearch
  BY <1>1 DEF SearchStatus
<1>3. found \in Seq(PostsOf(s)) /\ total <= MaxSearchPage
  BY <1>2, ServedMatches
<1>4. MaxSearchPage \in Nat
  BY SMT DEF MaxSearchPage
<1>5. Results(s.search, c, req.arg, req.page) \in Seq(PostsOf(s)) /\ n \in Nat \ {0}
  BY <1>0, <1>3, ResultsKnow
<1>6. total \in Nat
  BY <1>3
<1>7. \/ link \in EntryLinks(Results(s.search, c, req.arg, req.page))
      \/ link \in SearchPaging(c, req, total)
  BY DEF SearchLinks
<1>8. CASE link \in EntryLinks(Results(s.search, c, req.arg, req.page))
  BY <1>0, <1>5, <1>8, EntryLinksLead
<1>9. CASE link \in SearchPaging(c, req, total)
  <2> HIDE DEF found, total, n
  <2>1. total # 0 /\ \E m \in Preceding(total, c.maxResults, n) \cup Following(total, c.maxResults, n) :
                       link = Request("search", req.arg, m)
    BY <1>9 DEF SearchPaging, n
  <2>2. PICK m \in Preceding(total, c.maxResults, n) \cup Following(total, c.maxResults, n) :
               link = Request("search", req.arg, m)
    BY <2>1
  <2>3. total > 0
    BY <1>6, <2>1
  <2>4. m \in 1 .. PagesFor(total, c.maxResults)
    BY <1>0, <1>5, <1>6, <2>2, <2>3, PagingIsWithin
  <2>5. link.to = "search" /\ link.arg = req.arg /\ link.page = m
    BY <2>2 DEF Request
  <2>6. PagesFor(total, c.maxResults) \in Nat /\ PagesFor(total, c.maxResults) <= total
    BY <1>0, <1>6, <2>3, PagesForKnows
  <2>7. m \in 1 .. MaxSearchPage /\ m \in Int
    BY <1>3, <1>4, <1>6, <2>4, <2>6
  <2>8. Results(s.search, c, req.arg, m) = PageOf(found, c.maxResults, m)
    BY <1>0, <1>3, <2>7, ResultsKnow DEF found
  <2>9. found # << >> => PageOf(found, c.maxResults, m) # << >>
    BY <1>0, <1>3, <2>4, PageOfList DEF total
  <2>10. Found(s, c, link)
    BY <1>1, <2>5, FoundIf
  <2> QED
    BY <2>5, <2>8, <2>9, <2>10 DEF Allowed, Leads, found
<1> QED
  BY <1>7, <1>8, <1>9

LEMMA SitemapLinksLead ==
  ASSUME NEW s, s.posts \in Seq(EntrySet), NEW c, NEW req, req.to = "sitemap",
         NEW link \in SitemapLinks(s)
  PROVE  Allowed(s, c, req, link)
<1>1. \/ \E i \in DOMAIN s.posts : link = Request("post", Mapped[s.posts[i].slug], 1)
      \/ \E i \in DOMAIN s.pages : link = Request("root", s.pages[i].slug, 1)
  BY DEF SitemapLinks
<1>2. CASE \E i \in DOMAIN s.posts : link = Request("post", Mapped[s.posts[i].slug], 1)
  <2>1. PICK i \in DOMAIN s.posts : link = Request("post", Mapped[s.posts[i].slug], 1)
    BY <1>2
  <2>2. link = Request("post", Arriving(req)[s.posts[i].slug], 1)
    BY <2>1 DEF Arriving
  <2>3. s.posts[i].slug \in Slugs(s.posts)
    BY DEF Slugs
  <2> QED
    BY <2>2, <2>3, PostLinkLeads
<1>3. CASE \E i \in DOMAIN s.pages : link = Request("root", s.pages[i].slug, 1)
  BY <1>3, CrookedKnows DEF Allowed
<1> QED
  BY <1>1, <1>2, <1>3

LEMMA LinksLead ==
  ASSUME NEW s, Served(s), NEW c \in Configs, NEW req,
         req.to \in {"home", "list", "posts", "tag", "post", "search", "sitemap"},
         req.page \in Int, Found(s, c, req), NEW link \in Links(s, c, req)
  PROVE  Allowed(s, c, req, link)
<1>0. s.posts \in Seq(EntrySet)
  BY DEF Served
<1>1. CASE req.to \in {"home", "list", "posts", "tag"}
  BY <1>1, LinksOf, ListLinksLead
<1>2. CASE req.to = "search"
  BY <1>2, LinksOf, SearchLinksLead
<1>3. CASE req.to = "sitemap"
  BY <1>0, <1>3, LinksOf, SitemapLinksLead
<1>4. CASE req.to = "post"
  <2>1. Links(s, c, req) = UNION {TagLinks(s.posts[i]) :
                                    i \in {k \in DOMAIN s.posts : s.posts[k].slug = req.arg}}
    BY <1>4, LinksOf
  <2>2. \E i \in DOMAIN s.posts : link \in TagLinks(s.posts[i])
    BY <2>1
  <2> QED
    BY <1>0, <2>2, TagLinkLeads
<1> QED
  BY <1>1, <1>2, <1>3, <1>4

\* The address of page n of a list.
LEMMA ListPageIs ==
  ASSUME NEW to \in {"home", "posts"}, NEW n \in Int
  PROVE  /\ ListPage(to, n).page = n /\ ListPage(to, n).to \in {"home", "list", "posts"}
         /\ to = "home" => ListPage(to, n).to \in {"home", "list"}
BY DEF ListPage, PageURL, Request

LEMMA VisitableKnows ==
  ASSUME NEW s, s.posts \in Seq(EntrySet), NEW c \in Configs, NEW req \in Visitable(s, c)
  PROVE  /\ req.to \in {"home", "list", "posts", "tag", "post", "search"}
         /\ req.page \in Int
<1> DEFINE Numbers(found) == 1 .. PagesFor(Len(found), c.postsPerPage)
           home == {ListPage("home", n) : n \in Numbers(s.posts)}
           list == {ListPage("posts", n) : n \in Numbers(s.posts)}
           tags == UNION {{Request("tag", t, n) : n \in Numbers(ByTag(s, t))} : t \in PlainTags(s)}
           links == {Request("post", slug, 1) : slug \in Slugs(s.posts)}
<1>1. \/ req \in home \/ req \in list \/ req \in tags \/ req \in SearchRequests \/ req \in links
  BY DEF Visitable
<1>2. CASE req \in home \/ req \in list
  <2>1. PICK to \in {"home", "posts"} : req \in {ListPage(to, n) : n \in Numbers(s.posts)}
    BY <1>2
  <2>2. PICK n \in Numbers(s.posts) : req = ListPage(to, n)
    BY <2>1
  <2>3. n \in Int
    OBVIOUS
  <2> QED
    BY <2>2, <2>3, ListPageIs
<1>3. CASE req \in tags
  <2>1. PICK t \in PlainTags(s) : req \in {Request("tag", t, n) : n \in Numbers(ByTag(s, t))}
    BY <1>3
  <2>2. PICK n \in Numbers(ByTag(s, t)) : req = Request("tag", t, n)
    BY <2>1
  <2>3. n \in Int
    OBVIOUS
  <2> QED
    BY <2>2, <2>3 DEF Request
<1>4. CASE req \in SearchRequests
  <2>1. PICK q \in Queries, n \in 0 .. 4 \cup {MaxSearchPage + 1} : req = Request("search", q, n)
    BY <1>4 DEF SearchRequests
  <2>2. MaxSearchPage + 1 \in Int
    BY SMT DEF MaxSearchPage
  <2>3. n \in Int
    BY <2>2
  <2> QED
    BY <2>1, <2>3 DEF Request
<1>5. CASE req \in links
  BY <1>5 DEF Request
<1> HIDE DEF home, list, tags, links
<1> QED
  BY <1>1, <1>2, <1>3, <1>4, <1>5

LEMMA NoLinkIsDead ==
  ASSUME NEW s, Served(s), NEW c \in Configs
  PROVE  /\ NoDeadLinks(s, c, Visitable(s, c), Linked)
         /\ NoDeadLinks(s, c, {Sitemap}, Mapped)
<1>1. s.posts \in Seq(EntrySet)
  BY DEF Served
<1>2. ASSUME NEW req \in Visitable(s, c), Found(s, c, req), NEW link \in Links(s, c, req)
      PROVE  link \in Crooked(s, Linked) \/ Leads(s, c, link)
  <2>1. /\ req.to \in {"home", "list", "posts", "tag", "post", "search"}
        /\ req.page \in Int
    BY <1>1, VisitableKnows
  <2>2. Allowed(s, c, req, link)
    BY <1>2, <2>1, LinksLead
  <2> QED
    BY <2>1, <2>2 DEF Allowed, Arriving
<1>3. ASSUME Found(s, c, Sitemap), NEW link \in Links(s, c, Sitemap)
      PROVE  link \in Crooked(s, Mapped) \/ Leads(s, c, link)
  <2>1. Sitemap.to = "sitemap" /\ Sitemap.page = 1
    BY DEF Sitemap, Request
  <2>2. Allowed(s, c, Sitemap, link)
    BY <1>3, <2>1, LinksLead
  <2> QED
    BY <2>1, <2>2 DEF Allowed, Arriving
<1>4. NoDeadLinks(s, c, Visitable(s, c), Linked)
  BY <1>2 DEF NoDeadLinks
<1>5. NoDeadLinks(s, c, {Sitemap}, Mapped)
  BY <1>3 DEF NoDeadLinks
<1> QED
  BY <1>4, <1>5

\* Page n of the list of all posts.
LEMMA ListPageKnows ==
  ASSUME NEW s, s.posts \in Seq(EntrySet), NEW c \in Configs,
         NEW n \in 1 .. PagesFor(Len(s.posts), c.postsPerPage)
  PROVE  LET req == ListPage("home", n)
             pag == Listing(s, c, req)
         IN  /\ req.to \in {"home", "list"} /\ Links(s, c, req) = ListLinks(s, c, req)
             /\ pag.current = n /\ pag.last = PagesFor(Len(s.posts), c.postsPerPage)
             /\ pag.posts = PageOf(s.posts, c.postsPerPage, n)
<1> DEFINE req == ListPage("home", n)
<1>1. Len(s.posts) \in Nat /\ c.postsPerPage \in Nat \ {0}
  BY ConfigAssumption
<1>2. PagesFor(Len(s.posts), c.postsPerPage) \in Nat
  BY <1>1, PagesForKnows
<1>3. n \in Int
  BY <1>2
<1>4. req.to \in {"home", "list"} /\ req.page = n
  BY <1>3, ListPageIs
<1> HIDE DEF req
<1>5. Links(s, c, req) = ListLinks(s, c, req)
  BY <1>4, LinksOf
<1>6. Listing(s, c, req) = Paginate(s.posts, n, c.postsPerPage)
  BY <1>4 DEF Listing, Listed
<1>7. LET pag == Paginate(s.posts, n, c.postsPerPage)
      IN  /\ pag.current = n /\ pag.last = PagesFor(Len(s.posts), c.postsPerPage)
          /\ pag.posts = PageOf(s.posts, c.postsPerPage, n)
  BY <1>1, <1>3, PaginateKnows
<1> QED
  BY <1>4, <1>5, <1>6, <1>7 DEF req

LEMMA PostsAreReached ==
  ASSUME NEW s, Served(s), NEW c \in Configs
  PROVE  EveryPostIsReached(s, c)
<1> DEFINE last == PagesFor(Len(s.posts), c.postsPerPage)
<1>1. s.posts \in Seq(EntrySet)
  BY DEF Served
<1>2. /\ Len(s.posts) \in Nat
      /\ c.postsPerPage \in Nat \ {0} /\ c.maxResults \in Nat \ {0}
  BY <1>1, ConfigAssumption
<1>3. last \in Nat \ {0}
  BY <1>2, PagesForKnows
<1>4. ASSUME NEW n \in 1 .. last
      PROVE  /\ EntryLinks(PageOf(s.posts, c.postsPerPage, n)) \subseteq Links(s, c, ListPage("home", n))
             /\ n < last => ListPage("home", n + 1) \in Links(s, c, ListPage("home", n))
  <2> DEFINE req == ListPage("home", n)
             pag == Listing(s, c, req)
  <2>1. /\ req.to \in {"home", "list"} /\ Links(s, c, req) = ListLinks(s, c, req)
        /\ pag.current = n /\ pag.last = last
        /\ pag.posts = PageOf(s.posts, c.postsPerPage, n)
    BY <1>1, ListPageKnows
  <2>2. Links(s, c, req) = EntryLinks(pag.posts) \cup PagingLinks(req, pag)
    BY <2>1 DEF ListLinks
  <2>3. PageURL(req, n + 1) = ListPage("home", n + 1)
    <3>1. req.to \in {"home", "list"} /\ Request("home", "", 1).to \in {"home", "list"}
      BY <2>1 DEF Request
    <3> HIDE DEF req
    <3> QED
      BY <3>1 DEF ListPage, PageURL
  <2> HIDE DEF req, pag, last
  <2>4. n < last => PageURL(req, n + 1) \in PagingLinks(req, pag)
    BY <2>1 DEF PagingLinks, NextOf
  <2>5. EntryLinks(pag.posts) \subseteq Links(s, c, req)
    BY <2>2
  <2>6. n < last => PageURL(req, n + 1) \in Links(s, c, req)
    BY <2>2, <2>4
  <2>7. n < last => ListPage("home", n + 1) \in Links(s, c, req)
    BY <2>3, <2>6
  <2> QED
    BY <2>1, <2>5, <2>7 DEF req
<1>5. \A n \in 1 .. last - 1 : ListPage("home", n + 1) \in Links(s, c, ListPage("home", n))
  <2> HIDE DEF last
  <2>1. \A n \in 1 .. last - 1 : n \in 1 .. last /\ n < last
    BY <1>3
  <2> QED
    BY <1>4, <2>1
<1>6. ASSUME NEW i \in DOMAIN s.posts
      PROVE  \E n \in 1 .. last : PostLink(s.posts[i]) \in Links(s, c, ListPage("home", n))
  <2>1. i \in 1 .. Len(s.posts)
    BY <1>1, <1>6
  <2>2. PICK n \in 1 .. last : \E k \in 1 .. Len(PageOf(s.posts, c.postsPerPage, n)) :
                                 PageOf(s.posts, c.postsPerPage, n)[k] = s.posts[i]
    BY <1>1, <1>2, <2>1, PageExists
  <2> DEFINE page == PageOf(s.posts, c.postsPerPage, n)
  <2>3. page \in Seq(EntrySet)
    BY <1>1, <1>2, PageOfList
  <2> HIDE DEF page
  <2>4. PICK k \in 1 .. Len(page) : page[k] = s.posts[i]
    BY <2>2 DEF page
  <2>5. k \in DOMAIN page
    BY <2>3
  <2>6. PostLink(page[k]) \in EntryLinks(page)
    BY <2>5 DEF EntryLinks
  <2> QED
    BY <1>4, <2>4, <2>6 DEF page
<1>7. ASSUME NEW slug \in PlainSlugs(s, Linked)
      PROVE  \E n \in 1 .. last : Request("post", slug, 1) \in Links(s, c, ListPage("home", n))
  <2>1. PICK i \in DOMAIN s.posts : s.posts[i].slug = slug
    <3>1. slug \in Slugs(s.posts)
      BY DEF PlainSlugs
    <3>2. DOMAIN s.posts = 1 .. Len(s.posts)
      BY <1>1
    <3> QED
      BY <3>1, <3>2 DEF Slugs
  <2>2. PostLink(s.posts[i]) = Request("post", slug, 1)
    BY <2>1 DEF PostLink, PlainSlugs
  <2> QED
    BY <1>6, <2>2
<1>8. ASSUME s.search # NoSearch, NEW q
      PROVE  FlattenSeq([n \in 1 .. PagesFor(Len(Matches(s.search, q)), c.maxResults) |->
                           Results(s.search, c, q, n)]) = Matches(s.search, q)
  <2> DEFINE found == Matches(s.search, q)
  <2>1. found \in Seq(PostsOf(s)) /\ Len(found) <= MaxSearchPage
    BY <1>8, ServedMatches
  <2>2. MaxSearchPage \in Nat \ {0} /\ 1 <= MaxSearchPage
    BY SMT DEF MaxSearchPage
  <2>3. Len(found) \in Nat
    BY <2>1
  <2> DEFINE total == Len(found)
             many == PagesFor(total, c.maxResults)
  <2> HIDE DEF found
  <2>4. total \in Nat /\ total <= MaxSearchPage
    BY <2>1, <2>3
  <2> HIDE DEF total
  <2>5. many \in Nat /\ many <= MaxSearchPage
    <3>1. many \in Nat /\ (total > 0 => many <= total) /\ (total = 0 => many = 1)
      BY <1>2, <2>4, PagesForKnows
    <3> HIDE DEF many
    <3> QED
      BY <2>2, <2>4, <3>1
  <2> HIDE DEF many
  <2>6. ASSUME NEW n \in 1 .. many
        PROVE  Results(s.search, c, q, n) = PageOf(found, c.maxResults, n)
    <3>1. n \in Int /\ n \in 1 .. MaxSearchPage
      BY <2>2, <2>5
    <3> QED
      BY <1>2, <2>1, <3>1, ResultsKnow DEF found
  <2>7. [n \in 1 .. many |-> Results(s.search, c, q, n)] = PagesOf(found, c.maxResults)
    BY <2>6 DEF PagesOf, many, total
  <2>8. FlattenSeq(PagesOf(found, c.maxResults)) = found
    BY <1>2, <2>1, PagesJoined
  <2> QED
    BY <2>7, <2>8 DEF many, total, found
<1> HIDE DEF last
<1> QED
  BY <1>5, <1>7, <1>8 DEF EveryPostIsReached, last

(***************************************************************************)
(* A page of the site links to no page that is not there but for the three *)
(* kinds of link that Crooked names, and who follows the links to older    *)
(* posts comes by every post that can be linked to: whatever the posts     *)
(* are, whatever was cut from the index, and also while the page is made   *)
(* of a configuration newer than the snapshot it shows (handlers.go).      *)
(***************************************************************************)
THEOREM LinksLeadSomewhere == Spec => []LinksResolve
<1>1. Init => ScanInv /\ ServedInv
  BY ScanInitially, ServedInitially DEF Init
<1>2. ScanInv /\ ServedInv /\ [Next]_vars => (ScanInv /\ ServedInv)'
  BY ScanInvStep, ServedStep
<1>3. ScanInv /\ ServedInv => LinksResolve
  BY NoLinkIsDead, PostsAreReached DEF ScanInv, TypeInv, ServedInv, LinksResolve
<1> QED
  BY <1>1, <1>2, <1>3, PTL DEF Spec
=============================================================================
