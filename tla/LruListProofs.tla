---------------------------- MODULE LruListProofs ----------------------------
(* What the operations on LruList's lists return, for lists of anything.     *)
EXTENDS LruList, SequenceTheorems, TLAPS

\* What Remove (list.Remove of one element) leaves of a list without
\* duplicates: the others, each once, one place shorter.
LEMMA RemoveLeavesTheOthers ==
  ASSUME NEW S, NEW q \in Seq(S), NEW n, Occurs(n, q), NoDuplicates(q)
  PROVE  /\ Remove(q, n) \in Seq(S)
         /\ Len(Remove(q, n)) = Len(q) - 1
         /\ NoDuplicates(Remove(q, n))
         /\ \A m : Occurs(m, Remove(q, n)) <=> Occurs(m, q) /\ m # n
<1> DEFINE k == CHOOSE i \in 1 .. Len(q) : q[i] = n
           a == SubSeq(q, 1, k - 1)
           b == SubSeq(q, k + 1, Len(q))
           r == a \o b
<1>1. k \in 1 .. Len(q) /\ q[k] = n
  BY DEF Occurs
<1>2. Remove(q, n) = r
  BY DEF Remove
<1>a. Len(q) \in Nat /\ \A i \in 1 .. Len(q) : q[i] \in S
  OBVIOUS
<1> HIDE DEF k
<1>b. a \in Seq(S) /\ Len(a) = k - 1 /\ \A i \in 1 .. k - 1 : a[i] = q[i]
  <2>1. k - 1 \in Int /\ \A i \in 1 .. k - 1 : q[i] \in S
    BY <1>1, <1>a
  <2>2. /\ a \in Seq(S)
        /\ Len(a) = IF 1 <= k - 1 THEN k - 1 - 1 + 1 ELSE 0
        /\ \A i \in 1 .. k - 1 - 1 + 1 : a[i] = q[1 + i - 1]
    BY <2>1, SubSeqProperties, SMT
  <2> HIDE DEF a
  <2> QED
    BY <1>1, <1>a, <2>2
<1>c. b \in Seq(S) /\ Len(b) = Len(q) - k /\ \A i \in 1 .. Len(q) - k : b[i] = q[k + i]
  <2>1. k + 1 \in Int /\ Len(q) \in Int /\ \A i \in k + 1 .. Len(q) : q[i] \in S
    BY <1>1, <1>a
  <2>2. /\ b \in Seq(S)
        /\ Len(b) = IF k + 1 <= Len(q) THEN Len(q) - (k + 1) + 1 ELSE 0
        /\ \A i \in 1 .. Len(q) - (k + 1) + 1 : b[i] = q[(k + 1) + i - 1]
    BY <2>1, SubSeqProperties, SMT
  <2> HIDE DEF b
  <2> QED
    BY <1>1, <1>a, <2>2
<1> HIDE DEF a, b
<1>3. r \in Seq(S) /\ Len(r) = Len(q) - 1
  <2>1. r \in Seq(S) /\ Len(r) = Len(a) + Len(b)
    BY <1>b, <1>c, ConcatProperties, SMT
  <2> QED
    BY <1>1, <1>a, <1>b, <1>c, <2>1
<1>4. \A i \in 1 .. Len(q) - 1 : r[i] = IF i < k THEN q[i] ELSE q[i + 1]
  <2>1. \A i \in 1 .. Len(a) + Len(b) : r[i] = IF i <= Len(a) THEN a[i] ELSE b[i - Len(a)]
    BY <1>b, <1>c, ConcatProperties
  <2> HIDE DEF r
  <2>2. SUFFICES ASSUME NEW i \in 1 .. Len(q) - 1
                 PROVE  r[i] = IF i < k THEN q[i] ELSE q[i + 1]
    OBVIOUS
  <2>a. Len(a) + Len(b) = Len(q) - 1 /\ Len(a) = k - 1
    BY <1>1, <1>a, <1>b, <1>c
  <2>b. r[i] = IF i <= k - 1 THEN a[i] ELSE b[i - (k - 1)]
    BY <2>1, <2>a
  <2>3. CASE i < k
    <3>1. i <= k - 1 /\ i \in 1 .. k - 1
      BY <1>1, <1>a, <2>3
    <3> QED
      BY <1>b, <2>b, <2>3, <3>1
  <2>4. CASE ~(i < k)
    <3>1. i - (k - 1) \in 1 .. Len(q) - k /\ k + (i - (k - 1)) = i + 1
      BY <1>1, <1>a, <2>4
    <3>2. r[i] = b[i - (k - 1)]
      <4>1. ~(i <= k - 1)
        BY <1>1, <1>a, <2>4
      <4> QED
        BY <2>b, <4>1
    <3>3. b[i - (k - 1)] = q[k + (i - (k - 1))]
      BY <1>c, <3>1
    <3> QED
      BY <2>4, <3>1, <3>2, <3>3
  <2> QED
    BY <2>3, <2>4
<1> HIDE DEF r
<1>5. NoDuplicates(r)
  <2> SUFFICES ASSUME NEW i \in 1 .. Len(q) - 1, NEW j \in 1 .. Len(q) - 1, r[i] = r[j]
               PROVE  i = j
    BY <1>3 DEF NoDuplicates
  <2>1. /\ i \in 1 .. Len(q) /\ i + 1 \in 1 .. Len(q)
        /\ j \in 1 .. Len(q) /\ j + 1 \in 1 .. Len(q)
    BY <1>a
  <2>2. (IF i < k THEN i ELSE i + 1) = (IF j < k THEN j ELSE j + 1)
    BY <1>4, <2>1 DEF NoDuplicates
  <2> QED
    BY <1>1, <2>2
<1>6. ASSUME NEW m, Occurs(m, r)
      PROVE  Occurs(m, q) /\ m # n
  BY <1>1, <1>3, <1>4, <1>6 DEF Occurs, NoDuplicates
<1>7. ASSUME NEW m, Occurs(m, q), m # n
      PROVE  Occurs(m, r)
  <2>1. PICK l \in 1 .. Len(q) : q[l] = m
    BY <1>7 DEF Occurs
  <2>2. CASE l < k
    BY <1>1, <1>3, <1>4, <2>1, <2>2 DEF Occurs
  <2>3. CASE l > k
    <3>1. l - 1 \in 1 .. Len(q) - 1 /\ ~(l - 1 < k) /\ (l - 1) + 1 = l
      BY <1>1, <2>1, <2>3
    <3>2. r[l - 1] = m
      BY <1>4, <2>1, <3>1
    <3> QED
      BY <1>3, <3>1, <3>2 DEF Occurs
  <2> QED
    BY <1>1, <1>7, <2>1, <2>2, <2>3
<1> QED
  BY <1>2, <1>3, <1>5, <1>6, <1>7

\* What PushFront makes of a list the element is not on.
LEMMA PushFrontAdds ==
  ASSUME NEW S, NEW q \in Seq(S), NEW n \in S, ~Occurs(n, q), NoDuplicates(q)
  PROVE  /\ <<n>> \o q \in Seq(S)
         /\ Len(<<n>> \o q) = Len(q) + 1
         /\ NoDuplicates(<<n>> \o q)
         /\ \A m : Occurs(m, <<n>> \o q) <=> Occurs(m, q) \/ m = n
<1> DEFINE r == <<n>> \o q
<1>1. r \in Seq(S) /\ Len(r) = Len(q) + 1
  OBVIOUS
<1>2. r[1] = n /\ \A i \in 1 .. Len(q) : r[i + 1] = q[i]
  OBVIOUS
<1>3. \A i \in 2 .. Len(r) : i - 1 \in 1 .. Len(q) /\ r[i] = q[i - 1]
  BY <1>1, <1>2
<1> HIDE DEF r
<1>4. NoDuplicates(r)
  <2>1. \A i \in 2 .. Len(r) : r[i] # n
    BY <1>1, <1>3 DEF Occurs
  <2>2. \A i, j \in 2 .. Len(r) : r[i] = r[j] => i - 1 = j - 1
    BY <1>1, <1>3 DEF NoDuplicates
  <2>3. \A i \in 1 .. Len(r) : i = 1 \/ i \in 2 .. Len(r)
    BY <1>1
  <2> QED
    BY <1>1, <1>2, <2>1, <2>2, <2>3 DEF NoDuplicates
<1>5. ASSUME NEW m, Occurs(m, r)
      PROVE  Occurs(m, q) \/ m = n
  <2>1. PICK l \in 1 .. Len(r) : r[l] = m
    BY <1>5 DEF Occurs
  <2>2. l = 1 \/ l \in 2 .. Len(r)
    BY <1>1, <2>1
  <2> QED
    BY <1>2, <1>3, <2>1, <2>2 DEF Occurs
<1>6. ASSUME NEW m, Occurs(m, q)
      PROVE  Occurs(m, r)
  <2>1. PICK l \in 1 .. Len(q) : q[l] = m
    BY <1>6 DEF Occurs
  <2>2. l + 1 \in 1 .. Len(r) /\ r[l + 1] = m
    BY <1>1, <1>2, <2>1
  <2> QED
    BY <2>2 DEF Occurs
<1>7. Occurs(n, r)
  BY <1>1, <1>2 DEF Occurs
<1> QED
  BY <1>1, <1>4, <1>5, <1>6, <1>7 DEF r

\* Moving a listed element to the front keeps what is on the list.
LEMMA MoveToFrontKeeps ==
  ASSUME NEW S, NEW q \in Seq(S), NEW n \in S, Occurs(n, q), NoDuplicates(q)
  PROVE  /\ MoveToFront(q, n) \in Seq(S)
         /\ Len(MoveToFront(q, n)) = Len(q)
         /\ NoDuplicates(MoveToFront(q, n))
         /\ \A m : Occurs(m, MoveToFront(q, n)) <=> Occurs(m, q)
<1> DEFINE r == Remove(q, n)
<1>1. /\ r \in Seq(S) /\ Len(r) = Len(q) - 1 /\ NoDuplicates(r)
      /\ \A m : Occurs(m, r) <=> Occurs(m, q) /\ m # n
  BY RemoveLeavesTheOthers
<1> HIDE DEF r
<1>2. /\ <<n>> \o r \in Seq(S) /\ Len(<<n>> \o r) = Len(r) + 1
      /\ NoDuplicates(<<n>> \o r)
      /\ \A m : Occurs(m, <<n>> \o r) <=> Occurs(m, r) \/ m = n
  BY <1>1, PushFrontAdds
<1>3. Len(q) \in Nat
  OBVIOUS
<1> QED
  BY <1>1, <1>2, <1>3 DEF MoveToFront, r

\* Evicting takes the element at the back off the list and nothing else.
LEMMA DropBackRemovesLast ==
  ASSUME NEW S, NEW q \in Seq(S), Len(q) >= 1, NoDuplicates(q)
  PROVE  LET r == SubSeq(q, 1, Len(q) - 1)
         IN  /\ r \in Seq(S)
             /\ Len(r) = Len(q) - 1
             /\ NoDuplicates(r)
             /\ \A m : Occurs(m, r) <=> Occurs(m, q) /\ m # q[Len(q)]
<1> DEFINE r == SubSeq(q, 1, Len(q) - 1)
<1>1. /\ Len(q) \in Nat /\ Len(q) - 1 \in Nat
      /\ \A i \in 1 .. Len(q) - 1 : q[i] \in S
  OBVIOUS
<1>2. /\ r \in Seq(S)
      /\ Len(r) = IF 1 <= Len(q) - 1 THEN Len(q) - 1 - 1 + 1 ELSE 0
      /\ \A i \in 1 .. Len(q) - 1 - 1 + 1 : r[i] = q[1 + i - 1]
  BY <1>1, SubSeqProperties, SMT
<1> HIDE DEF r
<1>3. Len(r) = Len(q) - 1 /\ \A i \in 1 .. Len(q) - 1 : r[i] = q[i]
  <2>1. Len(r) = Len(q) - 1
    <3>1. PICK k \in Nat : k = Len(q) /\ k >= 1
      BY <1>1
    <3>2. 1 <= k - 1 => k - 1 - 1 + 1 = k - 1
      BY <3>1
    <3>3. ~(1 <= k - 1) => 0 = k - 1
      BY <3>1
    <3> QED
      BY <1>2, <3>1, <3>2, <3>3
  <2>2. ASSUME NEW i \in 1 .. Len(q) - 1
        PROVE  r[i] = q[i]
    <3>1. i \in 1 .. Len(q) - 1 - 1 + 1 /\ 1 + i - 1 = i
      BY <1>1
    <3> QED
      BY <1>2, <3>1
  <2> QED
    BY <2>1, <2>2
<1>4. NoDuplicates(r)
  BY <1>1, <1>3 DEF NoDuplicates
<1>5. \A m : Occurs(m, r) <=> Occurs(m, q) /\ m # q[Len(q)]
  BY <1>1, <1>3 DEF NoDuplicates, Occurs
<1> QED
  BY <1>2, <1>3, <1>4, <1>5 DEF r
=============================================================================
