--------------------------- MODULE WebhookProofs ----------------------------
(***************************************************************************)
(* Proofs about module Webhook and the start it serves from (Startup,      *)
(* Settings, RateLimiter).                                                 *)
(*                                                                         *)
(* The argument for the budgets: what the verified limiter keeps of a      *)
(* client that is still live is the history of its grants, whatever else   *)
(* it evicted or kept, so that its answer depends on that history alone.   *)
(***************************************************************************)
EXTENDS Webhook, LruListProofs, WellFoundedInduction, TLAPS

(***************************************************************************)
(* Natural numbers and sequences of instants.                              *)
(***************************************************************************)
\* A set of natural numbers has a least element.
LEMMA LeastNat ==
  ASSUME NEW T, T \subseteq Nat, T # {}
  PROVE  \E x \in T : \A y \in T : x <= y
<1>1. PICK x \in T : \A y \in T : <<y, x>> \notin OpToRel(<, Nat)
  BY WFMin, NatLessThanWellFounded
<1>2. \A y \in T : ~(y < x)
  BY <1>1 DEF OpToRel
<1> QED
  BY <1>2

\* Instants in the order of time, none of them in the future.
Ordered(s, t) ==
  /\ s \in Seq(Nat)
  /\ \A i, j \in 1 .. Len(s) : i <= j => s[i] <= s[j]
  /\ \A i \in 1 .. Len(s) : s[i] <= t

\* The first k instants of s are over and the others live.
CutAt(s, t, k) ==
  /\ k \in 0 .. Len(s)
  /\ \A j \in 1 .. k : ~Live(s[j], t)
  /\ \A j \in k + 1 .. Len(s) : Live(s[j], t)

\* LiveOnly drops the instants in front of the cut.
LEMMA LiveOnlyIs ==
  ASSUME NEW s \in Seq(Nat), NEW t \in Nat, NEW k, CutAt(s, t, k)
  PROVE  LiveOnly(s, t) = SubSeq(s, k + 1, Len(s))
<1> DEFINE P(i) == /\ \A j \in 1 .. i : ~Live(s[j], t)
                   /\ i < Len(s) => Live(s[i + 1], t)
           c == CHOOSE i \in 0 .. Len(s) : P(i)
<1>1. Len(s) \in Nat /\ k \in 0 .. Len(s)
  BY DEF CutAt
<1>2. P(k)
  BY <1>1 DEF CutAt
<1>3. c \in 0 .. Len(s) /\ P(c)
  BY <1>1, <1>2
<1> HIDE DEF c
<1>4. c = k
  <2>1. CASE c < k
    <3>1. c + 1 \in 1 .. k /\ c < Len(s)
      BY <1>1, <1>3, <2>1
    <3> QED
      BY <1>3, <3>1 DEF CutAt
  <2>2. CASE k < c
    <3>1. k + 1 \in 1 .. c /\ k + 1 \in k + 1 .. Len(s)
      BY <1>1, <1>3, <2>2
    <3> QED
      BY <1>3, <3>1 DEF CutAt
  <2> QED
    BY <1>1, <1>3, <2>1, <2>2
<1> QED
  BY <1>4 DEF LiveOnly, c

\* Ordered instants have a cut.
LEMMA CutExists ==
  ASSUME NEW s, NEW t \in Nat, NEW u \in Nat, Ordered(s, u)
  PROVE  \E k : CutAt(s, t, k)
<1> DEFINE L == {j \in 1 .. Len(s) : Live(s[j], t)}
<1>1. s \in Seq(Nat) /\ Len(s) \in Nat /\ \A j \in 1 .. Len(s) : s[j] \in Nat
  BY DEF Ordered
<1>2. CASE L = {}
  <2>1. Len(s) \in 0 .. Len(s) /\ Len(s) + 1 .. Len(s) = {}
    BY <1>1
  <2>2. \A j \in 1 .. Len(s) : ~Live(s[j], t)
    BY <1>2
  <2>3. CutAt(s, t, Len(s))
    BY <2>1, <2>2, Zenon DEF CutAt
  <2> QED
    BY <2>3
<1>3. CASE L # {}
  <2> L \subseteq Nat
    BY <1>1
  <2>1. PICK x \in L : \A y \in L : x <= y
    <3> HIDE DEF L
    <3> QED
      BY <1>3, LeastNat
  <2>2. \A j \in 1 .. x - 1 : ~Live(s[j], t)
    BY <1>1, <2>1
  <2>3. ASSUME NEW j \in x .. Len(s)
        PROVE  Live(s[j], t)
    <3>1. s[x] <= s[j] /\ s[x] \in Nat /\ s[j] \in Nat
      BY <1>1, <2>1 DEF Ordered
    <3> QED
      BY LimiterAssumption, <2>1, <3>1 DEF Live
  <2>4. CutAt(s, t, x - 1)
    BY <1>1, <2>1, <2>2, <2>3 DEF CutAt
  <2> QED
    BY <2>4
<1> QED
  BY <1>2, <1>3

\* The end of a sequence, element by element.
LEMMA SuffixIs ==
  ASSUME NEW s \in Seq(Nat), NEW k \in 0 .. Len(s)
  PROVE  LET r == SubSeq(s, k + 1, Len(s))
         IN  /\ r \in Seq(Nat) /\ Len(r) = Len(s) - k
             /\ \A i \in 1 .. Len(r) : r[i] = s[k + i]
<1> DEFINE r == SubSeq(s, k + 1, Len(s))
           n == Len(s)
<1>1. n \in Nat /\ k + 1 \in Int /\ \A i \in k + 1 .. n : s[i] \in Nat
  OBVIOUS
<1>2. /\ r \in Seq(Nat)
      /\ Len(r) = IF k + 1 <= n THEN n - (k + 1) + 1 ELSE 0
      /\ \A i \in 1 .. n - (k + 1) + 1 : r[i] = s[k + 1 + i - 1]
  BY <1>1, SubSeqProperties
<1> HIDE DEF r
<1>3. k \in 0 .. n
  OBVIOUS
<1> HIDE DEF n
<1>4. Len(r) = n - k
  BY <1>1, <1>2, <1>3
<1>5. \A i \in 1 .. n - k : i \in 1 .. n - (k + 1) + 1 /\ k + 1 + i - 1 = k + i
  BY <1>1, <1>3
<1> QED
  BY <1>2, <1>4, <1>5 DEF r, n

\* What LiveOnly keeps is ordered, no longer than before, and live.
LEMMA LiveOnlyKeeps ==
  ASSUME NEW t \in Nat, NEW s, Ordered(s, t)
  PROVE  LET r == LiveOnly(s, t)
         IN  Ordered(r, t) /\ Len(r) <= Len(s) /\ \A i \in 1 .. Len(r) : Live(r[i], t)
<1>1. PICK k : CutAt(s, t, k)
  BY CutExists
<1> DEFINE r == SubSeq(s, k + 1, Len(s))
<1>2. s \in Seq(Nat) /\ Len(s) \in Nat /\ k \in 0 .. Len(s)
  BY <1>1 DEF Ordered, CutAt
<1>3. LiveOnly(s, t) = r
  BY <1>1, <1>2, LiveOnlyIs
<1>4. /\ r \in Seq(Nat) /\ Len(r) = Len(s) - k
      /\ \A i \in 1 .. Len(r) : r[i] = s[k + i]
  BY <1>2, SuffixIs
<1> HIDE DEF r
<1>5. \A i \in 1 .. Len(r) : k + i \in k + 1 .. Len(s) /\ k + i \in 1 .. Len(s)
  BY <1>2, <1>4
<1>6. \A i \in 1 .. Len(r) : Live(r[i], t) /\ r[i] <= t
  BY <1>1, <1>4, <1>5 DEF CutAt, Ordered
<1>7. ASSUME NEW i \in 1 .. Len(r), NEW j \in 1 .. Len(r), i <= j
      PROVE  r[i] <= r[j]
  <2>1. k + i <= k + j
    BY <1>2, <1>4, <1>7
  <2> QED
    BY <1>4, <1>5, <2>1 DEF Ordered
<1> QED
  BY <1>2, <1>3, <1>4, <1>6, <1>7 DEF Ordered

\* If all instants are live, all are kept.
LEMMA AllLiveKept ==
  ASSUME NEW t \in Nat, NEW s \in Seq(Nat), \A i \in 1 .. Len(s) : Live(s[i], t)
  PROVE  LiveOnly(s, t) = s
<1>1. CutAt(s, t, 0)
  BY DEF CutAt
<1>2. LiveOnly(s, t) = SubSeq(s, 1, Len(s))
  BY <1>1, LiveOnlyIs
<1> QED
  BY <1>2

\* If the latest instant is over, none is kept.
LEMMA PastKeepsNone ==
  ASSUME NEW t \in Nat, NEW s, Ordered(s, t), s # << >>, ~Live(s[Len(s)], t)
  PROVE  LiveOnly(s, t) = << >>
<1>1. s \in Seq(Nat) /\ Len(s) \in Nat \ {0}
  BY DEF Ordered
<1>2. ASSUME NEW j \in 1 .. Len(s)
      PROVE  ~Live(s[j], t)
  <2>1. s[j] <= s[Len(s)] /\ s[j] \in Nat /\ s[Len(s)] \in Nat
    BY <1>1 DEF Ordered
  <2> QED
    BY LimiterAssumption, <2>1 DEF Live
<1>3. Len(s) \in 0 .. Len(s) /\ Len(s) + 1 .. Len(s) = {}
  BY <1>1
<1>4. CutAt(s, t, Len(s))
  BY <1>2, <1>3, Zenon DEF CutAt
<1>5. LiveOnly(s, t) = SubSeq(s, Len(s) + 1, Len(s))
  BY <1>1, <1>4, LiveOnlyIs
<1> QED
  BY <1>1, <1>5

\* What is live a tick later is what is live then of what is live now.
LEMMA LiveOnlyLater ==
  ASSUME NEW t \in Nat, NEW s, Ordered(s, t)
  PROVE  LiveOnly(LiveOnly(s, t), t + 1) = LiveOnly(s, t + 1)
<1>1. PICK k : CutAt(s, t, k)
  BY CutExists
<1>2. PICK m : CutAt(s, t + 1, m)
  BY CutExists
<1> DEFINE r == SubSeq(s, k + 1, Len(s))
<1>3. s \in Seq(Nat) /\ Len(s) \in Nat /\ k \in 0 .. Len(s) /\ m \in 0 .. Len(s)
  BY <1>1, <1>2 DEF Ordered, CutAt
<1>4. k <= m
  <2>1. CASE m < k
    <3>1. k \in m + 1 .. Len(s) /\ k \in 1 .. k /\ k \in 1 .. Len(s)
      BY <1>3, <2>1
    <3>2. Live(s[k], t + 1) /\ ~Live(s[k], t) /\ s[k] \in Nat
      BY <1>1, <1>2, <1>3, <3>1 DEF CutAt
    <3> QED
      BY LimiterAssumption, <3>2 DEF Live
  <2> QED
    BY <1>3, <2>1
<1>5. LiveOnly(s, t) = r /\ LiveOnly(s, t + 1) = SubSeq(s, m + 1, Len(s))
  <2>1. LiveOnly(s, t) = r
    BY <1>1, <1>3, LiveOnlyIs
  <2>2. t + 1 \in Nat
    OBVIOUS
  <2>3. LiveOnly(s, t + 1) = SubSeq(s, m + 1, Len(s))
    BY <1>2, <1>3, <2>2, LiveOnlyIs
  <2> QED
    BY <2>1, <2>3
<1>6. /\ r \in Seq(Nat) /\ Len(r) = Len(s) - k
      /\ \A i \in 1 .. Len(r) : r[i] = s[k + i]
  BY <1>3, SuffixIs
<1> HIDE DEF r
<1>7. CutAt(r, t + 1, m - k)
  <2>1. m - k \in 0 .. Len(r)
    BY <1>3, <1>4, <1>6
  <2>2. ASSUME NEW j \in 1 .. m - k
        PROVE  ~Live(r[j], t + 1)
    <3>1. j \in 1 .. Len(r) /\ k + j \in 1 .. m
      BY <1>3, <1>4, <1>6
    <3> QED
      BY <1>2, <1>6, <3>1 DEF CutAt
  <2>3. ASSUME NEW j \in m - k + 1 .. Len(r)
        PROVE  Live(r[j], t + 1)
    <3>1. j \in 1 .. Len(r) /\ k + j \in m + 1 .. Len(s)
      BY <1>3, <1>4, <1>6
    <3> QED
      BY <1>2, <1>6, <3>1 DEF CutAt
  <2> QED
    BY <2>1, <2>2, <2>3 DEF CutAt
<1>8. LiveOnly(r, t + 1) = SubSeq(r, m - k + 1, Len(r))
  BY <1>6, <1>7, LiveOnlyIs
<1> DEFINE a == SubSeq(r, m - k + 1, Len(r))
           b == SubSeq(s, m + 1, Len(s))
<1>9. /\ a \in Seq(Nat) /\ Len(a) = Len(s) - m
      /\ \A i \in 1 .. Len(a) : a[i] = r[m - k + i]
  BY <1>3, <1>4, <1>6
<1>10. /\ b \in Seq(Nat) /\ Len(b) = Len(s) - m
       /\ \A i \in 1 .. Len(b) : b[i] = s[m + i]
  BY <1>3
<1> HIDE DEF a, b
<1>11. ASSUME NEW i \in 1 .. Len(a)
       PROVE  a[i] = b[i]
  <2>1. m - k + i \in 1 .. Len(r) /\ k + (m - k + i) = m + i
    <3>1. i \in Nat /\ 1 <= i /\ i <= Len(s) - m
      BY <1>3, <1>9
    <3>2. k \in Nat /\ m \in Nat /\ Len(r) = Len(s) - k
      BY <1>3, <1>6
    <3> QED
      BY <1>3, <1>4, <3>1, <3>2
  <2> QED
    BY <1>6, <1>9, <1>10, <2>1
<1>12. a = b
  BY <1>9, <1>10, <1>11, SeqEqual
<1> QED
  BY <1>5, <1>8, <1>12 DEF a, b

\* A grant now joins the live ones.
LEMMA GrantJoins ==
  ASSUME NEW t \in Nat, NEW s, Ordered(s, t), \A i \in 1 .. Len(s) : Live(s[i], t)
  PROVE  Ordered(Append(s, t), t) /\ LiveOnly(Append(s, t), t) = Append(s, t)
<1> DEFINE r == Append(s, t)
<1>1. s \in Seq(Nat) /\ Len(s) \in Nat
  BY DEF Ordered
<1>2. /\ r \in Seq(Nat) /\ Len(r) = Len(s) + 1 /\ r[Len(s) + 1] = t
      /\ \A i \in 1 .. Len(s) : r[i] = s[i]
  BY <1>1
<1> HIDE DEF r
<1>3. \A i \in 1 .. Len(r) : i \in 1 .. Len(s) \/ i = Len(s) + 1
  BY <1>1, <1>2
<1>4. \A i \in 1 .. Len(r) : Live(r[i], t) /\ r[i] <= t
  <2>1. Live(t, t) /\ t <= t
    BY LimiterAssumption DEF Live
  <2> QED
    BY <1>2, <1>3, <2>1 DEF Ordered
<1>5. ASSUME NEW i \in 1 .. Len(r), NEW j \in 1 .. Len(r), i <= j
      PROVE  r[i] <= r[j]
  <2>1. CASE j = Len(s) + 1
    BY <1>2, <1>4, <2>1
  <2>2. CASE j \in 1 .. Len(s)
    <3>1. i \in 1 .. Len(s)
      BY <1>1, <1>2, <1>5, <2>2
    <3> QED
      BY <1>2, <1>5, <2>2, <3>1 DEF Ordered
  <2> QED
    BY <1>3, <2>1, <2>2
<1>6. LiveOnly(r, t) = r
  BY <1>2, <1>4, AllLiveKept
<1> QED
  BY <1>2, <1>4, <1>5, <1>6 DEF Ordered, r

(***************************************************************************)
(* The limiter.                                                            *)
(***************************************************************************)
\* A limiter at instant t: its list and its map agree, and no instant is
\* out of order.
Sound(l, t) ==
  /\ l \in [stamps : [Addresses -> Seq(Nat)], lru : Seq(Addresses)]
  /\ Agrees(l)
  /\ \A c \in Addresses : Ordered(l.stamps[c], t)

\* n keeps the instants of the clients on its list, and the others were
\* dropped from the end of the list of l that begins after k.
Keeps(n, l, k) ==
  /\ Len(n.lru) = k
  /\ \A c \in Addresses :
       /\ Occurs(c, n.lru) => n.stamps[c] = l.stamps[c] /\ Occurs(c, l.lru)
       /\ ~Occurs(c, n.lru) => n.stamps[c] = << >>
       /\ ~Occurs(c, n.lru) /\ Occurs(c, l.lru) =>
            \E i \in k + 1 .. Len(l.lru) : l.lru[i] = c

\* Cutting the list off after k clients.
LEMMA ShortenedKeeps ==
  ASSUME NEW t \in Nat, NEW l, Sound(l, t), NEW k \in 0 .. Len(l.lru)
  PROVE  Sound(Shortened(l, k), t) /\ Keeps(Shortened(l, k), l, k)
<1> DEFINE q == l.lru
           r == SubSeq(q, 1, k)
           n == Shortened(l, k)
<1>1. /\ q \in Seq(Addresses) /\ Len(q) \in Nat /\ k \in 0 .. Len(q)
      /\ l.stamps \in [Addresses -> Seq(Nat)]
      /\ NoDuplicates(q) /\ Len(q) <= MaxClients
      /\ \A c \in Addresses : Occurs(c, q) <=> l.stamps[c] # << >>
  BY DEF Sound, Agrees
<1>2. /\ r \in Seq(Addresses) /\ Len(r) = k
      /\ \A i \in 1 .. k : r[i] = q[i] /\ i \in 1 .. Len(q)
  BY <1>1
<1>3. /\ n.lru = r
      /\ n.stamps = [c \in Addresses |-> IF Occurs(c, r) THEN l.stamps[c] ELSE << >>]
      /\ n = [stamps |-> n.stamps, lru |-> n.lru]
  BY DEF Shortened
<1> HIDE DEF q, r, n
<1>4. \A c : Occurs(c, r) => Occurs(c, q)
  BY <1>1, <1>2 DEF Occurs
<1>5. NoDuplicates(r)
  BY <1>1, <1>2 DEF NoDuplicates
<1>6. ASSUME NEW c \in Addresses, ~Occurs(c, r), Occurs(c, q)
      PROVE  \E i \in k + 1 .. Len(q) : q[i] = c
  <2>1. PICK i \in 1 .. Len(q) : q[i] = c
    BY <1>6 DEF Occurs
  <2>2. i \notin 1 .. k
    BY <1>2, <1>6, <2>1 DEF Occurs
  <2> QED
    BY <1>1, <2>1, <2>2
<1>7. \A c \in Addresses : n.stamps[c] = IF Occurs(c, r) THEN l.stamps[c] ELSE << >>
  BY <1>3
<1>8. n \in [stamps : [Addresses -> Seq(Nat)], lru : Seq(Addresses)]
  <2>1. n.stamps \in [Addresses -> Seq(Nat)]
    BY <1>1, <1>3
  <2> QED
    BY <1>2, <1>3, <2>1
<1>9. Agrees(n)
  <2>1. \A c \in Addresses : Occurs(c, r) <=> n.stamps[c] # << >>
    BY <1>1, <1>4, <1>7
  <2>2. Len(r) <= MaxClients
    BY LimiterAssumption, <1>1, <1>2
  <2> QED
    BY <1>3, <1>5, <2>1, <2>2 DEF Agrees
<1>10. \A c \in Addresses : Ordered(n.stamps[c], t)
  <2>1. Ordered(<< >>, t)
    BY DEF Ordered
  <2> QED
    BY <1>7, <2>1 DEF Sound
<1>11. Sound(n, t)
  BY <1>8, <1>9, <1>10 DEF Sound
<1>12. Keeps(n, l, k)
  BY <1>2, <1>3, <1>4, <1>6, <1>7 DEF Keeps, q
<1> QED
  BY <1>11, <1>12 DEF n

\* Evicting what is past drops no instant that is live.
LEMMA EvictExpiredKeeps ==
  ASSUME NEW t \in Nat, NEW l, Sound(l, t)
  PROVE  LET e == EvictExpired(l, t)
         IN  /\ Sound(e, t)
             /\ \A c \in Addresses :
                  /\ Occurs(c, e.lru) => e.stamps[c] = l.stamps[c]
                  /\ ~Occurs(c, e.lru) =>
                       e.stamps[c] = << >> /\ LiveOnly(l.stamps[c], t) = << >>
<1> DEFINE P(k) == /\ \A i \in k + 1 .. Len(l.lru) : Past(l, l.lru[i], t)
                   /\ k > 0 => ~Past(l, l.lru[k], t)
           T == {k \in 0 .. Len(l.lru) :
                   \A i \in k + 1 .. Len(l.lru) : Past(l, l.lru[i], t)}
           k == CHOOSE i \in 0 .. Len(l.lru) : P(i)
           e == EvictExpired(l, t)
<1>1. l.lru \in Seq(Addresses) /\ Len(l.lru) \in Nat
  BY DEF Sound
<1>2. \E i \in 0 .. Len(l.lru) : P(i)
  <2>1. T \subseteq Nat
    BY <1>1
  <2>2. Len(l.lru) \in T
    <3>1. Len(l.lru) + 1 .. Len(l.lru) = {}
      BY <1>1
    <3> QED
      BY <1>1, <3>1
  <2>3. PICK m \in T : \A y \in T : m <= y
    <3> HIDE DEF T
    <3> QED
      BY <2>1, <2>2, LeastNat
  <2>4. ASSUME m > 0, Past(l, l.lru[m], t)
        PROVE  FALSE
    <3>1. m - 1 \in 0 .. Len(l.lru) /\ m \in 0 .. Len(l.lru)
      BY <1>1, <2>3, <2>4
    <3>2. \A i \in m - 1 + 1 .. Len(l.lru) : i = m \/ i \in m + 1 .. Len(l.lru)
      BY <1>1, <3>1
    <3>3. m - 1 \in T
      BY <2>3, <2>4, <3>1, <3>2
    <3>4. m \in Nat
      BY <1>1, <3>1
    <3>5. m <= m - 1
      <4> HIDE DEF T
      <4> QED
        BY <2>3, <3>3
    <3> QED
      BY <3>4, <3>5
  <2> QED
    BY <2>3, <2>4
<1>3. k \in 0 .. Len(l.lru) /\ P(k)
  BY <1>2
<1>4. e = Shortened(l, k)
  BY DEF EvictExpired
<1> HIDE DEF k, e
<1>5. Sound(e, t) /\ Keeps(e, l, k)
  BY <1>3, <1>4, ShortenedKeeps
<1>6. ASSUME NEW c \in Addresses, ~Occurs(c, e.lru)
      PROVE  LiveOnly(l.stamps[c], t) = << >>
  <2>1. CASE Occurs(c, l.lru)
    <3>1. PICK i \in k + 1 .. Len(l.lru) : l.lru[i] = c
      BY <1>5, <1>6, <2>1 DEF Keeps
    <3>2. Past(l, c, t)
      BY <1>3, <3>1
    <3>3. Ordered(l.stamps[c], t) /\ l.stamps[c] # << >>
      BY <2>1 DEF Sound, Agrees
    <3> QED
      BY <3>2, <3>3, PastKeepsNone DEF Past
  <2>2. CASE ~Occurs(c, l.lru)
    <3>1. l.stamps[c] = << >>
      BY <2>2 DEF Sound, Agrees
    <3>2. << >> \in Seq(Nat) /\ \A i \in 1 .. Len(<< >>) : Live(<< >>[i], t)
      OBVIOUS
    <3> QED
      BY <3>1, <3>2, AllLiveKept
  <2> QED
    BY <2>1, <2>2
<1> QED
  BY <1>5, <1>6 DEF Keeps, e

\* Whether a client is let through depends on its live instants alone.
LEMMA AllowedIs ==
  ASSUME NEW t \in Nat, NEW l, Sound(l, t), NEW c \in Addresses, NEW limit \in Nat \ {0}
  PROVE  Allowed(l, c, limit, t) <=> Len(LiveOnly(l.stamps[c], t)) < limit
<1> DEFINE e == EvictExpired(l, t)
<1>1. /\ Occurs(c, e.lru) => e.stamps[c] = l.stamps[c]
      /\ ~Occurs(c, e.lru) => LiveOnly(l.stamps[c], t) = << >>
  BY EvictExpiredKeeps
<1>2. Len(<< >>) = 0 /\ 0 < limit
  OBVIOUS
<1>3. Allowed(l, c, limit, t)
        <=> ~Occurs(c, e.lru) \/ Len(LiveOnly(e.stamps[c], t)) < limit
  BY DEF Allowed
<1> HIDE DEF e
<1> QED
  BY <1>1, <1>2, <1>3

\* The charge of a client with an entry.
LEMMA ChargeKnownKeeps ==
  ASSUME NEW t \in Nat, NEW l, Sound(l, t), NEW c \in Addresses,
         NEW limit \in Nat \ {0}, Occurs(c, l.lru)
  PROVE  LET n == ChargeKnown(l, c, limit, t)
             live == LiveOnly(l.stamps[c], t)
         IN  /\ Sound(n, t)
             /\ n.stamps[c] = IF Len(live) < limit THEN Append(live, t) ELSE live
             /\ \A d \in Addresses \ {c} : n.stamps[d] = l.stamps[d]
<1> DEFINE live == LiveOnly(l.stamps[c], t)
           mine == IF Len(live) < limit THEN Append(live, t) ELSE live
           n == ChargeKnown(l, c, limit, t)
<1>1. /\ l.lru \in Seq(Addresses) /\ l.stamps \in [Addresses -> Seq(Nat)]
      /\ NoDuplicates(l.lru) /\ Len(l.lru) <= MaxClients
      /\ \A d \in Addresses : Occurs(d, l.lru) <=> l.stamps[d] # << >>
      /\ \A d \in Addresses : Ordered(l.stamps[d], t)
  BY DEF Sound, Agrees
<1>2. Ordered(live, t) /\ \A i \in 1 .. Len(live) : Live(live[i], t)
  BY <1>1, LiveOnlyKeeps
<1>3. live \in Seq(Nat) /\ Len(live) \in Nat
  BY <1>2 DEF Ordered
<1>4. /\ n.lru = MoveToFront(l.lru, c)
      /\ n.stamps = [l.stamps EXCEPT ![c] = mine]
      /\ n = [stamps |-> n.stamps, lru |-> n.lru]
  BY DEF ChargeKnown
<1> HIDE DEF live, n
<1>5. Ordered(mine, t) /\ mine # << >>
  <2>1. CASE Len(live) < limit
    <3>1. Ordered(Append(live, t), t)
      BY <1>2, GrantJoins
    <3>2. Append(live, t) # << >>
      BY <1>3
    <3> QED
      BY <2>1, <3>1, <3>2
  <2>2. CASE ~(Len(live) < limit)
    <3>1. live # << >>
      BY <1>3, <2>2
    <3> QED
      BY <1>2, <2>2, <3>1
  <2> QED
    BY <2>1, <2>2
<1> HIDE DEF mine
<1>6. /\ n.lru \in Seq(Addresses) /\ Len(n.lru) = Len(l.lru) /\ NoDuplicates(n.lru)
      /\ \A d : Occurs(d, n.lru) <=> Occurs(d, l.lru)
  BY <1>1, <1>4, MoveToFrontKeeps
<1>7. mine \in Seq(Nat)
  BY <1>5 DEF Ordered
<1>8. /\ n.stamps \in [Addresses -> Seq(Nat)] /\ n.stamps[c] = mine
      /\ \A d \in Addresses \ {c} : n.stamps[d] = l.stamps[d]
  BY <1>1, <1>4, <1>7
<1>9. Agrees(n)
  <2>1. \A d \in Addresses : Occurs(d, n.lru) <=> n.stamps[d] # << >>
    BY <1>1, <1>5, <1>6, <1>8
  <2> QED
    BY <1>1, <1>6, <2>1 DEF Agrees
<1>10. \A d \in Addresses : Ordered(n.stamps[d], t)
  BY <1>1, <1>5, <1>8
<1>11. n \in [stamps : [Addresses -> Seq(Nat)], lru : Seq(Addresses)]
  BY <1>4, <1>6, <1>8
<1> QED
  BY <1>8, <1>9, <1>10, <1>11 DEF Sound, mine, live, n

\* The charge of a client without one, for which others may have to go.
LEMMA ChargeNewKeeps ==
  ASSUME NEW t \in Nat, NEW l, Sound(l, t), NEW c \in Addresses, ~Occurs(c, l.lru)
  PROVE  LET n == ChargeNew(l, c, t)
         IN  /\ Sound(n, t) /\ n.stamps[c] = <<t>>
             /\ \A d \in Addresses \ {c} :
                  n.stamps[d] = IF Occurs(d, MakeRoom(l).lru) THEN l.stamps[d] ELSE << >>
<1> DEFINE room == MakeRoom(l)
           n == ChargeNew(l, c, t)
<1>1. l.lru \in Seq(Addresses) /\ Len(l.lru) \in Nat /\ Len(l.lru) <= MaxClients
  BY DEF Sound, Agrees
<1>2. /\ Sound(room, t) /\ Len(room.lru) < MaxClients
      /\ \A d \in Addresses :
           /\ room.stamps[d] = IF Occurs(d, room.lru) THEN l.stamps[d] ELSE << >>
           /\ Occurs(d, room.lru) => Occurs(d, l.lru)
  <2>1. CASE Len(l.lru) < MaxClients
    <3>1. room = l
      BY <2>1 DEF MakeRoom
    <3> QED
      BY <2>1, <3>1 DEF Sound, Agrees
  <2>2. CASE ~(Len(l.lru) < MaxClients)
    <3>1. room = Shortened(l, MaxClients - 1)
      BY <2>2 DEF MakeRoom
    <3>2. MaxClients - 1 \in 0 .. Len(l.lru)
      BY LimiterAssumption, <1>1, <2>2
    <3>3. Sound(room, t) /\ Keeps(room, l, MaxClients - 1)
      BY <3>1, <3>2, ShortenedKeeps
    <3>4. MaxClients - 1 < MaxClients
      BY LimiterAssumption
    <3> QED
      BY <3>3, <3>4 DEF Keeps
  <2> QED
    BY <2>1, <2>2
<1>3. /\ n.lru = <<c>> \o room.lru
      /\ n.stamps = [room.stamps EXCEPT ![c] = <<t>>]
      /\ n = [stamps |-> n.stamps, lru |-> n.lru]
  BY DEF ChargeNew
<1> HIDE DEF room, n
<1>4. /\ room.lru \in Seq(Addresses) /\ room.stamps \in [Addresses -> Seq(Nat)]
      /\ NoDuplicates(room.lru) /\ ~Occurs(c, room.lru)
      /\ \A d \in Addresses : Occurs(d, room.lru) <=> room.stamps[d] # << >>
      /\ \A d \in Addresses : Ordered(room.stamps[d], t)
  BY <1>2 DEF Sound, Agrees
<1>5. /\ n.lru \in Seq(Addresses) /\ Len(n.lru) = Len(room.lru) + 1 /\ NoDuplicates(n.lru)
      /\ \A d : Occurs(d, n.lru) <=> Occurs(d, room.lru) \/ d = c
  BY <1>3, <1>4, PushFrontAdds
<1>6. Ordered(<<t>>, t) /\ <<t>> \in Seq(Nat) /\ <<t>> # << >>
  BY DEF Ordered
<1>7. /\ n.stamps \in [Addresses -> Seq(Nat)] /\ n.stamps[c] = <<t>>
      /\ \A d \in Addresses \ {c} : n.stamps[d] = room.stamps[d]
  BY <1>3, <1>4, <1>6
<1>8. Agrees(n)
  <2>1. \A d \in Addresses : Occurs(d, n.lru) <=> n.stamps[d] # << >>
    BY <1>4, <1>5, <1>6, <1>7
  <2>2. Len(n.lru) <= MaxClients
    <3>1. Len(room.lru) \in Nat
      BY <1>4
    <3> QED
      BY LimiterAssumption, <1>2, <1>5, <3>1
  <2> QED
    BY <1>5, <2>1, <2>2 DEF Agrees
<1>9. \A d \in Addresses : Ordered(n.stamps[d], t)
  BY <1>4, <1>6, <1>7
<1>10. n \in [stamps : [Addresses -> Seq(Nat)], lru : Seq(Addresses)]
  BY <1>3, <1>5, <1>7
<1> QED
  BY <1>2, <1>7, <1>8, <1>9, <1>10 DEF Sound, room, n

\* A charge, seen through what is live: a client that is let through has one
\* more instant, one that is not has the same, and of the others only those
\* that are displaced lose any.
LEMMA ChargeIs ==
  ASSUME NEW t \in Nat, NEW l, Sound(l, t), NEW c \in Addresses, NEW limit \in Nat \ {0}
  PROVE  LET n == Charge(l, c, limit, t)
             live == LiveOnly(l.stamps[c], t)
         IN  /\ Sound(n, t)
             /\ LiveOnly(n.stamps[c], t) =
                  IF Allowed(l, c, limit, t) THEN Append(live, t) ELSE live
             /\ \A d \in Addresses \ {c} :
                  LiveOnly(n.stamps[d], t) =
                    IF d \in Displaced(l, c, t) THEN << >> ELSE LiveOnly(l.stamps[d], t)
             /\ c \notin Displaced(l, c, t)
             /\ ~Allowed(l, c, limit, t) => Displaced(l, c, t) = {}
<1> DEFINE e == EvictExpired(l, t)
           n == Charge(l, c, limit, t)
           live == LiveOnly(l.stamps[c], t)
           gone == Displaced(l, c, t)
           ok == Allowed(l, c, limit, t)
           room == MakeRoom(e)
<1>1. /\ Sound(e, t)
      /\ \A d \in Addresses :
           /\ Occurs(d, e.lru) => e.stamps[d] = l.stamps[d]
           /\ ~Occurs(d, e.lru) =>
                e.stamps[d] = << >> /\ LiveOnly(l.stamps[d], t) = << >>
  BY EvictExpiredKeeps
<1>2. LiveOnly(<< >>, t) = << >>
  <2>1. << >> \in Seq(Nat) /\ \A i \in 1 .. Len(<< >>) : Live(<< >>[i], t)
    OBVIOUS
  <2> QED
    BY <2>1, AllLiveKept
<1>3. \A d \in Addresses : LiveOnly(e.stamps[d], t) = LiveOnly(l.stamps[d], t)
  BY <1>1, <1>2
<1>4. Ordered(live, t) /\ \A i \in 1 .. Len(live) : Live(live[i], t)
  BY LiveOnlyKeeps DEF Sound
<1>5. ok <=> Len(live) < limit
  BY AllowedIs
<1>6. /\ n = IF Occurs(c, e.lru) THEN ChargeKnown(e, c, limit, t) ELSE ChargeNew(e, c, t)
      /\ gone = IF Occurs(c, e.lru) THEN {}
                ELSE {d \in Addresses : Occurs(d, e.lru) /\ ~Occurs(d, room.lru)}
  BY DEF Charge, Displaced
<1>7. LiveOnly(live, t) = live /\ LiveOnly(Append(live, t), t) = Append(live, t)
  BY <1>4, GrantJoins, AllLiveKept DEF Ordered
<1>8. CASE Occurs(c, e.lru)
  <2>1. e.stamps[c] = l.stamps[c]
    BY <1>1, <1>8
  <2>2. /\ Sound(n, t)
        /\ n.stamps[c] = IF Len(live) < limit THEN Append(live, t) ELSE live
        /\ \A d \in Addresses \ {c} : n.stamps[d] = e.stamps[d]
    <3> HIDE DEF e, n
    <3> QED
      BY <1>1, <1>6, <1>8, <2>1, ChargeKnownKeeps
  <2>3. gone = {}
    BY <1>6, <1>8
  <2> HIDE DEF e, n, live, gone, ok
  <2> QED
    BY <1>3, <1>5, <1>7, <2>2, <2>3 DEF e, n, live, gone, ok
<1>9. CASE ~Occurs(c, e.lru)
  <2>1. live = << >>
    BY <1>1, <1>9
  <2>2. /\ Sound(n, t) /\ n.stamps[c] = <<t>>
        /\ \A d \in Addresses \ {c} :
             n.stamps[d] = IF Occurs(d, room.lru) THEN e.stamps[d] ELSE << >>
    <3> HIDE DEF e, n
    <3> QED
      BY <1>1, <1>6, <1>9, ChargeNewKeeps
  <2>3. ok /\ Append(live, t) = <<t>>
    <3>1. Len(live) = 0
      BY <2>1
    <3> QED
      BY <1>5, <2>1, <3>1
  <2>4. c \notin gone
    BY <1>6, <1>9
  <2>5. ASSUME NEW d \in Addresses \ {c}
        PROVE  LiveOnly(n.stamps[d], t) = IF d \in gone THEN << >> ELSE LiveOnly(l.stamps[d], t)
    <3> HIDE DEF e, n, gone, room
    <3>1. CASE d \in gone
      BY <1>2, <1>6, <1>9, <2>2, <3>1
    <3>2. CASE d \notin gone /\ Occurs(d, e.lru)
      BY <1>3, <1>6, <1>9, <2>2, <3>2
    <3>3. CASE d \notin gone /\ ~Occurs(d, e.lru)
      <4>1. e.stamps[d] = << >> /\ LiveOnly(l.stamps[d], t) = << >>
        BY <1>1, <3>3
      <4> QED
        BY <1>2, <2>2, <3>3, <4>1
    <3> QED
      BY <3>1, <3>2, <3>3
  <2>6. LiveOnly(n.stamps[c], t) = Append(live, t)
    BY <1>7, <2>2, <2>3
  <2> HIDE DEF e, n, live, gone, ok
  <2> QED
    BY <2>2, <2>3, <2>4, <2>5, <2>6 DEF e, n, live, gone, ok
<1> QED
  BY <1>8, <1>9

\* Time does not put anything out of order.
LEMMA SoundLater ==
  ASSUME NEW t \in Nat, NEW l, Sound(l, t)
  PROVE  Sound(l, t + 1)
<1>1. ASSUME NEW c \in Addresses
      PROVE  Ordered(l.stamps[c], t + 1)
  <2>1. Ordered(l.stamps[c], t)
    BY DEF Sound
  <2>2. l.stamps[c] \in Seq(Nat) /\ \A i \in 1 .. Len(l.stamps[c]) : l.stamps[c][i] \in Nat
    BY <2>1 DEF Ordered
  <2> QED
    BY <2>1, <2>2 DEF Ordered
<1> QED
  BY <1>1 DEF Sound

\* A limiter that was charged with nothing.
LEMMA NewLimiterSound ==
  /\ Sound(NewLimiter, 0)
  /\ \A c \in Addresses : LiveOnly(NewLimiter.stamps[c], 0) = << >>
<1>1. \A c \in Addresses : NewLimiter.stamps[c] = << >>
  BY DEF NewLimiter
<1>2. NewLimiter.lru = << >>
  BY DEF NewLimiter
<1>3. Agrees(NewLimiter)
  BY LimiterAssumption, <1>1, <1>2 DEF Agrees, NoDuplicates, Occurs
<1>4. Ordered(<< >>, 0)
  BY DEF Ordered
<1>5. NewLimiter \in [stamps : [Addresses -> Seq(Nat)], lru : Seq(Addresses)]
  BY DEF NewLimiter
<1>6. LiveOnly(<< >>, 0) = << >>
  <2>1. << >> \in Seq(Nat) /\ \A i \in 1 .. Len(<< >>) : Live(<< >>[i], 0)
    OBVIOUS
  <2> QED
    BY <2>1, AllLiveKept
<1> QED
  BY <1>1, <1>3, <1>4, <1>5, <1>6 DEF Sound

(***************************************************************************)
(* What main checked before it serves.                                     *)
(***************************************************************************)
\* What Validate let through and --port leaves alone.
OpsPortValid(c) == EffectiveOpsPort(c) # 0 => EffectiveOpsPort(c) \in 1 .. LastPort
Checked(c) ==
  OpsPortValid(c) /\ HealthValid(c) /\ ServerValid(c) /\ SyncValid(c) /\ CapsValid(c)

LEMMA FieldsOfDefault ==
  {"privateHealth", "opsPort", "metricsPort", "readTimeout", "writeTimeout",
   "idleTimeout", "hstsMaxAge", "trustedProxyCIDRs", "strategy", "pollInterval",
   "cloneDepth", "secretLength", "allowedEvents", "path", "rateLimit",
   "maxBodySize", "allowedIPs", "maxDocs", "maxTokens", "maxIndexBytes"}
    \subseteq DOMAIN Default \ {"port"}
  BY SMT DEF Default

\* --port is copied over a merged configuration; no other setting changes.
LEMMA PortIsAllThatChanges ==
  ASSUME NEW f, NEW e, NEW p, NEW x \in DOMAIN Default \ {"port"}
  PROVE  [Merged(f, e) EXCEPT !.port = p][x] = Merged(f, e)[x]
<1>1. \A m, D : m = [y \in D |-> m[y]] /\ x \in D \ {"port"}
                  => [m EXCEPT !.port = p][x] = m[x]
  BY SMT
<1>2. Merged(f, e) = [y \in DOMAIN Default |-> Merged(f, e)[y]]
  BY DEF Merged, Override
<1>3. QED
  BY <1>1, <1>2, Zenon

\* A configuration that loads is checked, whatever port it is given.
LEMMA LoadedIsChecked ==
  ASSUME NEW f, NEW e, Loads(f, e), NEW p
  PROVE  Checked(Merged(f, e)) /\ Checked([Merged(f, e) EXCEPT !.port = p])
<1> DEFINE m == Merged(f, e)
           c == [m EXCEPT !.port = p]
<1>1. Checked(m)
  BY DEF Loads, Valid, Checked, SearchValid, PortsValid, OpsPortValid
<1>2. \A x \in DOMAIN Default \ {"port"} : c[x] = m[x]
  BY PortIsAllThatChanges
<1> HIDE DEF m, c
<1>3. /\ c.privateHealth = m.privateHealth /\ c.opsPort = m.opsPort
      /\ c.metricsPort = m.metricsPort /\ c.readTimeout = m.readTimeout
      /\ c.writeTimeout = m.writeTimeout /\ c.idleTimeout = m.idleTimeout
      /\ c.hstsMaxAge = m.hstsMaxAge /\ c.trustedProxyCIDRs = m.trustedProxyCIDRs
      /\ c.strategy = m.strategy /\ c.pollInterval = m.pollInterval
      /\ c.cloneDepth = m.cloneDepth /\ c.secretLength = m.secretLength
      /\ c.allowedEvents = m.allowedEvents /\ c.path = m.path
      /\ c.rateLimit = m.rateLimit /\ c.maxBodySize = m.maxBodySize
      /\ c.allowedIPs = m.allowedIPs /\ c.maxDocs = m.maxDocs
      /\ c.maxTokens = m.maxTokens /\ c.maxIndexBytes = m.maxIndexBytes
  BY <1>2, FieldsOfDefault
<1>4. Checked(c)
  <2>1. HealthValid(c) /\ OpsPortValid(c)
    BY <1>1, <1>3 DEF Checked, HealthValid, OpsPortValid, EffectiveOpsPort
  <2>2. ServerValid(c)
    BY <1>1, <1>3, SMT DEF Checked, ServerValid
  <2>3. PollValid(c)
    BY <1>1, <1>3 DEF Checked, SyncValid, PollValid
  <2>4. c.strategy = "webhook" => WebhookValid(c)
    BY <1>1, <1>3, SMT DEF Checked, SyncValid, WebhookValid
  <2>5. SyncValid(c)
    BY <1>1, <1>3, <2>3, <2>4 DEF Checked, SyncValid
  <2>6. CapsValid(c)
    BY <1>1, <1>3, SMT DEF Checked, CapsValid
  <2> QED
    BY <2>1, <2>2, <2>5, <2>6 DEF Checked
<1>5. QED
  BY <1>1, <1>4 DEF m, c

(***************************************************************************)
(* Who is charged.                                                         *)
(***************************************************************************)
\* A set of positions that is not empty has a last one.
LEMMA LastPosition ==
  ASSUME NEW n \in Nat, NEW U, U \subseteq 1 .. n, U # {}
  PROVE  \E i \in U : \A j \in U : j <= i
<1> DEFINE T == {k \in Nat : n - k \in U}
<1>1. \A i \in U : i \in 1 .. n
  OBVIOUS
<1>2. \A i \in U : n - i \in T
  <2> SUFFICES ASSUME NEW i \in U PROVE n - i \in Nat /\ n - (n - i) = i
    OBVIOUS
  <2> QED
    BY <1>1
<1>3. PICK x \in T : \A y \in T : x <= y
  <2>1. T # {} /\ T \subseteq Nat
    BY <1>2
  <2> HIDE DEF T
  <2> QED
    BY <2>1, LeastNat
<1>4. x \in Nat /\ n - x \in U
  BY <1>3
<1>5. ASSUME NEW j \in U PROVE j <= n - x
  <2>1. x <= n - j
    BY <1>2, <1>3
  <2> QED
    BY <1>1, <1>4, <2>1
<1>6. QED
  BY <1>4, <1>5

\* Whatever a request claims, the client it is charged to is an address.
LEMMA ClientIsAddress ==
  ASSUME NEW req \in Requests
  PROVE  ClientIP(req) \in Addresses
<1> DEFINE n == Len(req.hops)
           untrusted == {i \in 1 .. n : ~Trusted(req.hops[i])}
           last == CHOOSE i \in untrusted : \A j \in untrusted : j <= i
<1>1. /\ req.remote \in Addresses /\ req.hops \in Seq(Addresses \cup {Junk})
      /\ req.realIP \in Addresses \cup {Junk} /\ Junk \notin Addresses
  BY WebhookAssumption
<1>2. n \in Nat /\ \A i \in 1 .. n : req.hops[i] \in Addresses \cup {Junk}
  BY <1>1
<1>3. ASSUME untrusted # {}
      PROVE  last \in untrusted /\ \A j \in untrusted : j <= last
  <2>1. \E i \in untrusted : \A j \in untrusted : j <= i
    BY <1>2, <1>3, LastPosition
  <2> HIDE DEF untrusted
  <2> QED
    BY <2>1
<1>4. req.hops # << >> => Forwarded(req) \in Addresses
  <2> SUFFICES ASSUME req.hops # << >> PROVE Forwarded(req) \in Addresses
    OBVIOUS
  <2>1. n >= 1
    BY <1>1
  <2>2. CASE untrusted = {}
    <3>1. Trusted(req.hops[1]) /\ req.hops[1] \in Addresses \cup {Junk}
      BY <1>2, <2>1, <2>2
    <3> QED
      BY <2>2, <3>1 DEF Forwarded, Trusted
  <2>3. CASE untrusted # {}
    <3>1. last \in 1 .. n
      BY <1>3, <2>3
    <3>2. req.hops[last] \in Addresses \cup {Junk}
      BY <1>2, <3>1
    <3>3. ASSUME last < n
          PROVE  req.hops[last + 1] \in Addresses
      <4>1. last + 1 \in 1 .. n
        BY <1>2, <3>1, <3>3
      <4>2. last + 1 \notin untrusted
        <5>1. \A j \in untrusted : j <= last
          BY <1>3, <2>3
        <5>2. ~(last + 1 <= last)
          BY <3>1
        <5> HIDE DEF untrusted, last
        <5> QED
          BY <5>1, <5>2
      <4> QED
        BY <1>2, <4>1, <4>2 DEF Trusted
    <3> HIDE DEF last
    <3>4. Forwarded(req) = IF req.hops[last] # Junk THEN req.hops[last]
                           ELSE IF last < n THEN req.hops[last + 1] ELSE req.remote
      BY <2>3 DEF Forwarded, last
    <3> QED
      BY <1>1, <3>2, <3>3, <3>4
  <2> QED
    BY <2>2, <2>3
<1>5. QED
  BY <1>1, <1>4 DEF ClientIP

(***************************************************************************)
(* The start.                                                              *)
(***************************************************************************)
Steps == {"load", "scan", "theme", "server", "strategy", "routes", "listen"}

\* Why main gave up at a step.
Reason(step) ==
  /\ step = "scan" => ~ScanWorks(cfg)
  /\ step = "theme" => ~site.themed
  /\ step = "server" => NoAddress \in cfg.trustedProxyCIDRs
  /\ step = "strategy" => ~StrategyWorks(cfg)
  /\ step = "routes" => cfg.strategy = "webhook" /\ cfg.path \in {"blank", "broken"}
  /\ step = "listen" =>
       cfg.port \notin 1 .. LastPort \/ cfg.port = EffectiveOpsPort(cfg)

OpsRoutes == IF EffectiveOpsPort(cfg) > 0 THEN OpsEndpoints ELSE {}

TwoListeners ==
  DOMAIN routes = {"site", "ops"} /\ routes = [s \in DOMAIN routes |-> routes[s]]

\* What main has done when it is at a step, and that deliveries wait for it.
StartInv ==
  /\ main \in Steps \cup {"serving", "failed"}
  /\ failed \in Steps \cup {"no"} /\ (main = "failed" <=> failed # "no")
  /\ main # "load" /\ failed # "load" => Checked(cfg) /\ CapsValid(loaded)
  /\ main = "failed" => Reason(failed)
  /\ TwoListeners
  /\ main \in {"strategy", "routes", "listen", "serving"} => routes["ops"] = OpsRoutes
  /\ main \in {"listen", "serving"} => routes["site"] = SiteEndpoints(cfg)
  /\ CapsAreLimits
  /\ \A d \in Deliveries : main = "serving" \/ pc[d] = "idle"

LEMMA StartInvInit ==
  Init => StartInv
<1> SUFFICES ASSUME Init PROVE StartInv
  OBVIOUS
<1>1. main = "load" /\ failed = "no" /\ caps = NoCaps
  BY DEF Init, StartupInit
<1>2. TwoListeners
  BY DEF Init, StartupInit, TwoListeners
<1>3. \A d \in Deliveries : pc[d] = "idle"
  BY DEF Init
<1>4. QED
  BY <1>1, <1>2, <1>3 DEF StartInv, TwoListeners, Steps, CapsAreLimits

\* A step of main leaves the deliveries alone.
LEMMA StartInvStart ==
  ASSUME StartInv, Start, UNCHANGED hookVars
  PROVE  StartInv'
<1>1. pc' = pc
  BY DEF hookVars
<1>2. main \in Steps /\ failed = "no" /\ \A d \in Deliveries : pc[d] = "idle"
  BY DEF StartInv, Start, LoadConfig, ScanContent, ParseTheme, BuildServer,
         CreateStrategy, RegisterRoutes, Listen, Step, GoOn, GiveUp, Steps
<1>3. CASE LoadConfig
  <2>1. CASE Loads(file, env)
    <3>1. Checked(cfg') /\ CapsValid(loaded')
      BY <1>3, <2>1, LoadedIsChecked DEF LoadConfig, Checked
    <3>2. main' = "scan" /\ failed' = failed /\ routes' = routes /\ caps' = caps
      BY <1>3, <2>1 DEF LoadConfig, Step, GoOn
    <3> QED
      BY <1>1, <1>2, <3>1, <3>2 DEF StartInv, TwoListeners, Steps, CapsAreLimits, Checked
  <2>2. CASE ~Loads(file, env)
    <3>1. main' = "failed" /\ failed' = "load" /\ routes' = routes /\ caps' = caps
      BY <1>3, <2>2 DEF LoadConfig, Step, GiveUp
    <3> QED
      BY <1>1, <1>2, <3>1 DEF StartInv, TwoListeners, Steps, CapsAreLimits, Reason
  <2> QED
    BY <2>1, <2>2
<1>4. CASE ~LoadConfig
  <2>1. /\ main # "load" /\ cfg' = cfg /\ site' = site /\ loaded' = loaded
    BY <1>4 DEF Start, ScanContent, ParseTheme, BuildServer, CreateStrategy,
                RegisterRoutes, Listen, Step, GoOn, GiveUp, siteVars, inputVars
  <2>2. Checked(cfg)' /\ CapsValid(loaded)' /\ Checked(cfg)
    BY <1>2, <2>1 DEF StartInv
  <2>3. CASE ScanContent
    BY <1>1, <1>2, <2>1, <2>2, <2>3
       DEF StartInv, TwoListeners, ScanContent, Step, GoOn, GiveUp, siteVars, Steps, Reason,
           CapsAreLimits, ScanWorks
  <2>4. CASE ParseTheme
    BY <1>1, <1>2, <2>1, <2>2, <2>4
       DEF StartInv, TwoListeners, ParseTheme, Step, GoOn, GiveUp, siteVars, Steps, Reason,
           CapsAreLimits
  <2>5. CASE BuildServer
    <3>1. NoAddress \notin cfg.trustedProxyCIDRs
      BY <2>2 DEF Checked, ServerValid
    <3>2. main' = "strategy" /\ failed' = failed
      BY <2>5, <3>1 DEF BuildServer, Step, GoOn
    <3>3. routes' = [routes EXCEPT !["ops"] = OpsRoutes]
      BY <2>5, <3>1 DEF BuildServer, OpsRoutes
    <3>4. caps' = IF cfg.searchEnabled THEN CapsOf(cfg) ELSE NoCaps
      BY <2>5, <3>1 DEF BuildServer
    <3>5. CapsAreLimits'
      BY <2>2, <3>4 DEF Checked, CapsValid, CapsOf, CapsAreLimits
    <3>6. OpsRoutes' = OpsRoutes
      BY <2>1 DEF OpsRoutes, OpsEndpoints, EffectiveOpsPort
    <3>7. routes'["ops"] = OpsRoutes' /\ TwoListeners'
      BY <3>3, <3>6 DEF StartInv, TwoListeners
    <3> QED
      BY <1>1, <1>2, <2>2, <3>2, <3>5, <3>7 DEF StartInv, TwoListeners, Steps
  <2>6. CASE CreateStrategy
    BY <1>1, <1>2, <2>1, <2>2, <2>6
       DEF StartInv, TwoListeners, CreateStrategy, Step, GoOn, GiveUp, siteVars, Steps, Reason,
           CapsAreLimits, OpsRoutes
  <2>7. CASE RegisterRoutes
    <3>1. SiteEndpoints(cfg)' = SiteEndpoints(cfg)
      BY <2>1 DEF SiteEndpoints, EffectiveOpsPort
    <3>2. caps' = caps /\ main = "routes"
      BY <2>7 DEF RegisterRoutes, siteVars, Step, GoOn, GiveUp
    <3>3. CASE main' = "listen"
      <4>1. failed' = failed /\ routes' = [routes EXCEPT !["site"] = SiteEndpoints(cfg)]
        BY <2>7, <3>3 DEF RegisterRoutes, Step, GoOn, GiveUp
      <4>2. /\ TwoListeners'
            /\ routes'["site"] = SiteEndpoints(cfg) /\ routes'["ops"] = OpsRoutes
        BY <3>1, <3>2, <4>1 DEF StartInv, TwoListeners
      <4> QED
        BY <1>1, <1>2, <2>1, <2>2, <3>1, <3>2, <3>3, <4>1, <4>2
           DEF StartInv, TwoListeners, Steps, CapsAreLimits, OpsRoutes
    <3>4. CASE main' # "listen"
      BY <1>1, <1>2, <2>1, <2>2, <2>7, <3>2, <3>4
         DEF StartInv, TwoListeners, RegisterRoutes, Step, GoOn, GiveUp, Steps, Reason, CapsAreLimits
    <3> QED
      BY <3>3, <3>4
  <2>8. CASE Listen
    BY <1>1, <1>2, <2>1, <2>2, <2>8
       DEF StartInv, TwoListeners, Listen, Step, GoOn, GiveUp, siteVars, Steps, Reason,
           CapsAreLimits, OpsRoutes
  <2> QED
    BY <1>4, <2>3, <2>4, <2>5, <2>6, <2>7, <2>8 DEF Start
<1>5. QED
  BY <1>3, <1>4

\* Deliveries, the clock and edits leave to main what main did; a reload takes
\* only configurations that load.
LEMMA StartInvServe ==
  ASSUME StartInv, (\E d \in Deliveries : Deliver(d)) \/ Tick \/ Edit
  PROVE  StartInv'
<1>1. UNCHANGED startVars
  BY DEF Deliver, Tick, Edit
<1>2. main = "serving" /\ failed = "no"
  <2>1. \A d \in Deliveries : Deliver(d) => main = "serving"
    BY DEF StartInv, Deliver, Reject, Refuse, Accept, Receiving, Scan, Publish, Finish
  <2> QED
    BY <2>1 DEF Tick, Edit, StartInv
<1>3. CapsValid(loaded) /\ Checked(cfg)
  BY <1>2 DEF StartInv
<1>4. CapsValid(loaded)' /\ CapsAreLimits'
  <2>1. CASE \E d \in Deliveries : Deliver(d)
    <3>1. PICK d \in Deliveries : Deliver(d)
      BY <2>1
    <3>2. CASE UNCHANGED siteVars
      BY <1>3, <3>2 DEF siteVars, StartInv, CapsAreLimits, CapsValid
    <3>3. CASE Scan(d)
      <4>1. caps' = caps
        BY <3>3 DEF Scan
      <4>2. CapsValid(loaded')
        BY <1>3, <3>3, LoadedIsChecked DEF Scan, Checked
      <4> QED
        BY <4>1, <4>2 DEF StartInv, CapsAreLimits, CapsValid
    <3>4. CASE Publish(d)
      <4>1. /\ caps' = IF cfg.searchEnabled THEN CapsOf(loaded) ELSE NoCaps
            /\ loaded' = loaded
        BY <3>4 DEF Publish
      <4> QED
        BY <1>3, <4>1 DEF CapsAreLimits, CapsValid, CapsOf
    <3> QED
      BY <3>1, <3>2, <3>3, <3>4 DEF Deliver, Finish
  <2>2. CASE Tick \/ Edit
    BY <1>3, <2>2 DEF Tick, Edit, siteVars, StartInv, CapsAreLimits, CapsValid
  <2> QED
    BY <2>1, <2>2
<1>5. Checked(cfg)' /\ SiteEndpoints(cfg)' = SiteEndpoints(cfg) /\ OpsRoutes' = OpsRoutes
  BY <1>1, <1>3
     DEF startVars, Checked, OpsPortValid, HealthValid, ServerValid, SyncValid,
         CapsValid, PollValid, WebhookValid, EffectiveOpsPort, SiteEndpoints, OpsRoutes
<1>6. QED
  BY <1>1, <1>2, <1>4, <1>5 DEF StartInv, startVars, TwoListeners

LEMMA StartInvStutter ==
  ASSUME StartInv, UNCHANGED vars
  PROVE  StartInv'
<1>1. UNCHANGED <<main, failed, cfg, routes, site, loaded, caps, pc>>
  BY DEF vars, startVars, inputVars, siteVars, hookVars
<1>2. QED
  BY <1>1
     DEF StartInv, TwoListeners, CapsAreLimits, Reason, OpsRoutes, SiteEndpoints,
         EffectiveOpsPort, Checked, OpsPortValid, HealthValid, ServerValid, SyncValid,
         CapsValid, PollValid, WebhookValid, ScanWorks, StrategyWorks

LEMMA StartInvHolds ==
  Spec => []StartInv
<1>1. StartInv /\ [Next]_vars => StartInv'
  BY StartInvStart, StartInvServe, StartInvStutter DEF Next
<1>2. QED
  BY <1>1, StartInvInit, PTL DEF Spec

\* What StartInv says of a configuration that was validated.
LEMMA StartInvServes ==
  StartInv => ValidatedServes
<1> SUFFICES ASSUME StartInv PROVE ValidatedServes
  OBVIOUS
<1>1. StartsWhenValidated
  <2> SUFFICES ASSUME main = "failed", failed # "load", site.themed, ~site.clashing
               PROVE  Unservable(cfg)
    BY DEF StartsWhenValidated
  <2>1. Checked(cfg) /\ Reason(failed) /\ failed \in Steps
    BY DEF StartInv, Steps
  <2>2. failed # "server"
    BY <2>1 DEF Reason, Checked, ServerValid
  <2>3. failed # "strategy"
    BY <2>1
       DEF Reason, Checked, SyncValid, PollValid, WebhookValid, StrategyWorks
  <2>4. failed # "theme"
    BY <2>1 DEF Reason
  <2> QED
    BY <2>1, <2>2, <2>3, <2>4 DEF Steps, Reason, Unservable, ScanWorks
<1>2. EndpointsAreReachable
  <2> SUFFICES ASSUME main = "serving" PROVE EndpointsAreReachable
    BY DEF EndpointsAreReachable
  <2>1. /\ routes["site"] = SiteEndpoints(cfg) /\ routes["ops"] = OpsRoutes
        /\ OpsPortValid(cfg) /\ HealthValid(cfg)
    BY DEF StartInv, Checked
  <2> DEFINE ops == EffectiveOpsPort(cfg)
  <2>2. ops = 0 \/ ops > 0
    BY <2>1 DEF OpsPortValid
  <2>3. /\ "health" \in routes["site"] <=> ~cfg.privateHealth
        /\ "metrics" \in routes["site"] <=> ops = 0
        /\ "webhook" \in routes["site"] <=> cfg.strategy = "webhook"
    BY <2>1 DEF SiteEndpoints
  <2>4. /\ "health" \in routes["ops"] <=> ops > 0
        /\ "metrics" \in routes["ops"] <=> ops > 0
    BY <2>1 DEF OpsRoutes, OpsEndpoints
  <2>5. cfg.privateHealth => ops > 0
    BY <2>1, <2>2 DEF HealthValid
  <2> HIDE DEF ops
  <2>6. ~(0 > 0)
    OBVIOUS
  <2> QED
    BY <2>2, <2>3, <2>4, <2>5, <2>6 DEF EndpointsAreReachable, Answers
<1>3. QED
  BY <1>1, <1>2 DEF ValidatedServes, StartInv

\* A configuration that passes Validate is served, the named exceptions
\* apart, and with every endpoint where it can be reached; no index is ever
\* built without limits (loader.go:522-955, main.go:125-266).
THEOREM ValidatedServesHolds ==
  Spec => []ValidatedServes
BY StartInvHolds, StartInvServes, PTL

(***************************************************************************)
(* The budgets.                                                            *)
(***************************************************************************)
\* The limiters are sound, what the verified one keeps of a client that is
\* still live is its history, and that is within the budget.
BudgetInv ==
  /\ now \in Nat
  /\ Sound(verified, now) /\ Sound(failures, now)
  /\ recent = [c \in Addresses |-> LiveOnly(verified.stamps[c], now)]
  /\ main # "serving" => \A c \in Addresses : recent[c] = << >>
  /\ cfg.strategy = "webhook" /\ main = "serving" =>
       \A c \in Addresses : Len(recent[c]) <= cfg.rateLimit

LEMMA BudgetInvInit ==
  Init => BudgetInv
<1> SUFFICES ASSUME Init PROVE BudgetInv
  OBVIOUS
<1>1. now = 0 /\ verified = NewLimiter /\ failures = NewLimiter /\ main = "load"
  BY DEF Init, StartupInit
<1>2. recent = [c \in Addresses |-> << >>]
  BY DEF Init
<1>3. QED
  BY <1>1, <1>2, NewLimiterSound DEF BudgetInv

\* What a delivery that is received is charged with.
LEMMA ReceivedIsCharged ==
  ASSUME StartInv, NEW d \in Deliveries, Receiving(d), NEW req \in Requests
  PROVE  /\ main = "serving" /\ cfg.strategy = "webhook"
         /\ cfg.rateLimit \in Nat \ {0} /\ ClientIP(req) \in Addresses
<1>1. main = "serving" /\ "webhook" \in routes["site"]
  BY DEF Receiving, Answers
<1>2. routes["site"] = SiteEndpoints(cfg) /\ Checked(cfg)
  BY <1>1 DEF StartInv, Steps
<1>3. cfg.strategy = "webhook"
  BY <1>1, <1>2 DEF SiteEndpoints
<1>4. cfg.rateLimit \in 1 .. 100
  BY <1>2, <1>3 DEF Checked, SyncValid, WebhookValid
<1>5. QED
  BY <1>1, <1>3, <1>4, ClientIsAddress

\* A refused delivery is charged too, and changes no grant that is live.
LEMMA BudgetInvDeliver ==
  ASSUME StartInv, BudgetInv, NEW d \in Deliveries, Deliver(d)
  PROVE  BudgetInv'
<1>1. UNCHANGED <<main, cfg, now>>
  BY DEF Deliver, startVars
<1>2. now \in Nat /\ Sound(verified, now) /\ Sound(failures, now)
  BY DEF BudgetInv
<1>3. ASSUME NEW req \in Requests, Reject(d, req)
      PROVE  BudgetInv'
  <2> DEFINE c == ClientIP(req)
  <2>1. Receiving(d)
    BY <1>3 DEF Reject
  <2>2. c \in Addresses /\ cfg.rateLimit \in Nat \ {0}
    BY <2>1, ReceivedIsCharged
  <2>3. failures' = Charge(failures, c, cfg.rateLimit, now)
    BY <1>3 DEF Reject
  <2> HIDE DEF c
  <2>4. Sound(failures', now)
    BY <1>2, <2>2, <2>3, ChargeIs
  <2>5. UNCHANGED <<verified, recent>>
    BY <1>3 DEF Reject
  <2> QED
    BY <1>1, <2>4, <2>5 DEF BudgetInv, Sound, Agrees
<1>4. ASSUME NEW req \in Requests, Refuse(d, req) \/ Accept(d, req)
      PROVE  BudgetInv'
  <2> DEFINE c == ClientIP(req)
             live == LiveOnly(verified.stamps[c], now)
  <2>1. Receiving(d)
    BY <1>4 DEF Refuse, Accept
  <2>2. /\ c \in Addresses /\ cfg.rateLimit \in Nat \ {0}
        /\ main = "serving" /\ cfg.strategy = "webhook"
    BY <2>1, ReceivedIsCharged
  <2>3. verified' = Charge(verified, c, cfg.rateLimit, now) /\ failures' = failures
    BY <1>4 DEF Refuse, Accept
  <2>4. Allowed(verified, c, cfg.rateLimit, now) <=> Accept(d, req)
    BY <1>4 DEF Refuse, Accept
  <2>5. ~Accept(d, req) => recent' = recent
    BY <1>4 DEF Refuse
  <2>6. Accept(d, req) =>
          recent' = [e \in Addresses |->
                       IF e \in Displaced(verified, c, now) THEN << >>
                       ELSE IF e = c THEN Append(recent[c], now) ELSE recent[e]]
    BY DEF Accept
  <2>7. /\ recent = [e \in Addresses |-> LiveOnly(verified.stamps[e], now)]
        /\ \A e \in Addresses : Len(recent[e]) <= cfg.rateLimit
    BY <2>2 DEF BudgetInv
  <2> HIDE DEF c
  <2>8. /\ Sound(verified', now)
        /\ LiveOnly(verified'.stamps[c], now) =
             IF Accept(d, req) THEN Append(live, now) ELSE live
        /\ \A e \in Addresses \ {c} :
             LiveOnly(verified'.stamps[e], now) =
               IF e \in Displaced(verified, c, now) THEN << >>
               ELSE LiveOnly(verified.stamps[e], now)
        /\ c \notin Displaced(verified, c, now)
        /\ ~Accept(d, req) => Displaced(verified, c, now) = {}
    BY <1>2, <2>2, <2>3, <2>4, ChargeIs
  <2>9. Accept(d, req) => Len(live) < cfg.rateLimit
    BY <1>2, <2>2, <2>4, AllowedIs
  <2>10. Ordered(verified.stamps[c], now)
    BY <1>2, <2>2 DEF Sound
  <2>11. live \in Seq(Nat)
    BY <1>2, <2>10, LiveOnlyKeeps DEF Ordered
  <2> HIDE DEF live
  <2>12. recent[c] = live
    BY <2>2, <2>7 DEF live
  <2>13. recent' = [e \in Addresses |-> LiveOnly(verified'.stamps[e], now)]
    <3>1. CASE Accept(d, req)
      <4>1. \A e \in Addresses :
              (IF e \in Displaced(verified, c, now) THEN << >>
               ELSE IF e = c THEN Append(recent[c], now) ELSE recent[e])
                = LiveOnly(verified'.stamps[e], now)
        BY <2>7, <2>8, <2>12, <3>1
      <4> QED
        BY <2>6, <3>1, <4>1
    <3>2. CASE ~Accept(d, req)
      <4>1. \A e \in Addresses :
              LiveOnly(verified'.stamps[e], now) = LiveOnly(verified.stamps[e], now)
        BY <2>8, <3>2 DEF live
      <4> QED
        BY <2>5, <2>7, <3>2, <4>1
    <3> QED
      BY <3>1, <3>2
  <2>14. ASSUME NEW e \in Addresses
         PROVE  Len(recent'[e]) <= cfg.rateLimit
    <3>1. CASE Accept(d, req) /\ e = c
      <4>1. recent'[e] = Append(live, now)
        BY <2>8, <2>13, <3>1
      <4>2. Len(Append(live, now)) = Len(live) + 1 /\ Len(live) \in Nat
        BY <1>2, <2>11
      <4> QED
        BY <2>2, <2>9, <3>1, <4>1, <4>2
    <3>2. CASE Accept(d, req) /\ e # c
      <4>1. recent'[e] \in {<< >>, recent[e]}
        BY <2>6, <3>2
      <4>2. Len(<< >>) = 0
        OBVIOUS
      <4> QED
        BY <2>2, <2>7, <4>1, <4>2
    <3>3. CASE ~Accept(d, req)
      BY <2>5, <2>7, <3>3
    <3> QED
      BY <3>1, <3>2, <3>3
  <2> QED
    BY <1>1, <1>2, <2>2, <2>3, <2>8, <2>13, <2>14 DEF BudgetInv, Sound, Agrees
<1>5. CASE UNCHANGED <<verified, failures, recent>>
  BY <1>1, <1>5 DEF BudgetInv, Sound, Agrees
<1>6. QED
  BY <1>3, <1>4, <1>5 DEF Deliver, Scan, Publish, Finish

\* A tick takes from the history what the limiter no longer counts.
LEMMA BudgetInvTick ==
  ASSUME StartInv, BudgetInv, Tick
  PROVE  BudgetInv'
<1> DEFINE t == now + 1
<1>1. /\ now \in Nat /\ t \in Nat /\ now' = t /\ main = "serving"
      /\ UNCHANGED <<verified, failures, main, cfg>>
      /\ recent' = [c \in Addresses |-> LiveOnly(recent[c], t)]
  BY DEF BudgetInv, Tick, hookVars, startVars
<1>2. Sound(verified, now) /\ Sound(failures, now)
  BY DEF BudgetInv
<1>3. Sound(verified, t) /\ Sound(failures, t)
  BY <1>1, <1>2, SoundLater
<1>4. \A s : Ordered(s, now) => Ordered(s, t) /\ LiveOnly(LiveOnly(s, now), t) = LiveOnly(s, t)
  BY <1>1, LiveOnlyLater DEF Ordered
<1> HIDE DEF t
<1>5. ASSUME NEW c \in Addresses
      PROVE  /\ recent'[c] = LiveOnly(verified.stamps[c], t)
             /\ Len(recent'[c]) \in Nat /\ Len(recent[c]) \in Nat
             /\ Len(recent'[c]) <= Len(recent[c])
  <2>1. Ordered(verified.stamps[c], now)
    BY <1>2 DEF Sound
  <2>2. recent[c] = LiveOnly(verified.stamps[c], now)
    BY DEF BudgetInv
  <2>3. recent'[c] = LiveOnly(recent[c], t)
    BY <1>1
  <2>4. Ordered(recent[c], now)
    BY <1>1, <2>1, <2>2, LiveOnlyKeeps
  <2>5. Ordered(recent[c], t)
    BY <1>4, <2>4
  <2>6. Ordered(recent'[c], t) /\ Len(recent'[c]) <= Len(recent[c])
    BY <1>1, <2>3, <2>5, LiveOnlyKeeps
  <2>7. recent'[c] = LiveOnly(verified.stamps[c], t)
    BY <1>4, <2>1, <2>2, <2>3
  <2>8. recent[c] \in Seq(Nat) /\ recent'[c] \in Seq(Nat)
    BY <2>4, <2>6 DEF Ordered
  <2> QED
    BY <2>6, <2>7, <2>8
<1>6. ASSUME NEW c \in Addresses, cfg.strategy = "webhook"
      PROVE  Len(recent'[c]) <= cfg.rateLimit
  <2>1. Len(recent[c]) <= cfg.rateLimit
    BY <1>1, <1>6 DEF BudgetInv
  <2>2. cfg.rateLimit \in 1 .. 100
    BY <1>1, <1>6 DEF StartInv, Steps, Checked, SyncValid, WebhookValid
  <2>3. Len(recent'[c]) \in Nat /\ Len(recent[c]) \in Nat /\ Len(recent'[c]) <= Len(recent[c])
    BY <1>5
  <2>4. cfg.rateLimit \in Nat
    BY <2>2
  <2>5. \A x, y, z \in Nat : x <= y /\ y <= z => x <= z
    OBVIOUS
  <2> QED
    BY <2>1, <2>3, <2>4, <2>5, Zenon
<1>7. recent' = [c \in Addresses |-> LiveOnly(verified.stamps[c], t)]
  BY <1>1, <1>5
<1>8. QED
  BY <1>1, <1>3, <1>6, <1>7 DEF BudgetInv, Sound, Agrees

LEMMA BudgetInvHolds ==
  Spec => []BudgetInv
<1>1. StartInv /\ BudgetInv /\ [Next]_vars => BudgetInv'
  <2> SUFFICES ASSUME StartInv, BudgetInv, [Next]_vars PROVE BudgetInv'
    OBVIOUS
  <2>1. CASE Start /\ UNCHANGED <<now, charged, edits, hookVars>>
    <3>1. main # "serving" /\ UNCHANGED <<now, verified, failures, recent>>
      BY <2>1
         DEF hookVars, Start, LoadConfig, ScanContent, ParseTheme, BuildServer,
             CreateStrategy, RegisterRoutes, Listen, Step, GoOn, GiveUp
    <3>2. /\ \A c \in Addresses : recent'[c] = << >>
          /\ now \in Nat /\ Sound(verified, now) /\ Sound(failures, now)
          /\ recent = [c \in Addresses |-> LiveOnly(verified.stamps[c], now)]
      BY <3>1 DEF BudgetInv
    <3>3. cfg'.strategy = "webhook" /\ main' = "serving" => cfg'.rateLimit \in 1 .. 100
      <4>1. StartInv'
        BY <2>1, StartInvStart DEF hookVars
      <4> QED
        BY <4>1 DEF StartInv, Steps, Checked, SyncValid, WebhookValid
    <3>4. ASSUME cfg'.strategy = "webhook", main' = "serving", NEW c \in Addresses
          PROVE  Len(recent'[c]) <= cfg'.rateLimit
      <4>1. Len(recent'[c]) = 0
        BY <3>2
      <4>2. cfg'.rateLimit \in 1 .. 100
        BY <3>3, <3>4
      <4>3. \A x \in 1 .. 100 : 0 <= x
        OBVIOUS
      <4> QED
        BY <4>1, <4>2, <4>3, Zenon
    <3>5. Sound(verified, now)' /\ Sound(failures, now)'
      BY <3>1, <3>2 DEF Sound, Agrees
    <3> QED
      BY <3>1, <3>2, <3>4, <3>5 DEF BudgetInv
  <2>2. CASE \E d \in Deliveries : Deliver(d)
    BY <2>2, BudgetInvDeliver
  <2>3. CASE Tick
    BY <2>3, BudgetInvTick
  <2>4. CASE Edit \/ UNCHANGED vars
    <3>1. UNCHANGED <<now, verified, failures, recent, main, cfg>>
      BY <2>4 DEF Edit, vars, hookVars, startVars
    <3> QED
      BY <3>1 DEF BudgetInv, Sound, Agrees
  <2> QED
    BY <2>1, <2>2, <2>3, <2>4 DEF Next
<1>2. QED
  BY <1>1, BudgetInvInit, StartInvHolds, PTL DEF Spec

\* What the limiter answers, by the history of the client.
LEMMA AnswerIsHistory ==
  ASSUME StartInv, BudgetInv, main = "serving", cfg.strategy = "webhook",
         NEW c \in Addresses
  PROVE  /\ Allowed(verified, c, cfg.rateLimit, now) <=> Len(recent[c]) < cfg.rateLimit
         /\ Len(recent[c]) \in Nat /\ cfg.rateLimit \in Nat
         /\ Len(recent[c]) <= cfg.rateLimit
<1>1. cfg.rateLimit \in 1 .. 100
  BY DEF StartInv, Steps, Checked, SyncValid, WebhookValid
<1>2. cfg.rateLimit \in Nat \ {0}
  BY <1>1
<1>3. /\ now \in Nat /\ Sound(verified, now)
      /\ recent[c] = LiveOnly(verified.stamps[c], now)
      /\ Len(recent[c]) <= cfg.rateLimit
  BY DEF BudgetInv
<1>4. Allowed(verified, c, cfg.rateLimit, now) <=> Len(recent[c]) < cfg.rateLimit
  BY <1>2, <1>3, AllowedIs
<1>5. Ordered(verified.stamps[c], now)
  BY <1>3 DEF Sound
<1>6. recent[c] \in Seq(Nat)
  BY <1>3, <1>5, LiveOnlyKeeps DEF Ordered
<1>7. QED
  BY <1>2, <1>3, <1>4, <1>6

\* No client is let through more than rate_limit times within a window
\* unless it lost its place, for any number of clients, any window and any
\* capacity of the limiter (webhook.go:406-445).
THEOREM BudgetHoldsAlways ==
  Spec => []BudgetHolds
<1>1. StartInv /\ BudgetInv => BudgetHolds
  BY AnswerIsHistory DEF BudgetHolds
<1>2. QED
  BY <1>1, StartInvHolds, BudgetInvHolds, PTL

\* A signed and wanted delivery is refused only for grants of the same client
\* that are still in the window (webhook.go:100-111).
THEOREM SignedIsNotStarvedHolds ==
  Spec => []SignedIsNotStarved
<1>1. StartInv /\ BudgetInv => SignedIsNotStarved
  BY AnswerIsHistory DEF SignedIsNotStarved
<1>2. QED
  BY <1>1, StartInvHolds, BudgetInvHolds, PTL

\* The map and the list of either limiter never disagree and never hold more
\* than defaultMaxClients clients (webhook.go:406-468).
THEOREM LimitersAgree ==
  Spec => [](Agrees(verified) /\ Agrees(failures))
<1>1. BudgetInv => Agrees(verified) /\ Agrees(failures)
  BY DEF BudgetInv, Sound
<1>2. QED
  BY <1>1, BudgetInvHolds, PTL

(***************************************************************************)
(* What a delivery brings to the site.                                     *)
(***************************************************************************)
ShownType ==
  /\ site \in [version : Nat, clashing : BOOLEAN, themed : BOOLEAN]
  /\ shown \in Nat
  /\ pc \in [Deliveries -> {"idle", "scan", "publish", "answered"}]
  /\ scanned \in [Deliveries -> Nat] /\ base \in [Deliveries -> Nat]
  /\ calm \in [Deliveries -> BOOLEAN] /\ DOMAIN outcome = Deliveries

\* A reload that is calm is alone, and finds what is there when it begins or
\* something newer; nothing on its way to the site is older than what a
\* delivery that was answered well and undisturbed has brought.
ShownInv ==
  /\ \A d, e \in Deliveries : Reloading(d) /\ calm[d] /\ Reloading(e) => d = e
  /\ \A d \in Deliveries :
       /\ base[d] <= site.version
       /\ pc[d] = "publish" => base[d] <= scanned[d]
       /\ pc[d] = "answered" /\ outcome[d] = "ok" /\ calm[d] =>
            /\ base[d] <= shown
            /\ \A e \in Deliveries : pc[e] = "publish" => base[d] <= scanned[e]

LEMMA ShownInit ==
  Init => ShownType /\ ShownInv
BY DEF Init, StartupInit, Sites, ShownType, ShownInv, Reloading

\* A step of main or of the clock, and edits of the disk.
LEMMA ShownElsewhere ==
  ASSUME ShownType, ShownInv, StartInv,
         \/ Start /\ UNCHANGED hookVars
         \/ Tick \/ Edit \/ UNCHANGED vars
  PROVE  ShownType' /\ ShownInv'
<1>1. UNCHANGED <<pc, outcome, scanned, base, calm>>
  BY DEF hookVars, Tick, Edit, vars
<1>2. /\ site' \in [version : Nat, clashing : BOOLEAN, themed : BOOLEAN]
      /\ site.version <= site'.version /\ site.version \in Nat
  <2>1. CASE site' = site
    BY <2>1 DEF ShownType
  <2>2. CASE Edit /\ EditContent
    <3>1. PICK c \in BOOLEAN :
            site' = [site EXCEPT !.version = site.version + 1, !.clashing = c]
      BY <2>2 DEF EditContent
    <3>2. /\ site.version \in Nat /\ site.themed \in BOOLEAN
          /\ site = [version |-> site.version, clashing |-> site.clashing,
                     themed |-> site.themed]
      BY DEF ShownType
    <3>3. site' = [version |-> site.version + 1, clashing |-> c, themed |-> site.themed]
      BY <3>1, <3>2
    <3> QED
      BY <3>2, <3>3
  <2> QED
    BY <2>1, <2>2
       DEF Edit, Tick, vars, inputVars, Start, LoadConfig, ScanContent, ParseTheme,
           BuildServer, CreateStrategy, RegisterRoutes, Listen
<1>3. \/ shown' = shown
      \/ shown' = site.version /\ \A d \in Deliveries : pc[d] = "idle"
  BY DEF StartInv, Edit, Tick, vars, siteVars, Start, LoadConfig, ScanContent,
         ParseTheme, BuildServer, CreateStrategy, RegisterRoutes, Listen, Step, GoOn,
         GiveUp
<1>4. ShownType'
  BY <1>1, <1>2, <1>3 DEF ShownType
<1>5. ASSUME NEW d \in Deliveries PROVE base[d] <= site'.version
  BY <1>2 DEF ShownType, ShownInv
<1>6. QED
  BY <1>1, <1>3, <1>4, <1>5 DEF ShownInv, Reloading

LEMMA ShownDeliver ==
  ASSUME ShownType, ShownInv, NEW d \in Deliveries, Deliver(d)
  PROVE  ShownType' /\ ShownInv'
<1>1. site' = site
  BY DEF Deliver, inputVars
<1>2. CASE \E req \in Requests : Reject(d, req) \/ Refuse(d, req)
  <2>1. UNCHANGED <<pc, outcome, scanned, base, calm, shown>>
    BY <1>2 DEF Deliver, Reject, Refuse, Accept, Receiving, Scan, Publish, Finish, siteVars
  <2> QED
    BY <1>1, <2>1 DEF ShownType, ShownInv, Reloading
<1>3. ASSUME NEW req \in Requests, Accept(d, req)
      PROVE  ShownType' /\ ShownInv'
  <2>1. /\ pc[d] = "idle" /\ pc' = [pc EXCEPT ![d] = "scan"]
        /\ base' = [base EXCEPT ![d] = site.version]
        /\ calm' = [e \in Deliveries |->
                      IF e = d THEN \A o \in Deliveries : ~Reloading(o)
                               ELSE calm[e] /\ ~Reloading(e)]
    BY <1>3 DEF Accept, Receiving
  <2>2. UNCHANGED <<outcome, scanned, shown>>
    BY <2>1 DEF Deliver, siteVars, Scan, Publish, Finish
  <2>3. ShownType'
    BY <1>1, <2>1, <2>2 DEF ShownType
  <2>4. \A e \in Deliveries :
          /\ e # d => pc'[e] = pc[e] /\ base'[e] = base[e]
          /\ e # d => calm'[e] = (calm[e] /\ ~Reloading(e))
          /\ pc'[d] = "scan" /\ base'[d] = site.version
          /\ calm'[d] = (\A o \in Deliveries : ~Reloading(o))
    BY <2>1 DEF ShownType
  <2>5. \A e, o \in Deliveries :
          Reloading(e)' /\ calm'[e] /\ Reloading(o)' => e = o
    BY <2>4 DEF Reloading
  <2>6. ASSUME NEW e \in Deliveries
        PROVE  /\ base'[e] <= site'.version
               /\ pc'[e] = "publish" => base'[e] <= scanned'[e]
    <3>1. site.version <= site.version
      BY DEF ShownType
    <3> QED
      BY <1>1, <2>2, <2>4, <3>1 DEF ShownInv
  <2>7. ASSUME NEW e \in Deliveries, pc'[e] = "answered", outcome'[e] = "ok", calm'[e]
        PROVE  /\ base'[e] <= shown'
               /\ \A o \in Deliveries : pc'[o] = "publish" => base'[e] <= scanned'[o]
    <3>1. e # d /\ pc[e] = "answered" /\ outcome[e] = "ok" /\ calm[e]
      BY <2>2, <2>4, <2>7
    <3> QED
      BY <2>2, <2>4, <3>1 DEF ShownInv
  <2> QED
    BY <2>3, <2>5, <2>6, <2>7 DEF ShownInv
<1>4. CASE Scan(d)
  <2>1. /\ pc[d] = "scan" /\ UNCHANGED <<shown, base, calm>>
        /\ \/ /\ pc' = [pc EXCEPT ![d] = "publish"] /\ outcome' = outcome
              /\ scanned' = [scanned EXCEPT ![d] = site.version]
           \/ /\ pc' = [pc EXCEPT ![d] = "answered"] /\ scanned' = scanned
              /\ outcome' = [outcome EXCEPT ![d] = "reload_failed"]
    BY <1>4 DEF Scan, Answer
  <2>2. ShownType'
    BY <1>1, <2>1 DEF ShownType
  <2>3. \A e \in Deliveries \ {d} :
          pc'[e] = pc[e] /\ scanned'[e] = scanned[e] /\ outcome'[e] = outcome[e]
    BY <2>1 DEF ShownType
  <2>4. \/ pc'[d] = "publish" /\ scanned'[d] = site.version
        \/ pc'[d] = "answered" /\ outcome'[d] # "ok"
    BY <2>1 DEF ShownType
  <2>5. \A e, o \in Deliveries :
          Reloading(e)' /\ calm'[e] /\ Reloading(o)' => e = o
    BY <2>1, <2>3 DEF Reloading, ShownInv
  <2>6. ASSUME NEW e \in Deliveries
        PROVE  /\ base'[e] <= site'.version
               /\ pc'[e] = "publish" => base'[e] <= scanned'[e]
    BY <1>1, <2>1, <2>3, <2>4 DEF ShownInv
  <2>7. ASSUME NEW e \in Deliveries, pc'[e] = "answered", outcome'[e] = "ok", calm'[e]
        PROVE  /\ base'[e] <= shown'
               /\ \A o \in Deliveries : pc'[o] = "publish" => base'[e] <= scanned'[o]
    <3>1. e # d
      BY <2>4, <2>7
    <3>2. pc[e] = "answered" /\ outcome[e] = "ok" /\ calm[e] /\ base[e] <= site.version
      BY <2>1, <2>3, <2>7, <3>1 DEF ShownInv
    <3> QED
      BY <2>1, <2>3, <2>4, <3>2 DEF ShownInv
  <2> QED
    BY <2>2, <2>5, <2>6, <2>7 DEF ShownInv
<1>5. CASE Publish(d)
  <2>1. /\ pc[d] = "publish" /\ pc' = [pc EXCEPT ![d] = "answered"]
        /\ shown' = scanned[d] /\ scanned' = [scanned EXCEPT ![d] = 0]
        /\ outcome' = [outcome EXCEPT ![d] = "ok"] /\ UNCHANGED <<base, calm>>
    BY <1>5 DEF Publish, Answer
  <2>2. ShownType'
    BY <1>1, <2>1 DEF ShownType
  <2>3. /\ pc'[d] = "answered"
        /\ \A e \in Deliveries \ {d} :
             pc'[e] = pc[e] /\ scanned'[e] = scanned[e] /\ outcome'[e] = outcome[e]
    BY <2>1 DEF ShownType
  <2>4. \A e, o \in Deliveries :
          Reloading(e)' /\ calm'[e] /\ Reloading(o)' => e = o
    BY <2>1, <2>3 DEF Reloading, ShownInv
  <2>5. ASSUME NEW e \in Deliveries
        PROVE  /\ base'[e] <= site'.version
               /\ pc'[e] = "publish" => base'[e] <= scanned'[e]
    BY <1>1, <2>1, <2>3 DEF ShownInv
  <2>6. ASSUME NEW e \in Deliveries, pc'[e] = "answered", outcome'[e] = "ok", calm'[e]
        PROVE  /\ base'[e] <= shown'
               /\ \A o \in Deliveries : pc'[o] = "publish" => base'[e] <= scanned'[o]
    <3>1. CASE e = d
      <4>1. base[d] <= scanned[d] /\ calm[d] /\ Reloading(d)
        BY <2>1, <2>6, <3>1 DEF ShownInv, Reloading
      <4>2. \A o \in Deliveries : pc'[o] # "publish"
        BY <2>3, <4>1 DEF ShownInv, Reloading
      <4> QED
        BY <2>1, <3>1, <4>1, <4>2
    <3>2. CASE e # d
      <4>1. pc[e] = "answered" /\ outcome[e] = "ok" /\ calm[e]
        BY <2>1, <2>3, <2>6, <3>2
      <4> QED
        BY <2>1, <2>3, <4>1 DEF ShownInv
    <3> QED
      BY <3>1, <3>2
  <2> QED
    BY <2>2, <2>4, <2>5, <2>6 DEF ShownInv
<1>6. CASE Finish(d)
  <2>1. /\ pc[d] = "answered" /\ pc' = [pc EXCEPT ![d] = "idle"]
        /\ outcome' = [outcome EXCEPT ![d] = "none"]
        /\ base' = [base EXCEPT ![d] = 0] /\ calm' = [calm EXCEPT ![d] = FALSE]
        /\ UNCHANGED <<shown, scanned>>
    BY <1>6 DEF Finish, siteVars
  <2>2. ShownType'
    BY <1>1, <2>1 DEF ShownType
  <2>3. /\ pc'[d] = "idle" /\ base'[d] = 0
        /\ \A e \in Deliveries \ {d} :
             /\ pc'[e] = pc[e] /\ outcome'[e] = outcome[e]
             /\ base'[e] = base[e] /\ calm'[e] = calm[e]
    BY <2>1 DEF ShownType
  <2>4. site.version \in Nat
    BY DEF ShownType
  <2> QED
    BY <1>1, <2>1, <2>2, <2>3, <2>4 DEF ShownInv, Reloading
<1>7. QED
  BY <1>2, <1>3, <1>4, <1>5, <1>6 DEF Deliver

\* A delivery answered with 200 that no other reload overlapped has brought
\* the content it found to the site, for any number of deliveries
\* (reload.go:97-160, handlers.go:114-117).
THEOREM UnracedDeliveryHolds ==
  Spec => []UnracedDeliveryIsShown
<1>1. StartInv /\ ShownType /\ ShownInv /\ [Next]_vars => ShownType' /\ ShownInv'
  BY ShownElsewhere, ShownDeliver DEF Next
<1>2. ShownType /\ ShownInv => UnracedDeliveryIsShown
  BY DEF ShownType, ShownInv, UnracedDeliveryIsShown
<1>3. QED
  BY <1>1, <1>2, ShownInit, StartInvHolds, PTL DEF Spec
=============================================================================
