------------------------------ MODULE LruList -------------------------------
(***************************************************************************)
(* The lists of Go's container/list as this program uses them: the shards  *)
(* of the negative cache and the clients of the rate limiter, each with    *)
(* the most recently used at the front and each element on it once.        *)
(***************************************************************************)
EXTENDS Integers, Sequences

Occurs(n, q) == \E k \in 1 .. Len(q) : q[k] = n

NoDuplicates(q) == \A k, l \in 1 .. Len(q) : q[k] = q[l] => k = l

KeepThere(q, n) == q
Remove(q, n) ==
  LET k == CHOOSE i \in 1 .. Len(q) : q[i] = n
  IN  SubSeq(q, 1, k - 1) \o SubSeq(q, k + 1, Len(q))

MoveToFront(q, n) == <<n>> \o Remove(q, n)
=============================================================================
