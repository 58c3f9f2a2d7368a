---------------------------- MODULE RateLimiter -----------------------------
(***************************************************************************)
(* The sliding-window limiter of internal/gitops/webhook.go: for each      *)
(* client the instants at which it was let through, and a list of the      *)
(* clients with the most recently seen at the front.  allow runs under one *)
(* mutex, so a call is one change of the record that the operators here    *)
(* work on:                                                                *)
(*   stamps[c]: its entry's timestamps, oldest first; <<>> if it has none, *)
(*   lru:       the list.                                                  *)
(* A new entry holds one instant and a refused client keeps all that are   *)
(* live, so no entry is ever without one.                                  *)
(***************************************************************************)
EXTENDS LruList

CONSTANTS
  Addresses,  \* client addresses
  Window,     \* one minute, in ticks of the clock
  MaxClients  \* defaultMaxClients

ASSUME LimiterAssumption == Window \in Nat \ {0} /\ MaxClients \in Nat \ {0}

NewLimiter == [stamps |-> [c \in Addresses |-> << >>], lru |-> << >>]

\* time.After(now - window)
Live(t, now) == t + Window > now

\* The instants of s that are still live: the clock never runs backwards, so
\* they are a suffix.
LiveOnly(s, now) ==
  LET k == CHOOSE i \in 0 .. Len(s) :
             /\ \A j \in 1 .. i : ~Live(s[j], now)
             /\ i < Len(s) => Live(s[i + 1], now)
  IN  SubSeq(s, k + 1, Len(s))

PastOldest(l, c, now) == ~Live(l.stamps[c][1], now)

\* An entry is past when its latest instant is.
Past(l, c, now) == ~Live(l.stamps[c][Len(l.stamps[c])], now)

\* l with the first k clients of its list.
Shortened(l, k) ==
  [stamps |-> [c \in Addresses |->
                 IF Occurs(c, SubSeq(l.lru, 1, k)) THEN l.stamps[c] ELSE << >>],
   lru |-> SubSeq(l.lru, 1, k)]

\* Past entries go, from the back of the list up to the first that is not.
EvictExpired(l, now) ==
  Shortened(l, CHOOSE k \in 0 .. Len(l.lru) :
                 /\ \A i \in k + 1 .. Len(l.lru) : Past(l, l.lru[i], now)
                 /\ k > 0 => ~Past(l, l.lru[k], now))

\* evictOldest until there is room for one more.
MakeRoom(l) ==
  IF Len(l.lru) < MaxClients THEN l ELSE Shortened(l, MaxClients - 1)

\* allow: whether c is let through, and what becomes of the record.
Allowed(l, c, limit, now) ==
  LET kept == EvictExpired(l, now)
  IN  ~Occurs(c, kept.lru) \/ Len(LiveOnly(kept.stamps[c], now)) < limit

ChargeKnown(l, c, limit, now) ==
  LET live == LiveOnly(l.stamps[c], now)
  IN  [stamps |-> [l.stamps EXCEPT ![c] =
                     IF Len(live) < limit THEN Append(live, now) ELSE live],
       lru |-> MoveToFront(l.lru, c)]

ChargeNew(l, c, now) ==
  LET room == MakeRoom(l)
  IN  [stamps |-> [room.stamps EXCEPT ![c] = <<now>>], lru |-> <<c>> \o room.lru]

Charge(l, c, limit, now) ==
  LET kept == EvictExpired(l, now)
  IN  IF Occurs(c, kept.lru) THEN ChargeKnown(kept, c, limit, now)
                             ELSE ChargeNew(kept, c, now)

\* The clients a charge of c drops although they are not past.
Displaced(l, c, now) ==
  LET kept == EvictExpired(l, now)
      room == MakeRoom(kept)
  IN  IF Occurs(c, kept.lru) THEN {}
      ELSE {d \in Addresses : Occurs(d, kept.lru) /\ ~Occurs(d, room.lru)}
=============================================================================
