----------------------------- MODULE MCNegCache -----------------------------
(* Instances of NegCache for TLC. *)
EXTENDS NegCache, TLC

CONSTANTS n1, n2, n3, r1, r2

\* Every path in one shard.
OneShard == [n \in Names |-> 0]

\* The first two paths share a shard; only the locks of the other one matter.
TwoShards == [n \in Names |-> IF n = n3 THEN 1 ELSE 0]

ResolverSymmetry == Permutations(Resolvers)

\* The embedded defaults hold every path; a directory that is swapped in holds
\* none of them; the content directory starts with anything.
MCInit ==
  /\ Init
  /\ layers = [j \in LayerIdx |-> IF j = NumLayers - 1 THEN "embed" ELSE "content"]
  /\ \A b \in Backings \ {"content"}, n \in Names :
       disk[b][n] = IF b = "embed" THEN "present" ELSE "absent"

MCSpec == MCInit /\ [][Next]_vars

\* For the lists: every path is in the defaults, one of them perhaps in the
\* content directory too, and what changes is which of the two a layer is.
MCListsInit ==
  /\ MCInit
  /\ disk["content"][n1] # "blocked"
  /\ \A n \in Names \ {n1} : disk["content"][n] = "absent"

MCListsSpec == MCListsInit /\ [][Next]_vars /\ Fairness
=============================================================================
