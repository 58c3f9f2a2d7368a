------------------------------ MODULE MissCache ------------------------------
(***************************************************************************)
(* What the negative cache of internal/overlayfs promises, with the code's *)
(* generations, shards, locks and LRU lists left out.                      *)
(*                                                                         *)
(* A path is looked for in layer 0 first, then in layer 1, and so on.  The *)
(* cache may remember of a path that the layers below some index do not    *)
(* have it.  It may forget at any time.  It must not remember a miss that  *)
(* is false, except while the layer concerned is "dirty": its files have   *)
(* changed and the invalidation that has to follow the change (the comment *)
(* on InvalidateLayer, overlayfs.go:726) has not taken effect yet.         *)
(*                                                                         *)
(* NegCache.tla is the code; it implements this specification.             *)
(***************************************************************************)
EXTENDS Integers

CONSTANTS
  Names,      \* the paths that are looked up
  NumLayers,  \* the number of layers
  FileStates  \* what a layer may hold under a path; "absent" is one of them

VARIABLES
  view,   \* view[j][n]: what layer j holds under path n
  dirty,  \* dirty[j]: layer j has changed and is not invalidated yet
  known   \* known[n]: layers below this index do not have n; 0 claims nothing

mvars == <<view, dirty, known>>

Layers == 0 .. NumLayers - 1

MissTypeOK ==
  /\ view \in [Layers -> [Names -> FileStates]]
  /\ dirty \in [Layers -> BOOLEAN]
  /\ known \in [Names -> Layers]

\* Nothing is known to start with, whatever the layers hold.
MissInit ==
  /\ view \in [Layers -> [Names -> FileStates]]
  /\ dirty = [j \in Layers |-> FALSE]
  /\ known = [n \in Names |-> 0]

\* The layers in J change, and their invalidation is owed from now on.
Change(J) ==
  /\ view' \in [Layers -> [Names -> FileStates]]
  /\ \A j \in Layers \ J : view'[j] = view[j]
  /\ dirty' = [j \in Layers |-> dirty[j] \/ j \in J]
  /\ UNCHANGED known

\* The paths in E are forgotten.
Forget(E) ==
  /\ known' = [n \in Names |-> IF n \in E THEN 0 ELSE known[n]]
  /\ UNCHANGED <<view, dirty>>

\* A miss is learned; other paths may be forgotten to make room.
Learn(n, f, E) ==
  /\ \A j \in Layers : j < f => view[j][n] = "absent" \/ dirty[j]
  /\ known' = [m \in Names |-> IF m = n THEN f
                               ELSE IF m \in E THEN 0 ELSE known[m]]
  /\ UNCHANGED <<view, dirty>>

\* The layers in J are clean again: nothing is claimed of them any more.
Clean(J) ==
  /\ \A n \in Names, j \in J : known[n] <= j
  /\ dirty' = [j \in Layers |-> dirty[j] /\ j \notin J]
  /\ UNCHANGED <<view, known>>

MissNext ==
  \/ \E J \in SUBSET Layers : Change(J) \/ Clean(J)
  \/ \E E \in SUBSET Names :
       \/ Forget(E)
       \/ \E n \in Names, f \in Layers : Learn(n, f, E)

MissSpec == MissInit /\ [][MissNext]_mvars

\* Every remembered miss is true of every layer that is not dirty.
MissesAreTrue ==
  \A n \in Names, j \in Layers :
    j < known[n] => view[j][n] = "absent" \/ dirty[j]
=============================================================================
