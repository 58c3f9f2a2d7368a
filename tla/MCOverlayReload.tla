-------------------------- MODULE MCOverlayReload --------------------------
(* The overlay of main.go for TLC: content above the embedded defaults. *)
EXTENDS OverlayReload, TLC

CONSTANTS n1, r1

OneShard == [n \in Names |-> 0]

MCReloadInit ==
  /\ ReloadInit
  /\ layers = [j \in LayerIdx |-> IF j = NumLayers - 1 THEN "embed" ELSE "content"]
  /\ \A n \in Names : disk["embed"][n] = "present"

MCReloadSpec == MCReloadInit /\ [][ReloadNext]_<<vars, reloadVars>>
=============================================================================
