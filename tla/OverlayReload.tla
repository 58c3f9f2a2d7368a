--------------------------- MODULE OverlayReload ---------------------------
(***************************************************************************)
(* NegCache as the program runs it: content changes on disk and a content  *)
(* reload (newContentReloader, cmd/blogflow/reload.go) follows.  The       *)
(* reload swaps the config, the templates and the snapshot (module Reload) *)
(* and flushes the render cache; of the overlay it touches nothing.  No    *)
(* caller of InvalidateLayer, InvalidateAll or ReplaceLayer exists outside *)
(* the tests, so the instances have no Invalidators.                       *)
(*                                                                         *)
(* Both variables are history.                                             *)
(***************************************************************************)
EXTENDS NegCache

VARIABLES
  reloaded, \* a reload has ended and nothing on disk has changed since
  settled   \* resolver: its resolve began, and ended, while reloaded held

reloadVars == <<reloaded, settled>>

ReloadInit ==
  /\ Init
  /\ reloaded = TRUE
  /\ settled = [p \in Resolvers |-> FALSE]

\* A content reload ends: nothing of the overlay's state has changed.
ContentReload ==
  /\ reloaded' = TRUE
  /\ UNCHANGED <<vars, settled>>

\* Any step of the overlay, and what it does to the history.
OverlayStep ==
  LET still == UNCHANGED <<disk, layers>>
  IN  /\ Next
      /\ reloaded' = (reloaded /\ still)
      /\ settled' = [p \in Resolvers |->
                       IF rpc[p] = "idle" /\ rpc'[p] # "idle" THEN reloaded
                       ELSE settled[p] /\ still]

ReloadNext == ContentReload \/ OverlayStep

ReloadSpec == ReloadInit /\ [][ReloadNext]_<<vars, reloadVars>>

\* "Negative cache goes stale: Invalidation signal from file watcher clears
\* cache" (overlay-filesystem.md:799): once the reload that follows a change
\* has ended, a path resolves to what the layers hold.
ReloadedResolveIsRight ==
  \A p \in Resolvers :
    settled[p] /\ answer[p] # NoAnswer => Right(path[p], answer[p])
=============================================================================
