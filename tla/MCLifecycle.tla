---------------------------- MODULE MCLifecycle ----------------------------
(* A content directory without directories in it.                           *)
EXTENDS Lifecycle

CONSTANT root

MCParent == [d \in Dirs \ {root} |-> root]
=============================================================================
