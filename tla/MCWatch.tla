------------------------------- MODULE MCWatch -------------------------------
(* A content directory with a directory in it that has one of its own, and  *)
(* an ignored one.                                                          *)
EXTENDS Watch

CONSTANTS root, posts, drafts, vendor

MCParent == [d \in Dirs \ {root} |-> IF d = drafts THEN posts ELSE root]
=============================================================================
