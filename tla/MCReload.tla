------------------------------ MODULE MCReload ------------------------------
(***************************************************************************)
(* Instances of Reload for TLC.                                            *)
(***************************************************************************)
EXTENDS Reload, TLC

CONSTANTS r1, r2, v1, v2, welcome, landing, gone

Paths == {welcome, landing, gone}
Files == {welcome, landing}

(* The author moves the home page, or names one and then a file that is not there. *)
HomeMoves == 0 :> welcome @@ 1 :> landing
HomeComesAndGoes == 0 :> NoPath @@ 1 :> welcome @@ 2 :> gone @@ 3 :> landing
=============================================================================
