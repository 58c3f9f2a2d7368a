----------------------------- MODULE MCGitPoll -----------------------------
(* Instances of GitPoll for TLC. *)
EXTENDS GitPoll

\* Everything may go wrong.
AnyFault == FaultKinds
=============================================================================
