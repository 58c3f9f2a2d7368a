--------------------------- MODULE GitPollProofs ---------------------------
(***************************************************************************)
(* Proofs about GitPoll, for any number of commits and failures, whatever  *)
(* kinds of failure occur, with and without a sparse checkout.             *)
(***************************************************************************)
EXTENDS GitPoll, TLAPS

(***************************************************************************)
(* What the reload of a tick relies on is settled earlier: the clone and   *)
(* the reset bring HEAD to the tracking branch, the checkout and the reset *)
(* bring the files to HEAD, and no step on the way to the reload undoes it.*)
(***************************************************************************)
OnItsWay ==
  /\ pc = "checkout" => head = tracking
  /\ pc = "clean" \/ (pc = "reload" /\ ~booting) => tree = head /\ head = tracking

(***************************************************************************)
(* What is served was checked out, what is checked out was fetched, what   *)
(* was fetched was pushed; and a process that is still to scan serves      *)
(* nothing.                                                                *)
(***************************************************************************)
Ages ==
  /\ tracking <= remote
  /\ head <= tracking
  /\ tree \in Commits => tree <= tracking
  /\ site \in Commits => site <= tracking
  /\ pc = "down" \/ booting => site = NoSite

IInv == TypeOK /\ OnItsWay /\ Ages

LEMMA InitIInv == Init => IInv
<1> SUFFICES ASSUME Init
             PROVE  IInv
  OBVIOUS
<1>1. 0 \in Commits /\ 0 \in 0 .. MaxFaults
  BY GitPollAssumption DEF Commits
<1>2. TypeOK
  BY <1>1, Zenon DEF Init, TypeOK, Places
<1>3. OnItsWay /\ Ages
  BY GitPollAssumption DEF Init, OnItsWay, Ages
<1>. QED
  BY <1>2, <1>3 DEF IInv

\* The steps of the goroutine between two failures.
LEMMA WorkKeepsIInv ==
  ASSUME IInv, Work
  PROVE  IInv'
<1> USE GitPollAssumption
    DEF IInv, TypeOK, OnItsWay, Ages, Commits, Places, At, Return, Returned, repoVars, faultVars
<1>1. CASE Restart
  BY <1>1 DEF Restart
<1>2. CASE Tick
  BY <1>2 DEF Tick
<1>3. CASE StatGit
  BY <1>3 DEF StatGit
<1>4. CASE OpenRepo
  BY <1>4 DEF OpenRepo
<1>5. CASE FetchNew
  BY <1>5 DEF FetchNew
<1>6. CASE FetchNothing
  BY <1>6 DEF FetchNothing
<1>7. CASE Remove
  BY <1>7 DEF Remove
<1>8. CASE Clone
  BY <1>8 DEF Clone
<1>9. CASE Checkout
  BY <1>9 DEF Checkout
<1>10. CASE Reset
  BY <1>10 DEF Reset, AfterReset
<1>11. CASE Clean
  BY <1>11 DEF Clean
<1>12. CASE Reload
  BY <1>12 DEF Reload
<1>13. CASE stopping /\ FetchFails
  BY <1>13 DEF FetchFails
<1>14. CASE stopping /\ CloneFails
  BY <1>14 DEF CloneFails
<1>15. CASE Exit
  BY <1>15 DEF Exit
<1>. QED
  BY <1>1, <1>2, <1>3, <1>4, <1>5, <1>6, <1>7, <1>8, <1>9, <1>10, <1>11, <1>12, <1>13, <1>14,
     <1>15 DEF Work

\* A failure adds to the count and to nothing else that the invariant reads.
LEMMA FaultIsCounted ==
  ASSUME TypeOK, NEW k, Fault(k)
  PROVE  faults' \in 0 .. MaxFaults /\ repaired' \in BOOLEAN
<1>1. faults' \in 0 .. MaxFaults
  <2>1. faults \in 0 .. MaxFaults /\ faults < MaxFaults /\ faults' = faults + 1
    BY DEF TypeOK, Fault
  <2>2. MaxFaults \in Nat
    BY GitPollAssumption
  <2>. QED
    BY ONLY <2>1, <2>2
<1>2. repaired' \in BOOLEAN
  BY Zenon DEF Fault
<1>. QED
  BY <1>1, <1>2

\* What a step that was cut short leaves on the volume.
LEMMA CutShortKeepsAges ==
  ASSUME IInv, CutShort
  PROVE  /\ git' \in {"none", "partial", "whole"}
         /\ tracking' \in Commits /\ head' \in Commits
         /\ tree' \in Commits \cup {NoTree, Mixed}
         /\ tracking' >= tracking /\ tracking' <= remote /\ head' <= tracking'
         /\ tree' \in Commits => tree' <= tracking'
<1> USE GitPollAssumption DEF IInv, TypeOK, Ages, Commits, repoVars
<1>1. CASE pc = "remove" /\ HalfRemove
  BY <1>1 DEF HalfRemove
<1>2. CASE pc = "clone" /\ HalfClone
  BY <1>2 DEF HalfClone
<1>3. CASE pc = "checkout" /\ HalfCheckout
  BY <1>3 DEF HalfCheckout
<1>4. CASE pc = "reset" /\ HalfReset
  BY <1>4 DEF HalfReset
<1>5. CASE UNCHANGED repoVars
  BY <1>5
<1>6. \/ pc = "remove" /\ HalfRemove
      \/ pc = "clone" /\ HalfClone
      \/ pc = "checkout" /\ HalfCheckout
      \/ pc = "reset" /\ HalfReset
      \/ UNCHANGED repoVars
  BY ONLY CutShort, Zenon DEF CutShort
<1>. QED
  BY <1>1, <1>2, <1>3, <1>4, <1>5, <1>6

\* The failures, and the steps of the world around the goroutine.
LEMMA FailureKeepsIInv ==
  ASSUME IInv, Next, ~Work
  PROVE  IInv'
<1> USE GitPollAssumption, FaultIsCounted
    DEF IInv, TypeOK, OnItsWay, Ages, Commits, Places, At, Return, Returned, repoVars, faultVars
<1>1. CASE Push
  BY <1>1 DEF Push
<1>2. CASE FetchFails
  BY <1>2 DEF FetchFails
<1>3. CASE RemoveFails
  BY <1>3 DEF RemoveFails
<1>4. CASE CloneFails
  BY <1>4 DEF CloneFails
<1>5. CASE CheckoutFails
  BY <1>5 DEF CheckoutFails, HalfCheckout
<1>6. CASE ResetFails
  BY <1>6 DEF ResetFails, HalfReset
<1>7. CASE CleanFails
  BY <1>7 DEF CleanFails
<1>8. CASE ReloadFails
  BY <1>8 DEF ReloadFails
<1>9. CASE Stop
  BY <1>9 DEF Stop
<1>10. CASE Crash
  BY <1>10, CutShortKeepsAges DEF Crash
<1>. QED
  BY <1>1, <1>2, <1>3, <1>4, <1>5, <1>6, <1>7, <1>8, <1>9, <1>10 DEF Next

LEMMA NextKeepsIInv == IInv /\ [Next]_vars => IInv'
<1>1. ASSUME IInv, UNCHANGED vars
      PROVE  IInv'
  BY <1>1 DEF IInv, TypeOK, OnItsWay, Ages, vars, repoVars, faultVars
<1>. QED
  BY <1>1, WorkKeepsIInv, FailureKeepsIInv

(* The inductive invariant holds in every reachable state. *)
THEOREM IInvHolds == Spec => []IInv
BY InitIInv, NextKeepsIInv, PTL DEF Spec

(***************************************************************************)
(* Every variable keeps its type: what CloneOrPull and its failures leave  *)
(* on the volume is always one of the cases the next call is written for.  *)
(***************************************************************************)
THEOREM TypeIsCorrect == Spec => []TypeOK
<1>1. IInv => TypeOK
  BY DEF IInv
<1>. QED
  BY <1>1, IInvHolds, PTL

(***************************************************************************)
(* The reloader a tick calls always finds the whole tree of the commit     *)
(* that was fetched (poll.go, tick, after pull.go, CloneOrPull).           *)
(***************************************************************************)
THEOREM TicksReloadWholeTrees == Spec => []ReloadSeesWholeTree
<1>1. IInv => ReloadSeesWholeTree
  BY DEF IInv, OnItsWay, ReloadSeesWholeTree
<1>. QED
  BY <1>1, IInvHolds, PTL

(***************************************************************************)
(* While the process runs the site never goes back: a tick that fails      *)
(* after it has deleted the checkout does not reload (poll.go, tick).      *)
(***************************************************************************)
THEOREM ServedCommitsOnlyGrow == Spec => SiteNeverGoesBack
<1> DEFINE Step == (site \in Commits /\ site' # NoSite) => (site' \in Commits /\ site' >= site)
<1>1. IInv /\ [Next]_vars => [Step]_vars
  <2> SUFFICES ASSUME IInv, Next, site \in Commits, site' # NoSite
               PROVE  site' \in Commits /\ site' >= site
    OBVIOUS
  <2> USE GitPollAssumption DEF Commits
  <2>1. site' = site => site' \in Commits /\ site' >= site
    OBVIOUS
  <2>2. CASE Reload
    <3>1. pc = "reload" /\ site' = tree /\ ~booting
      BY <2>2 DEF Reload, At, IInv, Ages
    <3>. QED
      BY <3>1 DEF IInv, TypeOK, OnItsWay, Ages
  <2>3. CASE ~Reload
    <3>1. site' = site
      BY <2>3 DEF Next, Work, Push, Restart, Tick, StatGit, OpenRepo, FetchNew, FetchNothing,
         Remove, Clone, Checkout, Reset, Clean, Exit, FetchFails, RemoveFails, CloneFails,
         CheckoutFails, ResetFails, CleanFails, ReloadFails, Stop, Crash
    <3>. QED
      BY <2>1, <3>1
  <2>. QED
    BY <2>2, <2>3
<1>. QED
  BY <1>1, IInvHolds, PTL DEF SiteNeverGoesBack, Spec
=============================================================================
