------------------------------- MODULE GitPoll -------------------------------
(***************************************************************************)
(* Content from git: the Puller of internal/gitops/pull.go, called once at *)
(* startup (cmd/blogflow/bootstrap.go) and then by every tick of the poll  *)
(* strategy (internal/gitops/poll.go), with the content reload that follows*)
(* a pull that changed something.  The checkout is on a volume and outlives*)
(* the process; what the site serves does not.                             *)
(*                                                                         *)
(* One goroutine does all of this, so its steps are the calls that can     *)
(* fail or be cut off: each go-git call, RemoveAll, the sparse clean-up,   *)
(* the reload.  Stop cancels the context those calls were given.           *)
(*                                                                         *)
(* A failure is a fault of some kind; the instance says which kinds occur  *)
(* and how many.  go-git itself is external: what its calls leave behind   *)
(* when they fail is the worst its documentation and pull.go's handling of *)
(* it allow.                                                               *)
(***************************************************************************)
EXTENDS Integers

CONSTANTS
  MaxPush,   \* bound on the commits pushed to the branch
  Sparse,    \* SparseDirs is not empty
  Faults,    \* the kinds of failure that occur
  MaxFaults, \* bound on their number
  NoTree,    \* no file of the repository is in the content directory
  Mixed,     \* files of several commits, or some of one
  NoSite     \* the process is not running

FaultKinds == {"fetch", "remove", "clone", "checkout", "reset", "clean", "reload", "stop", "crash"}

Commits == 0 .. MaxPush

ASSUME GitPollAssumption ==
  /\ MaxPush \in Nat
  /\ MaxFaults \in Nat
  /\ Sparse \in BOOLEAN
  /\ Faults \subseteq FaultKinds
  /\ NoTree \notin Commits /\ Mixed \notin Commits /\ NoSite \notin Commits
  /\ Mixed # NoTree /\ NoSite # NoTree /\ NoSite # Mixed

VARIABLES
  remote,   \* the commit the branch is at, at the remote
  git,      \* .git in the content directory: none, partial, whole
  tracking, \* refs/remotes/origin/<branch>
  head,     \* HEAD
  tree,     \* the files in the content directory
  pc,       \* where the goroutine is
  booting,  \* it is main, before the first scan
  before,   \* headBefore
  stopping, \* the context is cancelled
  site,     \* the tree the site was last loaded from; NoTree: only defaults
  faults,   \* how many failures there were
  repaired  \* history: the last push came after the last failure

repoVars == <<git, tracking, head, tree>>
faultVars == <<faults, repaired>>
vars == <<remote, repoVars, pc, booting, before, stopping, site, faultVars>>

\* The volume is empty when the program is first started.
Init ==
  /\ remote = 0
  /\ git = "none"
  /\ tracking = 0
  /\ head = 0
  /\ tree = NoTree
  /\ pc = "down"
  /\ booting = TRUE
  /\ before = 0
  /\ stopping = FALSE
  /\ site = NoSite
  /\ faults = 0
  /\ repaired = TRUE

At(from, to) == pc = from /\ pc' = to

\* A failure of kind k happens.
Fault(k) ==
  /\ k \in Faults
  /\ faults < MaxFaults
  /\ faults' = faults + 1
  /\ repaired' = FALSE

Push ==
  /\ remote < MaxPush
  /\ remote' = remote + 1
  /\ repaired' = TRUE
  /\ UNCHANGED <<repoVars, pc, booting, before, stopping, site, faults>>

(***************************************************************************)
(* Where CloneOrPull's caller goes on: main scans what is there, whatever  *)
(* came back; a tick reloads when told of a change.                        *)
(***************************************************************************)
Returned(changed) == IF booting \/ changed THEN "reload" ELSE "idle"

Return(from, changed) == At(from, Returned(changed))

Restart ==
  /\ At("down", "stat")
  /\ booting' = TRUE
  /\ UNCHANGED <<remote, repoVars, before, stopping, site, faultVars>>

Tick ==
  /\ ~stopping
  /\ At("idle", "stat")
  /\ UNCHANGED <<remote, repoVars, booting, before, stopping, site, faultVars>>

\* A .git in the content directory means pull, none means clone.
StatGit ==
  /\ At("stat", IF git = "none" THEN "clone" ELSE "open")
  /\ UNCHANGED <<remote, repoVars, booting, before, stopping, site, faultVars>>

\* Mutant: what the worktree holds is recorded for HEAD.
OpenRepoByTree ==
  /\ IF git = "whole"
       THEN At("open", "fetch") /\ before' = tree
       ELSE Return("open", FALSE) /\ UNCHANGED before
  /\ UNCHANGED <<remote, repoVars, booting, stopping, site, faultVars>>

\* The .git of a clone that was cut off has no HEAD to record.
OpenRepo ==
  /\ IF git = "whole"
       THEN At("open", "fetch") /\ before' = head
       ELSE Return("open", FALSE) /\ UNCHANGED before
  /\ UNCHANGED <<remote, repoVars, booting, stopping, site, faultVars>>

FetchNew ==
  /\ tracking # remote
  /\ ~stopping
  /\ At("fetch", "reset")
  /\ tracking' = remote
  /\ UNCHANGED <<remote, git, head, tree, booting, before, stopping, site, faultVars>>

\* NoErrAlreadyUpToDate compares the remote's refs with the fetched ones; the
\* worktree is not looked at.
FetchNothing ==
  /\ tracking = remote
  /\ ~stopping
  /\ Return("fetch", FALSE)
  /\ UNCHANGED <<remote, repoVars, booting, before, stopping, site, faultVars>>

\* Any other error, a cancelled context included, means the checkout is given
\* up for a fresh clone.
FetchFails ==
  /\ At("fetch", "remove")
  /\ IF stopping THEN UNCHANGED faultVars ELSE Fault("fetch")
  /\ UNCHANGED <<remote, repoVars, booting, before, stopping, site>>

Remove ==
  /\ At("remove", "clone")
  /\ git' = "none"
  /\ tree' = NoTree
  /\ UNCHANGED <<remote, tracking, head, booting, before, stopping, site, faultVars>>

\* RemoveAll goes on after an entry it cannot remove: what stays is the
\* directory itself, which is the mount point of the content volume.
RemoveFails ==
  /\ Return("remove", FALSE)
  /\ git' = "none"
  /\ tree' = NoTree
  /\ Fault("remove")
  /\ UNCHANGED <<remote, tracking, head, booting, before, stopping, site>>

\* A removal cut short.
HalfRemove ==
  /\ git' \in {git, "partial", "none"}
  /\ tree' \in {tree, Mixed, NoTree}
  /\ UNCHANGED <<tracking, head>>

\* A sparse clone has no files yet; the other kind replaces what is there.
Clone ==
  /\ ~stopping
  /\ IF Sparse THEN At("clone", "checkout") ELSE Return("clone", TRUE)
  /\ git' = "whole"
  /\ tracking' = remote
  /\ head' = remote
  /\ tree' = IF Sparse THEN tree ELSE remote
  /\ UNCHANGED <<remote, booting, before, stopping, site, faultVars>>

\* Mutant: the caller looks at "changed", which a clone always sets, first.
CloneFailsUnseen ==
  /\ Return("clone", TRUE)
  /\ git' \in (IF tree = NoTree THEN {"none"} ELSE {"none", "partial"})
  /\ IF stopping THEN UNCHANGED faultVars ELSE Fault("clone")
  /\ UNCHANGED <<remote, tracking, head, tree, booting, before, stopping, site>>

\* go-git removes what a failed clone has made from a directory that was empty.
CloneFails ==
  /\ Return("clone", FALSE)
  /\ git' \in (IF tree = NoTree THEN {"none"} ELSE {"none", "partial"})
  /\ IF stopping THEN UNCHANGED faultVars ELSE Fault("clone")
  /\ UNCHANGED <<remote, tracking, head, tree, booting, before, stopping, site>>

\* A clone cut short: .git may lack its HEAD, or only files may be missing.
HalfClone ==
  \/ git' \in {"none", "partial"} /\ UNCHANGED <<tracking, head, tree>>
  \/ git' = "whole" /\ tracking' = remote /\ head' = remote /\ tree' = Mixed

Checkout ==
  /\ Return("checkout", TRUE)
  /\ tree' = head
  /\ UNCHANGED <<remote, git, tracking, head, booting, before, stopping, site, faultVars>>

\* A checkout cut short: some files may have been written.
HalfCheckout ==
  /\ tree' \in {tree, Mixed}
  /\ UNCHANGED <<git, tracking, head>>

\* Mutant: the caller looks at "changed" before the error of the sparse checkout.
CheckoutFailsUnseen ==
  /\ Return("checkout", TRUE)
  /\ HalfCheckout
  /\ Fault("checkout")
  /\ UNCHANGED <<remote, booting, before, stopping, site>>

CheckoutFails ==
  /\ Return("checkout", FALSE)
  /\ HalfCheckout
  /\ Fault("checkout")
  /\ UNCHANGED <<remote, booting, before, stopping, site>>

\* Mutant: HEAD is read for comparison after the reset only.
AfterResetUnchanged == Returned(FALSE)

\* What comes after the reset: the clean-up, the reload, or nothing new.
AfterReset ==
  IF tracking = before THEN Returned(FALSE)
  ELSE IF Sparse THEN "clean" ELSE Returned(TRUE)

\* The hard reset brings every file of the commit, sparse or not.
Reset ==
  /\ At("reset", AfterReset)
  /\ head' = tracking
  /\ tree' = tracking
  /\ UNCHANGED <<remote, git, tracking, booting, before, stopping, site, faultVars>>

\* A reset cut short: HEAD may have moved, files may have been written.
HalfReset ==
  /\ head' \in {head, tracking}
  /\ tree' \in {tree, Mixed}
  /\ UNCHANGED <<git, tracking>>

ResetFails ==
  /\ Return("reset", FALSE)
  /\ HalfReset
  /\ Fault("reset")
  /\ UNCHANGED <<remote, booting, before, stopping, site>>

Clean ==
  /\ Return("clean", TRUE)
  /\ UNCHANGED <<remote, git, tracking, head, tree, booting, before, stopping, site, faultVars>>

CleanFails ==
  /\ Return("clean", FALSE)
  /\ Fault("clean")
  /\ UNCHANGED <<remote, repoVars, booting, before, stopping, site>>

\* The first scan, or the content reload.
Reload ==
  /\ At("reload", "idle")
  /\ site' = tree
  /\ booting' = FALSE
  /\ UNCHANGED <<remote, repoVars, before, stopping, faultVars>>

\* A reload that fails is logged; a first scan that fails ends the program.
ReloadFails ==
  /\ At("reload", IF booting THEN "down" ELSE "idle")
  /\ Fault("reload")
  /\ UNCHANGED <<remote, repoVars, booting, before, stopping, site>>

Stop ==
  /\ pc # "down" /\ ~booting /\ ~stopping
  /\ stopping' = TRUE
  /\ Fault("stop")
  /\ UNCHANGED <<remote, repoVars, pc, booting, before, site>>

\* The loop sees the cancelled context and the process ends.
Exit ==
  /\ stopping
  /\ At("idle", "down")
  /\ stopping' = FALSE
  /\ site' = NoSite
  /\ UNCHANGED <<remote, repoVars, booting, before, faultVars>>

\* The process is killed, wherever it is.
CutShort ==
  CASE pc = "remove"   -> HalfRemove
    [] pc = "clone"    -> HalfClone
    [] pc = "checkout" -> HalfCheckout
    [] pc = "reset"    -> HalfReset
    [] OTHER           -> UNCHANGED repoVars

Crash ==
  /\ pc # "down"
  /\ pc' = "down"
  /\ CutShort
  /\ site' = NoSite
  /\ stopping' = FALSE
  /\ Fault("crash")
  /\ UNCHANGED <<remote, booting, before>>

\* What the goroutine does when nothing fails, or after a failure.
Work ==
  \/ Restart \/ Tick \/ StatGit \/ OpenRepo
  \/ FetchNew \/ FetchNothing \/ Remove \/ Clone \/ Checkout \/ Reset \/ Clean \/ Reload
  \/ (stopping /\ (FetchFails \/ CloneFails)) \/ Exit

Next ==
  \/ Push \/ Work
  \/ FetchFails \/ RemoveFails \/ CloneFails \/ CheckoutFails \/ ResetFails \/ CleanFails
  \/ ReloadFails \/ Stop \/ Crash

Spec == Init /\ [][Next]_vars

(***************************************************************************)
(* Fairness: the ticker keeps ticking, calls return, and a process that is *)
(* down is started again.  Failures and pushes need not happen.            *)
(***************************************************************************)
FairSpec == Spec /\ WF_vars(Work)

-----------------------------------------------------------------------------
Places == {"down", "idle", "stat", "open", "fetch", "remove", "clone", "checkout",
           "reset", "clean", "reload"}

(* The types of the checkout on the volume and of the strategy's locals. *)
TypeOK ==
  /\ remote \in Commits
  /\ git \in {"none", "partial", "whole"}
  /\ tracking \in Commits
  /\ head \in Commits
  /\ tree \in Commits \cup {NoTree, Mixed}
  /\ pc \in Places
  /\ booting \in BOOLEAN
  /\ before \in Commits
  /\ stopping \in BOOLEAN
  /\ site \in Commits \cup {NoTree, Mixed, NoSite}
  /\ faults \in 0 .. MaxFaults
  /\ repaired \in BOOLEAN

(***************************************************************************)
(* A tick calls the reloader only with the whole tree of the commit that   *)
(* was fetched, whatever failed, was cut short or was killed before (tick: *)
(* an error and "no changes" both return early).                           *)
(***************************************************************************)
ReloadSeesWholeTree ==
  pc = "reload" /\ ~booting => tree = head /\ head = tracking

(***************************************************************************)
(* While the process runs, the commit the site serves never goes back to   *)
(* an older one or to the embedded defaults: a checkout that was deleted   *)
(* for a clone that then failed is not reloaded.                           *)
(***************************************************************************)
SiteNeverGoesBack ==
  [][(site \in Commits /\ site' # NoSite) => (site' \in Commits /\ site' >= site)]_vars

(***************************************************************************)
(* "This ensures all replicas eventually sync" (poll.go, PollStrategy): a  *)
(* push after the last failure is served, whatever failed or was cut short *)
(* before, unless a .git without its HEAD is in the way of every further   *)
(* pull.  After a failure of the last reload the site stays behind: tick   *)
(* has forgotten that the pull changed anything (poll.go:148).             *)
(***************************************************************************)
PushRepairs ==
  (remote = MaxPush /\ repaired) ~> (site = MaxPush \/ ~repaired \/ git = "partial")

(***************************************************************************)
(* "The content volume uses a PVC (not emptyDir) so that cloned content    *)
(* survives pod restarts" (deployment-guide.md, Volume strategy): a        *)
(* process told to stop does not take the content with it.                 *)
(***************************************************************************)
StopKeepsContent ==
  [][stopping /\ tree \in Commits => tree' # NoTree]_vars
=============================================================================
