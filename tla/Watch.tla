-------------------------------- MODULE Watch --------------------------------
(***************************************************************************)
(* The watch strategy of internal/gitops/watch.go: a directory tree that is*)
(* edited, the inotify watches on it, and the one goroutine that reads     *)
(* their events, follows new directories and reloads the content once the  *)
(* edits have paused.                                                      *)
(*                                                                         *)
(* The tree is edited by somebody else, at any moment.  Its operations are *)
(* numbered, so that what was noticed and what was loaded are compared as  *)
(* numbers: `loaded' is how much of the history of the tree the site shows.*)
(* fsnotify and inotify are external: a watch on a directory reports       *)
(* the entries created in it and the files changed in it, in order, until  *)
(* the queue is full.                                                      *)
(***************************************************************************)
EXTENDS Integers, Sequences

CONSTANTS
  Dirs,     \* the directories there may be
  Root,     \* the content directory
  Parent,   \* Parent[d] is the directory d is in
  Ignored,  \* those whose name is in ignoredDirs
  MaxOps,   \* bound on the operations on the tree
  MaxQueue  \* bound on the events the kernel keeps

ASSUME WatchAssumption ==
  /\ Root \in Dirs
  /\ Parent \in [Dirs \ {Root} -> Dirs]
  /\ MaxOps \in Nat
  /\ MaxQueue \in Nat

VARIABLES
  tree,     \* the directories that exist
  full,     \* those that hold files with a watched extension
  ops,      \* how many operations the tree has seen
  watches,  \* the directories with an inotify watch
  queue,    \* the events not yet read, oldest first
  pc,       \* where Start and, after it, the goroutine is
  todo,     \* what WalkDir still has to do: directories to add and to read
  timer,    \* the debounce timer
  timerC,   \* the select listens to it
  ctxDone,  \* the context is cancelled
  closed,   \* the watcher is closed
  stop,     \* the call of Stop
  scanned,  \* the operations the running reload has seen
  loaded,   \* the operations the site has seen
  reloadOk, \* the last reload succeeded
  lost,     \* history: the kernel dropped an event
  walkCut,  \* history: a walk of the goroutine was cut short
  noticed   \* history: the last operation on a file that a watch reported

treeVars == <<tree, full, ops>>
kernelVars == <<watches, queue, lost, noticed>>
walkVars == <<todo, walkCut>>
timerVars == <<timer, timerC>>
reloadVars == <<scanned, loaded, reloadOk>>
stopVars == <<ctxDone, closed, stop>>
watchVars == <<treeVars, kernelVars, pc, walkVars, timerVars, reloadVars, stopVars>>

\* The content was scanned and the site built before the strategy starts.
WatchInit ==
  /\ tree = {Root} /\ full = {} /\ ops = 0
  /\ watches = {} /\ queue = <<>> /\ lost = FALSE /\ noticed = 0
  /\ pc = "off"
  /\ todo = {} /\ walkCut = FALSE
  /\ timer = "nil" /\ timerC = FALSE
  /\ scanned = 0 /\ loaded = 0 /\ reloadOk = TRUE
  /\ ctxDone = FALSE /\ closed = FALSE /\ stop = "no"

(***************************************************************************)
(* The tree and the kernel.                                                *)
(***************************************************************************)

\* What happened in directory d is reported if d is watched.
Report(d, event) ==
  IF d \notin watches \/ closed THEN UNCHANGED <<queue, lost>>
  ELSE IF Len(queue) < MaxQueue
    THEN queue' = Append(queue, event) /\ UNCHANGED lost
    ELSE lost' = TRUE /\ UNCHANGED queue

Operation == ops < MaxOps /\ ops' = ops + 1

FileOperation(d) ==
  /\ noticed' = IF d \in watches /\ ~closed THEN ops + 1 ELSE noticed
  /\ Report(d, [op |-> "file", dir |-> d])

Mkdir(d) ==
  /\ d # Root /\ d \notin tree /\ Parent[d] \in tree
  /\ Operation
  /\ tree' = tree \cup {d}
  /\ Report(Parent[d], [op |-> "mkdir", dir |-> d])
  /\ UNCHANGED <<full, watches, noticed, pc, walkVars, timerVars, reloadVars, stopVars>>

\* A file is written, renamed or removed in d.
Change(d) ==
  /\ d \in tree
  /\ Operation
  /\ full' = full \cup {d}
  /\ FileOperation(d)
  /\ UNCHANGED <<tree, watches, pc, walkVars, timerVars, reloadVars, stopVars>>

\* A directory without subdirectories goes, its files first; inotify drops
\* the watch on it.
RemoveAll(d) ==
  /\ d \in tree \ {Root}
  /\ \A c \in tree \ {Root} : Parent[c] # d
  /\ Operation
  /\ tree' = tree \ {d}
  /\ full' = full \ {d}
  /\ watches' = watches \ {d}
  /\ IF d \in full THEN FileOperation(d) ELSE UNCHANGED <<noticed, queue, lost>>
  /\ UNCHANGED <<pc, walkVars, timerVars, reloadVars, stopVars>>

TreeStep == \E d \in Dirs : Mkdir(d) \/ Change(d) \/ RemoveAll(d)

TimerFires ==
  /\ timer = "running"
  /\ timer' = "fired"
  /\ UNCHANGED <<treeVars, kernelVars, pc, walkVars, timerC, reloadVars, stopVars>>

(***************************************************************************)
(* addRecursive: WalkDir adds a directory before it reads its entries, so  *)
(* that a directory made in between is either among them or reported.  Any *)
(* error ends the whole walk.                                              *)
(***************************************************************************)
Walking == pc \in {"start", "walk"}

Children(d) == {c \in tree \ {Root} : Parent[c] = d}

Add(d) == [do |-> "add", dir |-> d]
Read(d) == [do |-> "read", dir |-> d]

\* SkipDir for an ignored directory, otherwise watcher.Add.
WalkAdd(d) ==
  /\ Walking
  /\ Add(d) \in todo
  /\ d \in Ignored \/ (d \in tree /\ ~closed)
  /\ IF d \in Ignored
       THEN todo' = todo \ {Add(d)} /\ UNCHANGED watches
       ELSE todo' = (todo \ {Add(d)}) \cup {Read(d)} /\ watches' = watches \cup {d}
  /\ UNCHANGED <<treeVars, queue, lost, noticed, pc, walkCut, timerVars, reloadVars, stopVars>>

\* Mutant: only the new directory itself is added.
WalkReadNothing(d) ==
  /\ Walking
  /\ Read(d) \in todo
  /\ d \in tree
  /\ todo' = todo \ {Read(d)}
  /\ UNCHANGED <<treeVars, kernelVars, pc, walkCut, timerVars, reloadVars, stopVars>>

WalkRead(d) ==
  /\ Walking
  /\ Read(d) \in todo
  /\ d \in tree
  /\ todo' = (todo \ {Read(d)}) \cup {Add(c) : c \in Children(d)}
  /\ UNCHANGED <<treeVars, kernelVars, pc, walkCut, timerVars, reloadVars, stopVars>>

\* A directory went before it was added or read, or cannot be: no permission,
\* no watch left, the watcher closed.  Start fails and closes its watcher; the goroutine logs and
\* goes on with what has been added.
WalkFails(d) ==
  /\ Walking
  /\ \/ Add(d) \in todo /\ d \notin Ignored
     \/ Read(d) \in todo
  /\ todo' = {}
  /\ IF pc = "start"
       THEN /\ pc' = "failed" /\ watches' = {} /\ queue' = <<>>
            /\ UNCHANGED walkCut
       ELSE pc' = "select" /\ walkCut' = TRUE /\ UNCHANGED <<watches, queue>>
  /\ UNCHANGED <<treeVars, lost, noticed, timerVars, reloadVars, stopVars>>

\* Start returns and the goroutine runs, or tryWatchDir returns to it.
WalkEnds ==
  /\ Walking
  /\ todo = {}
  /\ pc' = "select"
  /\ UNCHANGED <<treeVars, kernelVars, walkVars, timerVars, reloadVars, stopVars>>

Start ==
  /\ pc = "off"
  /\ pc' = "start"
  /\ todo' = {Add(Root)}
  /\ UNCHANGED <<treeVars, kernelVars, walkCut, timerVars, reloadVars, stopVars>>

(***************************************************************************)
(* The goroutine.  Its select takes any channel that is ready.             *)
(***************************************************************************)
HasEvent == pc = "select" /\ ~closed /\ queue # <<>>

\* The timer starts, or is stopped, drained and started again.
Debounce ==
  /\ timer' = "running"
  /\ timerC' = IF timer = "nil" THEN TRUE ELSE timerC

\* Mutant: a running timer is left alone, a fired one is drained.
TakeFileEventDrain ==
  /\ HasEvent
  /\ Head(queue).op = "file"
  /\ queue' = Tail(queue)
  /\ timer' = IF timer = "nil" THEN "running" ELSE "stopped"
  /\ timerC' = TRUE
  /\ UNCHANGED <<treeVars, watches, lost, noticed, pc, walkVars, reloadVars, stopVars>>

TakeFileEvent ==
  /\ HasEvent
  /\ Head(queue).op = "file"
  /\ queue' = Tail(queue)
  /\ Debounce
  /\ UNCHANGED <<treeVars, watches, lost, noticed, pc, walkVars, reloadVars, stopVars>>

\* tryWatchDir.  The name of a directory is not a watched file's: no timer.
TakeDirEvent ==
  /\ HasEvent
  /\ Head(queue).op = "mkdir"
  /\ queue' = Tail(queue)
  /\ LET d == Head(queue).dir IN
       IF d \in tree \ Ignored
         THEN pc' = "walk" /\ todo' = {Add(d)}
         ELSE UNCHANGED <<pc, todo>>
  /\ UNCHANGED <<treeVars, watches, lost, noticed, walkCut, timerVars, reloadVars, stopVars>>

\* The reload's scan reads the tree when it starts; what is done to the tree
\* while it runs counts as unseen.
BeginReload ==
  /\ pc = "select"
  /\ timerC /\ timer = "fired"
  /\ pc' = "reload"
  /\ scanned' = ops
  /\ UNCHANGED <<treeVars, kernelVars, walkVars, timerVars, loaded, reloadOk, stopVars>>

\* Mutant: the channel is forgotten, the timer is not.
EndReloadKeepTimer ==
  /\ pc = "reload"
  /\ pc' = "select"
  /\ \/ loaded' = scanned /\ reloadOk' = TRUE
     \/ reloadOk' = FALSE /\ UNCHANGED loaded
  /\ timer' = "stopped"
  /\ timerC' = FALSE
  /\ UNCHANGED <<treeVars, kernelVars, walkVars, scanned, stopVars>>

\* Mutant: the timer is forgotten, the channel is not.
EndReloadKeepChannel ==
  /\ pc = "reload"
  /\ pc' = "select"
  /\ \/ loaded' = scanned /\ reloadOk' = TRUE
     \/ reloadOk' = FALSE /\ UNCHANGED loaded
  /\ timer' = "nil"
  /\ UNCHANGED <<treeVars, kernelVars, walkVars, timerC, scanned, stopVars>>

\* A failed reload is logged and leaves the site as it is.
EndReload ==
  /\ pc = "reload"
  /\ pc' = "select"
  /\ \/ loaded' = scanned /\ reloadOk' = TRUE
     \/ reloadOk' = FALSE /\ UNCHANGED loaded
  /\ timer' = "nil"
  /\ timerC' = FALSE
  /\ UNCHANGED <<treeVars, kernelVars, walkVars, scanned, stopVars>>

\* A reload is not given the context: nothing ends one that hangs.
HangReload ==
  /\ pc = "reload"
  /\ pc' = "hung"
  /\ UNCHANGED <<treeVars, kernelVars, walkVars, timerVars, reloadVars, stopVars>>

\* Closing the watcher drops its watches and the events not yet read.
CloseWatcher ==
  /\ closed' = TRUE
  /\ watches' = {}
  /\ queue' = <<>>

LoopCancelled ==
  /\ pc = "select"
  /\ ctxDone
  /\ pc' = "done"
  /\ timer' = IF timer = "nil" THEN timer ELSE "stopped"
  /\ CloseWatcher
  /\ UNCHANGED <<treeVars, lost, noticed, walkVars, timerC, reloadVars, ctxDone, stop>>

\* The Events channel is closed; the timer is left running, heard by nobody.
LoopClosed ==
  /\ pc = "select"
  /\ closed
  /\ pc' = "done"
  /\ UNCHANGED <<treeVars, kernelVars, walkVars, timerVars, reloadVars, stopVars>>

(***************************************************************************)
(* Stop, and the cancelled context that comes with it.                     *)
(***************************************************************************)
Cancel ==
  /\ ~ctxDone
  /\ ctxDone' = TRUE
  /\ UNCHANGED <<treeVars, kernelVars, pc, walkVars, timerVars, reloadVars, closed, stop>>

\* Without a watcher, because Start failed, there is nothing to stop.
StopCloses ==
  /\ stop = "no"
  /\ pc \notin {"off", "start"}
  /\ IF pc = "failed"
       THEN stop' = "stopped" /\ UNCHANGED <<closed, watches, queue>>
       ELSE stop' = "waiting" /\ CloseWatcher
  /\ UNCHANGED <<treeVars, lost, noticed, pc, walkVars, timerVars, reloadVars, ctxDone>>

\* Mutant: Stop closes the watcher and does not wait.
StopReturnsEarly ==
  /\ stop = "waiting"
  /\ stop' = "stopped"
  /\ UNCHANGED <<treeVars, kernelVars, pc, walkVars, timerVars, reloadVars, ctxDone, closed>>

StopReturns ==
  /\ stop = "waiting"
  /\ pc = "done"
  /\ stop' = "stopped"
  /\ UNCHANGED <<treeVars, kernelVars, pc, walkVars, timerVars, reloadVars, ctxDone, closed>>

\* Mutant: Stop waits for the goroutine only.
StopOutlastsContext ==
  /\ stop = "waiting"
  /\ pc = "done"
  /\ stop' = "timeout"
  /\ UNCHANGED <<treeVars, kernelVars, pc, walkVars, timerVars, reloadVars, ctxDone, closed>>

\* Its context runs out first: the error says so.
StopTimesOut ==
  /\ stop = "waiting"
  /\ stop' = "timeout"
  /\ UNCHANGED <<treeVars, kernelVars, pc, walkVars, timerVars, reloadVars, ctxDone, closed>>

LoopStep ==
  \/ TakeFileEvent \/ TakeDirEvent
  \/ BeginReload \/ EndReload \/ HangReload
  \/ LoopCancelled \/ LoopClosed

WalkStep == WalkEnds \/ \E d \in Dirs : WalkAdd(d) \/ WalkRead(d) \/ WalkFails(d)

\* What goes on without the rest of the program doing anything.
WatchStep == TreeStep \/ TimerFires \/ WalkStep \/ LoopStep \/ StopReturns \/ StopTimesOut

WatchNext == Start \/ Cancel \/ StopCloses \/ WatchStep

WatchSpec == WatchInit /\ [][WatchNext]_watchVars

(***************************************************************************)
(* Go's select picks among the ready channels at random: one that is ready *)
(* again and again is picked.  A timer fires, a walk proceeds, a reload    *)
(* returns or hangs.                                                       *)
(***************************************************************************)
WatchFairSpec ==
  /\ WatchSpec
  /\ WF_watchVars(WalkStep)
  /\ WF_watchVars(TimerFires)
  /\ WF_watchVars(TakeFileEvent \/ TakeDirEvent)
  /\ SF_watchVars(BeginReload)
  /\ WF_watchVars(EndReload \/ HangReload)

(***************************************************************************)
(* Properties.                                                             *)
(***************************************************************************)
Events == [op : {"file", "mkdir"}, dir : Dirs]

\* The types; and the select listens to no timer that is gone.
WatchTypeOK ==
  /\ tree \subseteq Dirs /\ full \subseteq tree /\ watches \subseteq Dirs
  /\ ops \in 0 .. MaxOps
  /\ {noticed, scanned, loaded} \subseteq 0 .. ops
  /\ queue \in Seq(Events) /\ Len(queue) <= MaxQueue
  /\ pc \in {"off", "start", "failed", "select", "walk", "reload", "hung", "done"}
  /\ todo \subseteq [do : {"add", "read"}, dir : Dirs]
  /\ timer \in {"nil", "running", "fired", "stopped"}
  /\ {timerC, ctxDone, closed, reloadOk, lost, walkCut} \subseteq BOOLEAN
  /\ stop \in {"no", "waiting", "stopped", "timeout"}
  /\ timerC => timer # "nil"

\* The goroutine has read every event and no timer will wake it.
Quiet ==
  /\ pc = "select" /\ ~closed /\ queue = <<>>
  /\ ~timerC \/ timer \in {"nil", "stopped"}

\* watch.go:155: new directories are watched.  When the goroutine has read its
\* events, every directory inside a watched one is watched too, whatever was
\* made, removed and made again while WalkDir was under way; unless the kernel
\* dropped an event, or a directory could not be added and ended a walk.
SubdirectoriesAreWatched ==
  pc = "select" /\ ~closed /\ queue = <<>> /\ ~lost /\ ~walkCut =>
    \A d \in tree \ {Root} : Parent[d] \in watches => d \in watches \cup Ignored

\* watch.go:128-144 and 153-175: no report of an edit is lost between the
\* events, the debounce timer and the reload.  When nothing is left to do, the
\* site shows every edit that a watch reported, those made during a reload
\* included; unless that reload failed.
NoticedIsLoaded == Quiet /\ ~lost /\ reloadOk => noticed <= loaded

\* watch.go:128-171: an edit that a watch reported is on the site sooner or
\* later, however the edits, the timer and the reloads interleave; unless the
\* strategy is stopped, the kernel dropped an event, or a reload failed or
\* hangs.
NoticedEditIsLoaded ==
  \A n \in 1 .. MaxOps :
    noticed = n ~> \/ loaded >= n
                  \/ ctxDone \/ closed
                  \/ lost \/ ~reloadOk \/ pc \in {"failed", "hung"}

\* sync.go:23: Stop shuts the mechanism down.  Once it has returned without an
\* error, no reload changes the site.
StoppedSiteStays == [][(stop = "stopped") => UNCHANGED <<scanned, loaded>>]_watchVars
=============================================================================
