----------------------------- MODULE WatchProofs -----------------------------
(***************************************************************************)
(* The safety properties of Watch for every directory tree and every bound.*)
(***************************************************************************)
EXTENDS Watch, TLAPS

USE WatchAssumption DEF WatchAssumption

InQueue(e) == \E i \in 1 .. Len(queue) : queue[i] = e

\* Every directory in a watched one is watched, or there is something left to
\* do that will see to it.
Covered(d) ==
  \/ Parent[d] \notin watches
  \/ d \in watches \cup Ignored
  \/ InQueue([op |-> "mkdir", dir |-> d])
  \/ Add(d) \in todo
  \/ Read(Parent[d]) \in todo

AllCovered == lost \/ walkCut \/ \A d \in tree \ {Root} : Covered(d)

FileInQueue == \E i \in 1 .. Len(queue) : queue[i].op = "file"

\* What was noticed is loaded, or an event, the timer or a reload stands for it.
AllPending ==
  \/ lost \/ closed \/ pc \in {"off", "failed", "hung", "done"}
  \/ FileInQueue
  \/ IF pc = "reload" THEN noticed <= scanned
                      ELSE ~reloadOk \/ timer # "nil" \/ noticed <= loaded

\* Where the parts of the state go together.
Aligned ==
  /\ pc \notin {"start", "walk"} => todo = {}
  /\ pc = "off" => watches = {} /\ noticed = 0
  /\ pc \in {"off", "start", "failed"} => timer = "nil"
  /\ closed => watches = {}
  /\ timerC = (timer # "nil")
  /\ timer = "stopped" => pc = "done"
  /\ stop = "stopped" => pc \in {"done", "failed"}

IInv == WatchTypeOK /\ Aligned /\ AllCovered /\ AllPending

(***************************************************************************)
(* Queues.                                                                 *)
(***************************************************************************)

\* What was in a queue still is when an event is added, and so is the event.
LEMMA AppendKeeps ==
  ASSUME NEW S, NEW q \in Seq(S), NEW e \in S
  PROVE  /\ Append(q, e) \in Seq(S)
         /\ Len(Append(q, e)) = Len(q) + 1
         /\ \A i \in 1 .. Len(q) : i \in 1 .. Len(Append(q, e)) /\ Append(q, e)[i] = q[i]
         /\ Len(Append(q, e)) \in 1 .. Len(Append(q, e))
         /\ Append(q, e)[Len(Append(q, e))] = e
  OBVIOUS

\* What was in a queue still is when the head is taken, or was the head.
LEMMA TailKeeps ==
  ASSUME NEW S, NEW q \in Seq(S), q # <<>>
  PROVE  /\ Tail(q) \in Seq(S) /\ Head(q) \in S
         /\ Len(Tail(q)) = Len(q) - 1
         /\ \A i \in 1 .. Len(q) :
              \/ q[i] = Head(q)
              \/ (i - 1) \in 1 .. Len(Tail(q)) /\ Tail(q)[i - 1] = q[i]
  OBVIOUS

\* A report loses no event but the one the kernel drops, and says so.
LEMMA ReportKeeps ==
  ASSUME WatchTypeOK, NEW d \in Dirs, NEW e \in Events, Report(d, e)
  PROVE  /\ queue' \in Seq(Events) /\ Len(queue') <= MaxQueue
         /\ lost' \in BOOLEAN
         /\ lost => lost'
         /\ \A x : InQueue(x) => InQueue(x)'
         /\ FileInQueue => FileInQueue'
         /\ d \in watches /\ ~closed /\ ~lost' => InQueue(e)'
<1>1. /\ queue \in Seq(Events) /\ Len(queue) <= MaxQueue /\ lost \in BOOLEAN
      /\ MaxQueue \in Nat /\ Len(queue) \in Nat
  BY DEF WatchTypeOK
<1>2. CASE UNCHANGED <<queue, lost>> /\ (d \notin watches \/ closed)
  BY <1>1, <1>2 DEF InQueue, FileInQueue
<1>3. CASE queue' = Append(queue, e) /\ lost' = lost /\ Len(queue) < MaxQueue
  <2>1. /\ queue' \in Seq(Events)
        /\ Len(queue') = Len(queue) + 1
        /\ \A i \in 1 .. Len(queue) : i \in 1 .. Len(queue') /\ queue'[i] = queue[i]
        /\ Len(queue') \in 1 .. Len(queue') /\ queue'[Len(queue')] = e
    BY <1>1, <1>3, AppendKeeps
  <2>2. InQueue(e)'
    BY <2>1 DEF InQueue
  <2>3. ASSUME NEW x, InQueue(x) PROVE InQueue(x)'
    BY <2>1, <2>3 DEF InQueue
  <2>4. FileInQueue => FileInQueue'
    BY <2>1 DEF FileInQueue
  <2>. QED  BY <1>1, <1>3, <2>1, <2>2, <2>3, <2>4
<1>4. CASE lost' = TRUE /\ queue' = queue
  BY <1>1, <1>4 DEF InQueue, FileInQueue
<1>. QED  BY <1>2, <1>3, <1>4 DEF Report

(***************************************************************************)
(* The invariant is inductive.  The steps come in four groups.             *)
(***************************************************************************)

\* The first state.
LEMMA InitInv == WatchInit => IInv
<1>. SUFFICES ASSUME WatchInit PROVE IInv
  OBVIOUS
<1>1. WatchTypeOK
  <2>1. queue \in Seq(Events) /\ Len(queue) <= MaxQueue
    BY DEF WatchInit
  <2>2. {noticed, scanned, loaded} \subseteq 0 .. ops /\ ops \in 0 .. MaxOps
    BY DEF WatchInit
  <2>3. {timerC, ctxDone, closed, reloadOk, lost, walkCut} \subseteq BOOLEAN
    BY DEF WatchInit
  <2>4. /\ tree \subseteq Dirs /\ full \subseteq tree /\ watches \subseteq Dirs
        /\ todo \subseteq [do : {"add", "read"}, dir : Dirs]
    BY DEF WatchInit
  <2>. QED  BY <2>1, <2>2, <2>3, <2>4 DEF WatchInit, WatchTypeOK
<1>2. Aligned /\ AllCovered /\ AllPending
  BY DEF WatchInit, Aligned, AllCovered, AllPending, FileInQueue
<1>. QED  BY <1>1, <1>2 DEF IInv

\* A file operation is pending once it is noticed.
LEMMA FileOperationKeeps ==
  ASSUME IInv, NEW d \in Dirs, Operation, FileOperation(d),
         UNCHANGED <<pc, timerVars, reloadVars, stopVars>>
  PROVE  /\ noticed' \in 0 .. ops'
         /\ queue' \in Seq(Events) /\ Len(queue') <= MaxQueue
         /\ lost' \in BOOLEAN /\ (lost => lost')
         /\ \A x : InQueue(x) => InQueue(x)'
         /\ AllPending'
         /\ pc = "off" => noticed' = 0
<1>. DEFINE e == [op |-> "file", dir |-> d]
<1>1. e \in Events
  BY DEF Events
<1>2. WatchTypeOK /\ Report(d, e)
  BY DEF IInv, FileOperation
<1>3. /\ queue' \in Seq(Events) /\ Len(queue') <= MaxQueue /\ lost' \in BOOLEAN
      /\ lost => lost'
      /\ \A x : InQueue(x) => InQueue(x)'
      /\ FileInQueue => FileInQueue'
      /\ d \in watches /\ ~closed /\ ~lost' => InQueue(e)'
  BY <1>1, <1>2, ReportKeeps
<1>4. ops' = ops + 1 /\ ops \in Nat /\ noticed \in 0 .. ops
  BY <1>2 DEF WatchTypeOK, Operation
<1>5. noticed' \in 0 .. ops'
  BY <1>4 DEF FileOperation
<1>6. pc = "off" => noticed' = 0
  BY DEF IInv, Aligned, FileOperation
<1>7. AllPending'
  <2>1. CASE d \in watches /\ ~closed
    <3>1. InQueue(e)' => FileInQueue'
      BY DEF InQueue, FileInQueue
    <3>. QED  BY <2>1, <3>1, <1>3 DEF AllPending, stopVars
  <2>2. CASE ~(d \in watches /\ ~closed)
    <3>1. noticed' = noticed
      BY <2>2 DEF FileOperation
    <3>. QED  BY <3>1, <1>3 DEF IInv, AllPending, timerVars, reloadVars, stopVars
  <2>. QED  BY <2>1, <2>2
<1>. QED  BY <1>3, <1>5, <1>6, <1>7

LEMMA TreeInv ==
  ASSUME IInv, NEW d \in Dirs, Mkdir(d) \/ Change(d) \/ RemoveAll(d)
  PROVE  IInv'
<1>. USE DEF stopVars, timerVars, reloadVars, walkVars
<1>0. /\ tree \subseteq Dirs /\ full \subseteq tree /\ watches \subseteq Dirs
      /\ ops \in 0 .. MaxOps /\ {noticed, scanned, loaded} \subseteq 0 .. ops
      /\ MaxOps \in Nat
  BY DEF IInv, WatchTypeOK
<1>a. Operation => /\ ops' = ops + 1 /\ ops' \in 0 .. MaxOps
                   /\ {noticed, scanned, loaded} \subseteq 0 .. ops'
  BY <1>0 DEF Operation
<1>1. CASE Mkdir(d)
  <2>. DEFINE e == [op |-> "mkdir", dir |-> d]
  <2>1. e \in Events /\ Parent[d] \in Dirs /\ Report(Parent[d], e)
    BY <1>1 DEF Mkdir, Events
  <2>2. /\ queue' \in Seq(Events) /\ Len(queue') <= MaxQueue /\ lost' \in BOOLEAN
        /\ lost => lost'
        /\ \A x : InQueue(x) => InQueue(x)'
        /\ FileInQueue => FileInQueue'
        /\ Parent[d] \in watches /\ ~closed /\ ~lost' => InQueue(e)'
    BY <2>1, ReportKeeps DEF IInv
  <2>3. WatchTypeOK'
    BY <1>0, <1>1, <1>a, <2>2 DEF Mkdir, IInv, WatchTypeOK
  <2>4. Aligned'
    BY <1>1 DEF Mkdir, IInv, Aligned
  <2>5. AllCovered'
    <3>. SUFFICES ASSUME ~lost', ~walkCut', NEW c \in tree' \ {Root} PROVE Covered(c)'
      BY DEF AllCovered
    <3>1. closed => watches = {}
      BY DEF IInv, Aligned
    <3>2. CASE c = d
      BY <1>1, <2>2, <3>1, <3>2 DEF Mkdir, Covered
    <3>3. CASE c # d
      <4>1. Covered(c)
        BY <1>1, <2>2, <3>3 DEF Mkdir, IInv, AllCovered
      <4>. QED  BY <1>1, <2>2, <4>1 DEF Mkdir, Covered
    <3>. QED  BY <3>2, <3>3
  <2>6. AllPending'
    BY <1>1, <2>2 DEF Mkdir, IInv, AllPending
  <2>. QED  BY <2>3, <2>4, <2>5, <2>6 DEF IInv
<1>2. CASE Change(d)
  <2>1. /\ noticed' \in 0 .. ops'
        /\ queue' \in Seq(Events) /\ Len(queue') <= MaxQueue
        /\ lost' \in BOOLEAN /\ (lost => lost')
        /\ \A x : InQueue(x) => InQueue(x)'
        /\ AllPending'
        /\ pc = "off" => noticed' = 0
    BY <1>2, FileOperationKeeps DEF Change
  <2>2. WatchTypeOK'
    BY <1>0, <1>2, <1>a, <2>1 DEF Change, IInv, WatchTypeOK
  <2>3. Aligned'
    BY <1>2, <2>1 DEF Change, IInv, Aligned
  <2>4. AllCovered'
    BY <1>2, <2>1 DEF Change, IInv, AllCovered, Covered
  <2>. QED  BY <2>1, <2>2, <2>3, <2>4 DEF IInv
<1>3. CASE RemoveAll(d)
  <2>1. /\ noticed' \in 0 .. ops'
        /\ queue' \in Seq(Events) /\ Len(queue') <= MaxQueue
        /\ lost' \in BOOLEAN /\ (lost => lost')
        /\ \A x : InQueue(x) => InQueue(x)'
        /\ AllPending'
        /\ pc = "off" => noticed' = 0
    <3>1. CASE d \in full
      BY <1>3, <3>1, FileOperationKeeps DEF RemoveAll
    <3>2. CASE d \notin full
      <4>1. UNCHANGED <<noticed, queue, lost>>
        BY <1>3, <3>2 DEF RemoveAll
      <4>2. AllPending'
        BY <1>3, <4>1 DEF RemoveAll, IInv, AllPending, FileInQueue
      <4>. QED  BY <1>0, <1>3, <1>a, <4>1, <4>2 DEF RemoveAll, IInv, WatchTypeOK, Aligned, InQueue
    <3>. QED  BY <3>1, <3>2
  <2>2. WatchTypeOK'
    BY <1>0, <1>3, <1>a, <2>1 DEF RemoveAll, IInv, WatchTypeOK
  <2>3. Aligned'
    BY <1>3, <2>1 DEF RemoveAll, IInv, Aligned
  <2>4. AllCovered'
    BY <1>3, <2>1 DEF RemoveAll, IInv, AllCovered, Covered
  <2>. QED  BY <2>1, <2>2, <2>3, <2>4 DEF IInv
<1>. QED  BY <1>1, <1>2, <1>3

\* The timer, Start and the walk.
LEMMA WalkInv ==
  ASSUME IInv, Start \/ TimerFires \/ WalkStep
  PROVE  IInv'
<1>. USE DEF treeVars, kernelVars, stopVars, timerVars, reloadVars, walkVars
<1>1. CASE Start
  <2>1. WatchTypeOK'
    BY <1>1 DEF Start, IInv, WatchTypeOK, Add
  <2>2. Aligned'
    BY <1>1 DEF Start, IInv, Aligned
  <2>3. AllCovered'
    BY <1>1 DEF Start, IInv, Aligned, AllCovered, Covered
  <2>4. AllPending'
    BY <1>1 DEF Start, IInv, WatchTypeOK, Aligned, AllPending
  <2>. QED  BY <2>1, <2>2, <2>3, <2>4 DEF IInv
<1>2. CASE TimerFires
  <2>1. WatchTypeOK' /\ Aligned'
    BY <1>2 DEF TimerFires, IInv, WatchTypeOK, Aligned
  <2>2. AllCovered' /\ AllPending'
    BY <1>2 DEF TimerFires, IInv, AllCovered, Covered, InQueue, AllPending, FileInQueue
  <2>. QED  BY <2>1, <2>2 DEF IInv
<1>3. CASE WalkEnds
  <2>1. WatchTypeOK' /\ Aligned'
    BY <1>3 DEF WalkEnds, Walking, IInv, WatchTypeOK, Aligned
  <2>2. AllCovered'
    BY <1>3 DEF WalkEnds, IInv, AllCovered, Covered, InQueue
  <2>3. AllPending'
    BY <1>3 DEF WalkEnds, Walking, IInv, AllPending, FileInQueue
  <2>. QED  BY <2>1, <2>2, <2>3 DEF IInv
<1>4. ASSUME NEW d \in Dirs, WalkAdd(d) PROVE IInv'
  <2>1. WatchTypeOK'
    BY <1>4 DEF WalkAdd, IInv, WatchTypeOK, Read
  <2>2. Aligned'
    BY <1>4 DEF WalkAdd, Walking, IInv, Aligned
  <2>3. AllCovered'
    <3>. SUFFICES ASSUME ~lost, ~walkCut, NEW c \in tree \ {Root}, Covered(c) PROVE Covered(c)'
      BY <1>4 DEF WalkAdd, IInv, AllCovered
    <3>1. \A x, y : Add(x) # Read(y) /\ (Add(x) = Add(y) => x = y)
      BY DEF Add, Read
    <3>2. CASE d \in Ignored
      BY <1>4, <3>1, <3>2 DEF WalkAdd, Covered, InQueue
    <3>3. CASE d \notin Ignored
      BY <1>4, <3>1, <3>3 DEF WalkAdd, Covered, InQueue
    <3>. QED  BY <3>2, <3>3
  <2>4. AllPending'
    BY <1>4 DEF WalkAdd, IInv, AllPending, FileInQueue
  <2>. QED  BY <2>1, <2>2, <2>3, <2>4 DEF IInv
<1>5. ASSUME NEW d \in Dirs, WalkRead(d) PROVE IInv'
  <2>1. WatchTypeOK'
    BY <1>5 DEF WalkRead, Children, IInv, WatchTypeOK, Add
  <2>2. Aligned'
    BY <1>5 DEF WalkRead, Walking, IInv, Aligned
  <2>3. AllCovered'
    <3>. SUFFICES ASSUME ~lost, ~walkCut, NEW c \in tree \ {Root}, Covered(c) PROVE Covered(c)'
      BY <1>5 DEF WalkRead, IInv, AllCovered
    <3>1. \A x, y : Add(x) # Read(y) /\ (Read(x) = Read(y) => x = y)
      BY DEF Add, Read
    <3>2. Parent[c] = d => Add(c) \in todo'
      BY <1>5 DEF WalkRead, Children
    <3>. QED  BY <1>5, <3>1, <3>2 DEF WalkRead, Covered, InQueue
  <2>4. AllPending'
    BY <1>5 DEF WalkRead, IInv, AllPending, FileInQueue
  <2>. QED  BY <2>1, <2>2, <2>3, <2>4 DEF IInv
<1>6. ASSUME NEW d \in Dirs, WalkFails(d) PROVE IInv'
  <2>0. <<>> \in Seq(Events) /\ Len(<<>>) <= MaxQueue
    OBVIOUS
  <2>1. WatchTypeOK'
    BY <1>6, <2>0 DEF WalkFails, IInv, WatchTypeOK
  <2>2. Aligned'
    BY <1>6 DEF WalkFails, Walking, IInv, Aligned
  <2>3. AllCovered'
    BY <1>6 DEF WalkFails, Walking, IInv, AllCovered, Covered
  <2>4. AllPending'
    BY <1>6 DEF WalkFails, Walking, IInv, AllPending, FileInQueue
  <2>. QED  BY <2>1, <2>2, <2>3, <2>4 DEF IInv
<1>. QED  BY <1>1, <1>2, <1>3, <1>4, <1>5, <1>6 DEF WalkStep

\* The select of the goroutine.
LEMMA LoopInv ==
  ASSUME IInv, LoopStep
  PROVE  IInv'
<1>. USE DEF treeVars, kernelVars, stopVars, timerVars, reloadVars, walkVars
<1>0. /\ queue \in Seq(Events) /\ Len(queue) <= MaxQueue
      /\ <<>> \in Seq(Events) /\ Len(<<>>) <= MaxQueue
      /\ ops \in Nat
  BY DEF IInv, WatchTypeOK
<1>a. ASSUME queue # <<>>, queue' = Tail(queue)
      PROVE  /\ queue' \in Seq(Events) /\ Len(queue') <= MaxQueue
             /\ Head(queue) \in Events
             /\ \A x : InQueue(x) => x = Head(queue) \/ InQueue(x)'
             /\ FileInQueue => Head(queue).op = "file" \/ FileInQueue'
  <2>1. /\ queue' \in Seq(Events) /\ Head(queue) \in Events
        /\ Len(queue') = Len(queue) - 1
        /\ \A i \in 1 .. Len(queue) :
             \/ queue[i] = Head(queue)
             \/ (i - 1) \in 1 .. Len(queue') /\ queue'[i - 1] = queue[i]
    BY <1>0, <1>a, TailKeeps
  <2>2. Len(queue') <= MaxQueue
    BY <1>0, <2>1
  <2>3. ASSUME NEW x, InQueue(x) PROVE x = Head(queue) \/ InQueue(x)'
    BY <2>1, <2>3 DEF InQueue
  <2>4. ASSUME FileInQueue PROVE Head(queue).op = "file" \/ FileInQueue'
    <3>1. PICK i \in 1 .. Len(queue) : queue[i].op = "file"
      BY <2>4 DEF FileInQueue
    <3>. QED  BY <2>1, <3>1 DEF FileInQueue
  <2>. QED  BY <2>1, <2>2, <2>3, <2>4
<1>1. CASE TakeFileEvent
  <2>1. WatchTypeOK'
    BY <1>1, <1>a DEF TakeFileEvent, HasEvent, Debounce, IInv, WatchTypeOK
  <2>2. Aligned'
    BY <1>1 DEF TakeFileEvent, HasEvent, Debounce, IInv, Aligned
  <2>3. AllCovered'
    <3>1. \A d : [op |-> "mkdir", dir |-> d] # Head(queue)
      BY <1>1 DEF TakeFileEvent
    <3>. QED  BY <1>1, <1>a, <3>1 DEF TakeFileEvent, HasEvent, IInv, AllCovered, Covered
  <2>4. AllPending'
    BY <1>1 DEF TakeFileEvent, HasEvent, Debounce, AllPending
  <2>. QED  BY <2>1, <2>2, <2>3, <2>4 DEF IInv
<1>2. CASE TakeDirEvent
  <2>1. Head(queue).dir \in Dirs /\ Head(queue).op = "mkdir"
    BY <1>2, <1>a DEF TakeDirEvent, HasEvent, Events
  <2>2. WatchTypeOK'
    BY <1>2, <1>a, <2>1 DEF TakeDirEvent, HasEvent, IInv, WatchTypeOK, Add
  <2>3. Aligned'
    BY <1>2 DEF TakeDirEvent, HasEvent, IInv, Aligned
  <2>4. AllCovered'
    <3>. SUFFICES ASSUME ~lost, ~walkCut, NEW c \in tree \ {Root}, Covered(c) PROVE Covered(c)'
      BY <1>2 DEF TakeDirEvent, IInv, AllCovered
    <3>1. todo = {}
      BY <1>2 DEF TakeDirEvent, HasEvent, IInv, Aligned
    <3>2. CASE [op |-> "mkdir", dir |-> c] = Head(queue)
      <4>1. Head(queue).dir = c
        BY <3>2
      <4>. QED  BY <1>2, <4>1 DEF TakeDirEvent, Covered
    <3>3. CASE [op |-> "mkdir", dir |-> c] # Head(queue)
      BY <1>2, <1>a, <3>1, <3>3 DEF TakeDirEvent, HasEvent, Covered
    <3>. QED  BY <3>2, <3>3
  <2>5. AllPending'
    BY <1>2, <1>a, <2>1 DEF TakeDirEvent, HasEvent, IInv, AllPending
  <2>. QED  BY <2>2, <2>3, <2>4, <2>5 DEF IInv
<1>3. CASE BeginReload
  <2>0. scanned' \in 0 .. ops
    BY <1>0, <1>3 DEF BeginReload
  <2>1. WatchTypeOK'
    BY <1>3, <2>0 DEF BeginReload, IInv, WatchTypeOK
  <2>a. Aligned'
    BY <1>3 DEF BeginReload, IInv, Aligned
  <2>2. AllCovered'
    BY <1>3 DEF BeginReload, IInv, AllCovered, Covered, InQueue
  <2>3. AllPending'
    BY <1>0, <1>3 DEF BeginReload, IInv, WatchTypeOK, AllPending
  <2>. QED  BY <2>1, <2>a, <2>2, <2>3 DEF IInv
<1>4. CASE EndReload
  <2>1. WatchTypeOK' /\ Aligned'
    BY <1>4 DEF EndReload, IInv, WatchTypeOK, Aligned
  <2>2. AllCovered'
    BY <1>4 DEF EndReload, IInv, AllCovered, Covered, InQueue
  <2>3. AllPending'
    BY <1>4 DEF EndReload, IInv, AllPending, FileInQueue
  <2>. QED  BY <2>1, <2>2, <2>3 DEF IInv
<1>5. CASE HangReload
  <2>1. WatchTypeOK' /\ Aligned'
    BY <1>5 DEF HangReload, IInv, WatchTypeOK, Aligned
  <2>2. AllCovered' /\ AllPending'
    BY <1>5 DEF HangReload, IInv, AllCovered, Covered, InQueue, AllPending
  <2>. QED  BY <2>1, <2>2 DEF IInv
<1>6. CASE LoopCancelled
  <2>1. WatchTypeOK' /\ Aligned'
    BY <1>0, <1>6 DEF LoopCancelled, CloseWatcher, IInv, WatchTypeOK, Aligned
  <2>2. AllCovered' /\ AllPending'
    BY <1>6 DEF LoopCancelled, CloseWatcher, AllCovered, Covered, AllPending
  <2>. QED  BY <2>1, <2>2 DEF IInv
<1>7. CASE LoopClosed
  <2>1. WatchTypeOK' /\ Aligned'
    BY <1>7 DEF LoopClosed, IInv, WatchTypeOK, Aligned
  <2>2. AllCovered' /\ AllPending'
    BY <1>7 DEF LoopClosed, IInv, AllCovered, Covered, InQueue, AllPending
  <2>. QED  BY <2>1, <2>2 DEF IInv
<1>. QED  BY <1>1, <1>2, <1>3, <1>4, <1>5, <1>6, <1>7 DEF LoopStep

\* The calls of the program that stop the strategy.
LEMMA StopInv ==
  ASSUME IInv, Cancel \/ StopCloses \/ StopReturns \/ StopTimesOut
  PROVE  IInv'
<1>. USE DEF treeVars, kernelVars, stopVars, timerVars, reloadVars, walkVars
<1>1. <<>> \in Seq(Events) /\ Len(<<>>) <= MaxQueue
  OBVIOUS
<1>2. CASE StopCloses
  <2>1. WatchTypeOK' /\ Aligned'
    BY <1>1, <1>2 DEF StopCloses, CloseWatcher, IInv, WatchTypeOK, Aligned
  <2>2. AllCovered'
    BY <1>2 DEF StopCloses, CloseWatcher, IInv, AllCovered, Covered, InQueue
  <2>3. AllPending'
    BY <1>2 DEF StopCloses, CloseWatcher, AllPending
  <2>. QED  BY <2>1, <2>2, <2>3 DEF IInv
<1>3. CASE Cancel \/ StopReturns \/ StopTimesOut
  <2>a. Aligned'
    BY <1>3 DEF Cancel, StopReturns, StopTimesOut, IInv, Aligned
  <2>b. ASSUME Cancel PROVE WatchTypeOK'
    BY <2>b DEF Cancel, IInv, WatchTypeOK
  <2>c. ASSUME StopReturns \/ StopTimesOut PROVE WatchTypeOK'
    BY <2>c DEF StopReturns, StopTimesOut, IInv, WatchTypeOK
  <2>1. WatchTypeOK'
    BY <1>3, <2>b, <2>c
  <2>2. AllCovered' /\ AllPending'
    BY <1>3 DEF Cancel, StopReturns, StopTimesOut, IInv, AllCovered, Covered, InQueue,
                AllPending, FileInQueue
  <2>. QED  BY <2>a, <2>1, <2>2 DEF IInv
<1>. QED  BY <1>2, <1>3

\* Nothing happens.
LEMMA StutterInv == IInv /\ UNCHANGED watchVars => IInv'
<1>. SUFFICES ASSUME IInv, UNCHANGED watchVars PROVE IInv'
  OBVIOUS
<1>. USE DEF watchVars, treeVars, kernelVars, stopVars, timerVars, reloadVars, walkVars
<1>1. WatchTypeOK' /\ Aligned'
  BY DEF IInv, WatchTypeOK, Aligned
<1>2. AllCovered' /\ AllPending'
  BY DEF IInv, AllCovered, Covered, InQueue, AllPending, FileInQueue
<1>. QED  BY <1>1, <1>2 DEF IInv

LEMMA NextInv == IInv /\ [WatchNext]_watchVars => IInv'
BY TreeInv, WalkInv, LoopInv, StopInv, StutterInv DEF WatchNext, WatchStep, TreeStep

(***************************************************************************)
(* The theorems.                                                           *)
(***************************************************************************)

\* The invariant holds for every directory tree and every bound.
THEOREM InvariantHolds == WatchSpec => []IInv
<1>1. WatchInit => IInv
  BY InitInv
<1>2. IInv /\ [WatchNext]_watchVars => IInv'
  BY NextInv
<1>. QED  BY <1>1, <1>2, PTL DEF WatchSpec

\* watch.go: the types of the goroutine's state, and no select on a timer that
\* is gone.
THEOREM TypesHold == WatchSpec => []WatchTypeOK
<1>1. IInv => WatchTypeOK
  BY DEF IInv
<1>. QED  BY <1>1, InvariantHolds, PTL

\* watch.go:155 and 179-190: no directory escapes a walk that was not cut,
\* because a directory is added before its entries are read.
THEOREM NoDirectoryEscapes == WatchSpec => []SubdirectoriesAreWatched
<1>1. IInv => SubdirectoriesAreWatched
  <2>. SUFFICES ASSUME IInv, pc = "select", queue = <<>>, ~lost, ~walkCut,
                       NEW d \in tree \ {Root}, Parent[d] \in watches
                PROVE  d \in watches \cup Ignored
    BY DEF SubdirectoriesAreWatched
  <2>1. todo = {} /\ Covered(d)
    BY DEF IInv, Aligned, AllCovered
  <2>. QED  BY <2>1 DEF Covered, InQueue
<1>. QED  BY <1>1, InvariantHolds, PTL

\* watch.go:128-171: no report of an edit gets lost between the queue, the
\* debounce timer and the reload.
THEOREM NoNoticeIsLost == WatchSpec => []NoticedIsLoaded
<1>1. IInv => NoticedIsLoaded
  <2>. SUFFICES ASSUME IInv, Quiet, ~lost, reloadOk PROVE noticed <= loaded
    BY DEF NoticedIsLoaded
  <2>1. timer = "nil"
    BY DEF IInv, Aligned, Quiet
  <2>2. ~FileInQueue
    BY DEF Quiet, FileInQueue
  <2>. QED  BY <2>1, <2>2 DEF IInv, AllPending, Quiet
<1>. QED  BY <1>1, InvariantHolds, PTL

\* watch.go:89-109: once Stop has returned without an error no reload runs.
THEOREM StopIsFinal == WatchSpec => StoppedSiteStays
<1>1. IInv /\ [WatchNext]_watchVars =>
        [(stop = "stopped") => UNCHANGED <<scanned, loaded>>]_watchVars
  <2>. SUFFICES ASSUME IInv, WatchNext, stop = "stopped"
                PROVE  UNCHANGED <<scanned, loaded>>
    OBVIOUS
  <2>. USE DEF treeVars, kernelVars, stopVars, timerVars, reloadVars, walkVars
  <2>1. pc \in {"done", "failed"}
    BY DEF IInv, Aligned
  <2>2. CASE Start \/ Cancel \/ StopCloses \/ TimerFires \/ StopReturns \/ StopTimesOut
    BY <2>2 DEF Start, Cancel, StopCloses, TimerFires, StopReturns, StopTimesOut
  <2>3. CASE TreeStep
    BY <2>3 DEF TreeStep, Mkdir, Change, RemoveAll
  <2>4. CASE WalkStep
    BY <2>1, <2>4 DEF WalkStep, WalkEnds, WalkAdd, WalkRead, WalkFails, Walking
  <2>5. CASE LoopStep
    BY <2>1, <2>5 DEF LoopStep, TakeFileEvent, TakeDirEvent, HasEvent, BeginReload, EndReload,
                      HangReload, LoopCancelled, LoopClosed
  <2>. QED  BY <2>2, <2>3, <2>4, <2>5 DEF WatchNext, WatchStep
<1>. QED  BY <1>1, InvariantHolds, PTL DEF WatchSpec, StoppedSiteStays
=============================================================================
