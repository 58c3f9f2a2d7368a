--------------------------- MODULE LifecycleProofs ---------------------------
(***************************************************************************)
(* The process uses the watch strategy as WatchSpec allows, so that what is*)
(* proved of the strategy holds in the process; and it reports success only*)
(* after a shutdown.                                                       *)
(***************************************************************************)
EXTENDS Lifecycle, WatchProofs

USE LifecycleAssumption DEF LifecycleAssumption

\* Where main, the servers and the shutdown goroutine are, relative to each
\* other.  A channel that main has emptied held no error, or the process ended.
InStep ==
  /\ handler \notin {"none", "launched", "listening"} => signalled
  /\ handler \in {"draining", "done"} => stop \in {"stopped", "timeout"}
  /\ \A s \in Servers : shut[s] => handler \in {"draining", "done"}
  /\ errCh["site"] \in {"nil", "gone"} => shut["site"] \/ exit # "no"
  /\ exit = "no" => main # "gone"
  /\ main \in {"boot", "starting"} => handler = "none"

\* What TypeOK says of the Boolean flags.
Flags ==
  /\ signalled \in BOOLEAN /\ readyCh \in BOOLEAN
  /\ ready \in BOOLEAN /\ expired \in BOOLEAN
  /\ ready => readyCh

ProcessInv == TypeOK /\ InStep /\ CleanExitIsShutdown

(***************************************************************************)
(* Every step of the process is one of the strategy's or leaves it alone.  *)
(***************************************************************************)
LEMMA StepRefines == [Next]_vars => [WatchNext]_watchVars
<1>. SUFFICES ASSUME [Next]_vars PROVE [WatchNext]_watchVars
  OBVIOUS
<1>1. CASE UNCHANGED vars
  BY <1>1 DEF vars
<1>2. CASE WatchStep
  BY <1>2 DEF WatchNext
<1>3. CASE MainStep \/ StartupTimesOut
  BY <1>3 DEF MainStep, StartupTimesOut, StartSync, Launch, BecomeReady, StartupFails,
              TakeErr, MainReturns, WatchNext
<1>4. CASE ServerStep \/ ServerFault \/ Accept \/ Answer
  BY <1>4 DEF ServerStep, ServerFault, Accept, Answer, NoOps, Listen, ListenFails,
              ServeCloses, ServeFails, Returns
<1>5. CASE Signal \/ HandlerStep
  BY <1>5 DEF Signal, HandlerStep, Notify, HandleSignal, CancelSync, StopSync, ShutDown,
              ShutServer, ShutdownExpires, Drained, WatchNext
<1>. QED  BY <1>1, <1>2, <1>3, <1>4, <1>5 DEF Next

\* main.go:258-300: the process runs the watch strategy the way its
\* specification allows: it starts it once, cancels its context, stops it once.
THEOREM ProcessRunsStrategy == Spec => WatchSpec
<1>1. Init => WatchInit
  BY DEF Init
<1>2. [Next]_vars => [WatchNext]_watchVars
  BY StepRefines
<1>. QED  BY <1>1, <1>2, PTL DEF Spec, WatchSpec

\* main.go:283-293 and watch.go:89-109: once the shutdown goroutine got no error
\* from Stop, no reload changes the site while requests are drained.
THEOREM DrainingSiteStays == Spec => StoppedSiteStays
BY ProcessRunsStrategy, StopIsFinal, PTL

\* watch.go:128-171, in the process: no noticed edit is lost.
THEOREM ProcessLosesNoNotice == Spec => []NoticedIsLoaded
BY ProcessRunsStrategy, NoNoticeIsLost, PTL

(***************************************************************************)
(* The process.                                                            *)
(***************************************************************************)
LEMMA ProcessInitInv == Init => ProcessInv
<1>. SUFFICES ASSUME Init PROVE ProcessInv
  OBVIOUS
<1>1. WatchTypeOK
  BY InitInv DEF Init, IInv
<1>2. TypeOK
  <2>1. Flags
    BY Zenon DEF Init, Flags
  <2>. QED  BY <1>1, <2>1 DEF Init, TypeOK, Servers, Flags
<1>3. InStep /\ CleanExitIsShutdown
  BY DEF Init, InStep, CleanExitIsShutdown, WatchInit, Servers
<1>. QED  BY <1>2, <1>3 DEF ProcessInv

\* A step of the strategy alone never takes back that Stop has returned.
LEMMA StopStays ==
  ASSUME stop \in {"stopped", "timeout"}, [WatchNext]_watchVars
  PROVE  stop' = stop
<1>. USE DEF treeVars, kernelVars, stopVars, timerVars, reloadVars, walkVars
<1>1. CASE UNCHANGED watchVars
  BY <1>1 DEF watchVars
<1>2. CASE Start \/ Cancel \/ StopCloses \/ TimerFires \/ StopReturns \/ StopTimesOut
  BY <1>2 DEF Start, Cancel, StopCloses, TimerFires, StopReturns, StopTimesOut
<1>3. CASE TreeStep
  BY <1>3 DEF TreeStep, Mkdir, Change, RemoveAll
<1>4. CASE WalkStep
  BY <1>4 DEF WalkStep, WalkEnds, WalkAdd, WalkRead, WalkFails
<1>5. CASE LoopStep
  BY <1>5 DEF LoopStep, TakeFileEvent, TakeDirEvent, BeginReload, EndReload,
              HangReload, LoopCancelled, LoopClosed
<1>. QED  BY <1>1, <1>2, <1>3, <1>4, <1>5 DEF WatchNext, WatchStep

\* The step of the process and its types.
LEMMA ProcessTypes ==
  ASSUME TypeOK, WatchTypeOK', [Next]_vars
  PROVE  TypeOK'
<1>. USE DEF TypeOK, Servers
<1>1. CASE UNCHANGED vars
  BY <1>1 DEF vars, processVars, serverVars
<1>2. CASE WatchStep /\ UNCHANGED <<processVars, serverVars>>
  BY <1>2 DEF processVars, serverVars
<1>3. CASE MainStep \/ StartupTimesOut
  <2>1. CASE StartSync
    BY <2>1 DEF StartSync, serverVars
  <2>a. CASE BecomeReady
    <3>1. Flags'
      BY <2>a, Zenon DEF BecomeReady, Flags
    <3>. QED  BY <2>a, <3>1 DEF BecomeReady, Flags
  <2>2. CASE Launch
    BY <2>2 DEF Launch
  <2>3. CASE StartupFails \/ StartupTimesOut \/ MainReturns
    BY <2>3 DEF StartupFails, StartupTimesOut, MainReturns, Exit, serverVars
  <2>4. ASSUME NEW s \in Servers, TakeErr(s) PROVE TypeOK'
    BY <2>4 DEF TakeErr, Exit
  <2>. QED  BY <1>3, <2>1, <2>a, <2>2, <2>3, <2>4 DEF MainStep
<1>4. CASE ServerStep \/ ServerFault \/ Accept \/ Answer
  <2>1. CASE Accept \/ Answer
    BY <2>1 DEF Accept, Answer, processVars
  <2>2. CASE NoOps
    BY <2>2 DEF NoOps, processVars
  <2>3. ASSUME NEW s \in Servers, Listen(s) PROVE TypeOK'
    BY <2>3 DEF Listen, processVars
  <2>4. ASSUME NEW s \in Servers, ServeCloses(s) \/ ListenFails(s) \/ ServeFails(s) PROVE TypeOK'
    BY <2>4 DEF ServeCloses, ListenFails, ServeFails, Returns, processVars
  <2>. QED  BY <1>4, <2>1, <2>2, <2>3, <2>4 DEF ServerStep, ServerFault
<1>5. CASE Signal \/ HandlerStep
  <2>1. CASE Signal \/ HandleSignal \/ ShutdownExpires
    <3>1. Flags'
      <4>1. CASE Signal
        BY <4>1, Zenon DEF Signal, serverVars, Flags
      <4>2. CASE HandleSignal
        BY <4>2, Zenon DEF HandleSignal, Flags
      <4>3. CASE ShutdownExpires
        BY <4>3, Zenon DEF ShutdownExpires, Flags
      <4>. QED  BY <2>1, <4>1, <4>2, <4>3
    <3>. QED  BY <2>1, <3>1 DEF Signal, HandleSignal, ShutdownExpires, Exit, serverVars, Flags
  <2>2. CASE Notify \/ CancelSync \/ StopSync \/ ShutDown \/ Drained
    BY <2>2 DEF Notify, CancelSync, StopSync, ShutDown, Drained, serverVars
  <2>3. ASSUME NEW s \in Servers, ShutServer(s) PROVE TypeOK'
    BY <2>3 DEF ShutServer, processVars
  <2>. QED  BY <1>5, <2>1, <2>2, <2>3 DEF HandlerStep
<1>. QED  BY <1>1, <1>2, <1>3, <1>4, <1>5 DEF Next

LEMMA ProcessStepInv ==
  ASSUME ProcessInv, WatchTypeOK', [Next]_vars
  PROVE  ProcessInv'
<1>1. TypeOK'
  BY ProcessTypes DEF ProcessInv
<1>2. stop \in {"stopped", "timeout"} => stop' = stop
  BY StopStays, StepRefines
<1>. SUFFICES InStep' /\ CleanExitIsShutdown'
  BY <1>1 DEF ProcessInv
<1>. USE DEF ProcessInv, InStep, CleanExitIsShutdown, TypeOK, Servers
<1>3. CASE UNCHANGED vars
  BY <1>2, <1>3 DEF vars, processVars, serverVars, watchVars, stopVars
<1>4. CASE exit = "no" /\ WatchStep /\ UNCHANGED <<processVars, serverVars>>
  BY <1>2, <1>4 DEF processVars, serverVars
<1>5. CASE exit = "no" /\ (MainStep \/ StartupTimesOut)
  <2>1. CASE StartSync
    BY <1>2, <1>5, <2>1 DEF StartSync, serverVars
  <2>5. CASE Launch
    BY <1>2, <1>5, <2>5 DEF Launch
  <2>6. CASE BecomeReady
    BY <1>2, <1>5, <2>6 DEF BecomeReady
  <2>2. CASE StartupFails \/ StartupTimesOut
    BY <1>2, <1>5, <2>2 DEF StartupFails, StartupTimesOut, Exit, serverVars
  <2>3. CASE MainReturns
    BY <1>2, <1>5, <2>3 DEF MainReturns, Exit, serverVars
  <2>4. ASSUME NEW s \in Servers, TakeErr(s) PROVE InStep' /\ CleanExitIsShutdown'
    BY <1>2, <1>5, <2>4 DEF TakeErr, Exit
  <2>. QED  BY <1>5, <2>1, <2>2, <2>3, <2>4, <2>5, <2>6 DEF MainStep
<1>6. CASE exit = "no" /\ (ServerStep \/ ServerFault \/ Accept \/ Answer)
  <2>1. CASE Accept \/ Answer \/ NoOps
    BY <1>2, <1>6, <2>1 DEF Accept, Answer, NoOps, processVars
  <2>2. ASSUME NEW s \in Servers, Listen(s) PROVE InStep' /\ CleanExitIsShutdown'
    BY <1>2, <1>6, <2>2 DEF Listen, processVars
  <2>3. ASSUME NEW s \in Servers, ServeCloses(s) \/ ListenFails(s) \/ ServeFails(s)
        PROVE  InStep' /\ CleanExitIsShutdown'
    BY <1>2, <1>6, <2>3 DEF ServeCloses, ListenFails, ServeFails, Returns, processVars
  <2>. QED  BY <1>6, <2>1, <2>2, <2>3 DEF ServerStep, ServerFault
<1>7. CASE exit = "no" /\ (Signal \/ HandlerStep)
  <2>1. CASE Signal \/ Notify \/ HandleSignal \/ CancelSync \/ StopSync
    BY <1>2, <1>7, <2>1 DEF Signal, Notify, HandleSignal, CancelSync, StopSync, Exit, serverVars
  <2>2. CASE ShutDown \/ ShutdownExpires \/ Drained
    BY <1>2, <1>7, <2>2 DEF ShutDown, ShutdownExpires, Drained, serverVars
  <2>3. ASSUME NEW s \in Servers, ShutServer(s) PROVE InStep' /\ CleanExitIsShutdown'
    BY <1>2, <1>7, <2>3 DEF ShutServer, processVars
  <2>. QED  BY <1>7, <2>1, <2>2, <2>3 DEF HandlerStep
<1>. QED  BY <1>3, <1>4, <1>5, <1>6, <1>7 DEF Next

\* main.go:258-361: the state main, its shutdown goroutine and the two servers
\* can reach, as one inductive invariant.
THEOREM ProcessInvariant == Spec => []ProcessInv
<1>1. Init => ProcessInv
  BY ProcessInitInv
<1>2. ProcessInv /\ WatchTypeOK' /\ [Next]_vars => ProcessInv'
  BY ProcessStepInv
<1>3. Spec => []WatchTypeOK
  BY ProcessRunsStrategy, TypesHold, PTL
<1>. QED  BY <1>1, <1>2, <1>3, PTL DEF Spec

\* main.go:258-361: the types of the process, and readiness only with a bound
\* port.
THEOREM ProcessTypesHold == Spec => []TypeOK
<1>1. ProcessInv => TypeOK
  BY DEF ProcessInv
<1>. QED  BY <1>1, ProcessInvariant, PTL

\* main.go:268-361: success is reported only after the signal, Stop and the
\* shutdown of the listener.
THEOREM SuccessMeansShutdown == Spec => []CleanExitIsShutdown
<1>1. ProcessInv => CleanExitIsShutdown
  BY DEF ProcessInv
<1>. QED  BY <1>1, ProcessInvariant, PTL
=============================================================================
