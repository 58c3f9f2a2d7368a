------------------------------ MODULE Lifecycle ------------------------------
(***************************************************************************)
(* The life of the process: main and its shutdown goroutine in             *)
(* cmd/blogflow/main.go, the two listeners of internal/server/server.go,   *)
(* and the watch strategy that main starts and stops.                      *)
(*                                                                         *)
(* main has built everything and is about to start the strategy.  The      *)
(* package net/http is external: Serve returns as soon as Shutdown begins, *)
(* Shutdown returns once no request is left or its context runs out.       *)
(***************************************************************************)
EXTENDS Watch

CONSTANT
  MaxRequests  \* bound on the requests in flight

ASSUME LifecycleAssumption == MaxRequests \in Nat

Servers == {"site", "ops"}

VARIABLES
  main,      \* where main is
  exit,      \* how the process ended: no, 0, 1, signal
  handler,   \* where the shutdown goroutine is
  signalled, \* SIGINT or SIGTERM has come
  serve,     \* serve[s]: where the goroutine of Start or StartOps is
  errCh,     \* errCh[s]: what its channel holds; gone once main has it
  readyCh,   \* readyCh is closed
  ready,     \* the flag behind /readyz
  shut,      \* shut[s]: Shutdown has been called
  expired,   \* its 30 seconds are over
  requests   \* the requests the site is answering

processVars == <<main, exit, handler, signalled>>
serverVars == <<serve, errCh, readyCh, ready, shut, expired, requests>>
vars == <<watchVars, processVars, serverVars>>

Init ==
  /\ WatchInit
  /\ main = "boot" /\ exit = "no"
  /\ handler = "none" /\ signalled = FALSE
  /\ serve = [s \in Servers |-> "off"]
  /\ errCh = [s \in Servers |-> "empty"]
  /\ readyCh = FALSE /\ ready = FALSE
  /\ shut = [s \in Servers |-> FALSE] /\ expired = FALSE
  /\ requests = 0

Exit(code) == main' = "gone" /\ exit' = code

(***************************************************************************)
(* main.                                                                   *)
(***************************************************************************)
StartSync ==
  /\ main = "boot"
  /\ main' = "starting"
  /\ Start
  /\ UNCHANGED <<exit, handler, signalled, serverVars>>

\* Whether or not the strategy started, main goes on, with the goroutines of
\* the shutdown and of the two servers.  The configuration has an ops port or
\* has none.
Launch ==
  /\ main = "starting"
  /\ pc \notin {"off", "start"}
  /\ main' = "startup"
  /\ handler' = "launched"
  /\ \E port \in {"listen", "none"} : serve' = [site |-> "listen", ops |-> port]
  /\ UNCHANGED <<watchVars, exit, signalled, errCh, readyCh, ready, shut, expired, requests>>

\* The select at startup.  The ops channel is in it only with an ops port.
\* Mutant: the flag is set without waiting for the listener.
BecomeReadyUnbound ==
  /\ main = "startup"
  /\ ready' = TRUE
  /\ main' = "wait"
  /\ UNCHANGED <<watchVars, exit, handler, signalled, serve, errCh, readyCh, shut, expired, requests>>

BecomeReady ==
  /\ main = "startup"
  /\ readyCh
  /\ ready' = TRUE
  /\ main' = "wait"
  /\ UNCHANGED <<watchVars, exit, handler, signalled, serve, errCh, readyCh, shut, expired, requests>>

StartupFails ==
  /\ main = "startup"
  /\ \E s \in Servers : errCh[s] # "empty" /\ serve[s] # "none"
  /\ Exit("1")
  /\ UNCHANGED <<watchVars, handler, signalled, serverVars>>

StartupTimesOut ==
  /\ main = "startup"
  /\ Exit("1")
  /\ UNCHANGED <<watchVars, handler, signalled, serverVars>>

\* Mutant: the site's channel is read to the end first.
TakeErrInOrder(s) ==
  /\ main = "wait"
  /\ errCh[s] \in {"nil", "error"}
  /\ s = "ops" => errCh["site"] = "gone"
  /\ errCh' = [errCh EXCEPT ![s] = "gone"]
  /\ IF errCh[s] = "error" THEN Exit("1") ELSE UNCHANGED <<main, exit>>
  /\ UNCHANGED <<watchVars, handler, signalled, serve, readyCh, ready, shut, expired, requests>>

\* One turn of the last loop.
TakeErr(s) ==
  /\ main = "wait"
  /\ errCh[s] \in {"nil", "error"}
  /\ errCh' = [errCh EXCEPT ![s] = "gone"]
  /\ IF errCh[s] = "error" THEN Exit("1") ELSE UNCHANGED <<main, exit>>
  /\ UNCHANGED <<watchVars, handler, signalled, serve, readyCh, ready, shut, expired, requests>>

\* main returns, and the process ends with it: whatever the shutdown
\* goroutine is doing.
MainReturns ==
  /\ main = "wait"
  /\ \A s \in Servers : errCh[s] = "gone"
  /\ Exit("0")
  /\ UNCHANGED <<watchVars, handler, signalled, serverVars>>

(***************************************************************************)
(* The servers.                                                            *)
(***************************************************************************)

\* Start or StartOps listens; the site's listener closes readyCh.  Serve then returns at once if Shutdown came first.
Listen(s) ==
  /\ serve[s] = "listen"
  /\ serve' = [serve EXCEPT ![s] = "serving"]
  /\ readyCh' = (readyCh \/ s = "site")
  /\ UNCHANGED <<watchVars, processVars, errCh, ready, shut, expired, requests>>

Returns(s, err) ==
  /\ serve' = [serve EXCEPT ![s] = "returned"]
  /\ errCh' = [errCh EXCEPT ![s] = err]
  /\ UNCHANGED <<watchVars, processVars, readyCh, ready, shut, expired, requests>>

ListenFails(s) == serve[s] = "listen" /\ Returns(s, "error")

\* StartOps without an ops port returns nil.
NoOps ==
  /\ serve["ops"] = "none"
  /\ errCh["ops"] = "empty"
  /\ errCh' = [errCh EXCEPT !["ops"] = "nil"]
  /\ UNCHANGED <<watchVars, processVars, serve, readyCh, ready, shut, expired, requests>>

\* ErrServerClosed is no error.
ServeCloses(s) == serve[s] = "serving" /\ shut[s] /\ Returns(s, "nil")

\* Mutant: any error of Serve is taken for ErrServerClosed.
ServeFailsSilently(s) == serve[s] = "serving" /\ ~shut[s] /\ Returns(s, "nil")

ServeFails(s) == serve[s] = "serving" /\ ~shut[s] /\ Returns(s, "error")

Accept ==
  /\ serve["site"] = "serving" /\ ~shut["site"]
  /\ requests < MaxRequests
  /\ requests' = requests + 1
  /\ UNCHANGED <<watchVars, processVars, serve, errCh, readyCh, ready, shut, expired>>

Answer ==
  /\ requests > 0
  /\ requests' = requests - 1
  /\ UNCHANGED <<watchVars, processVars, serve, errCh, readyCh, ready, shut, expired>>

(***************************************************************************)
(* The shutdown goroutine.                                                 *)
(***************************************************************************)
Notify ==
  /\ handler = "launched"
  /\ handler' = "listening"
  /\ UNCHANGED <<watchVars, main, exit, signalled, serverVars>>

\* Before signal.Notify the signal kills the process.
Signal ==
  /\ ~signalled
  /\ signalled' = TRUE
  /\ IF handler \in {"none", "launched"} THEN Exit("signal") ELSE UNCHANGED <<main, exit>>
  /\ UNCHANGED <<watchVars, handler, serverVars>>

HandleSignal ==
  /\ handler = "listening"
  /\ signalled
  /\ handler' = "unready"
  /\ ready' = FALSE
  /\ UNCHANGED <<watchVars, main, exit, signalled, serve, errCh, readyCh, shut, expired, requests>>

CancelSync ==
  /\ handler = "unready"
  /\ handler' = "cancelled"
  /\ Cancel
  /\ UNCHANGED <<main, exit, signalled, serverVars>>

StopSync ==
  /\ handler = "cancelled"
  /\ handler' = "stopping"
  /\ StopCloses
  /\ UNCHANGED <<main, exit, signalled, serverVars>>

\* A Stop that failed is logged.
ShutDown ==
  /\ handler = "stopping"
  /\ stop \in {"stopped", "timeout"}
  /\ handler' = "draining"
  /\ UNCHANGED <<watchVars, main, exit, signalled, serverVars>>

\* The two servers are shut down concurrently.
ShutServer(s) ==
  /\ handler = "draining"
  /\ ~shut[s]
  /\ shut' = [shut EXCEPT ![s] = TRUE]
  /\ UNCHANGED <<watchVars, processVars, serve, errCh, readyCh, ready, expired, requests>>

ShutdownExpires ==
  /\ handler = "draining" /\ \A s \in Servers : shut[s]
  /\ expired' = TRUE
  /\ handler' = "done"
  /\ UNCHANGED <<watchVars, main, exit, signalled, serve, errCh, readyCh, ready, shut, requests>>

Drained ==
  /\ handler = "draining" /\ \A s \in Servers : shut[s]
  /\ requests = 0
  /\ handler' = "done"
  /\ UNCHANGED <<watchVars, main, exit, signalled, serverVars>>

MainStep ==
  \/ StartSync \/ Launch
  \/ BecomeReady \/ StartupFails
  \/ (\E s \in Servers : TakeErr(s)) \/ MainReturns

ServerStep == NoOps \/ \E s \in Servers : Listen(s) \/ ServeCloses(s)

ServerFault == \E s \in Servers : ListenFails(s) \/ ServeFails(s)

HandlerStep ==
  \/ Notify \/ HandleSignal \/ CancelSync \/ StopSync \/ ShutDown
  \/ (\E s \in Servers : ShutServer(s)) \/ ShutdownExpires \/ Drained

\* A process that has ended does nothing.
Next ==
  /\ exit = "no"
  /\ \/ WatchStep /\ UNCHANGED <<processVars, serverVars>>
     \/ MainStep \/ StartupTimesOut
     \/ ServerStep \/ ServerFault \/ Accept \/ Answer
     \/ Signal \/ HandlerStep

(***************************************************************************)
(* Goroutines run on and timeouts come; the walk of Start is a call of     *)
(* main's.  Nothing makes a reload return, an answer come to its end, a    *)
(* server fail or a signal come.                                           *)
(***************************************************************************)
Proceeds(step) == exit = "no" /\ step /\ UNCHANGED <<processVars, serverVars>>

ProcessFairness ==
  /\ WF_vars(exit = "no" /\ MainStep)
  /\ WF_vars(exit = "no" /\ ServerStep)
  /\ WF_vars(exit = "no" /\ HandlerStep)
  /\ WF_vars(Proceeds(pc = "start" /\ WalkStep))
  /\ WF_vars(Proceeds(StopReturns \/ StopTimesOut))

Spec == Init /\ [][Next]_vars

FairSpec == Spec /\ ProcessFairness

\* The types; and the server is ready only once the site's port is bound.
TypeOK ==
  /\ WatchTypeOK
  /\ main \in {"boot", "starting", "startup", "wait", "gone"}
  /\ exit \in {"no", "0", "1", "signal"}
  /\ handler \in {"none", "launched", "listening", "unready", "cancelled", "stopping", "draining", "done"}
  /\ serve \in [Servers -> {"off", "none", "listen", "serving", "returned"}]
  /\ errCh \in [Servers -> {"empty", "nil", "error", "gone"}]
  /\ shut \in [Servers -> BOOLEAN]
  /\ signalled \in BOOLEAN /\ readyCh \in BOOLEAN
  /\ ready \in BOOLEAN /\ expired \in BOOLEAN
  /\ requests \in 0 .. MaxRequests
  /\ ready => readyCh

\* main.go:344-360 and 268-300: the process reports success only at the end of
\* a shutdown: the signal came, the strategy was told to stop and answered or
\* was given up, and then the site's listener was shut down.
CleanExitIsShutdown ==
  exit = "0" => signalled /\ stop \in {"stopped", "timeout"} /\ shut["site"]

\* main.go:340-343: a failure of either server ends the process, without
\* waiting for the other one.
ServerFailureEndsProcess == \A s \in Servers : errCh[s] = "error" ~> exit # "no"

\* main.go:284-298: once the signal has come the process ends, even when a
\* reload hangs and a request is never answered.
SignalEndsProcess == signalled ~> exit # "no"

\* server.go:232 and main.go:276: the shutdown is graceful.  A process that
\* ends because of the signal has answered the requests it had accepted, or
\* waited 30 seconds for them.
DrainsBeforeExit == signalled /\ exit = "0" => requests = 0 \/ expired
=============================================================================
