------------------------------ MODULE Webhook -------------------------------
(***************************************************************************)
(* The webhook of internal/gitops/webhook.go in the process that Startup   *)
(* started: deliveries are authenticated, charged to the budget of their   *)
(* client and run the content reloader of cmd/blogflow/reload.go, several  *)
(* at a time.  The handler keeps the settings of the start; the reloader   *)
(* reads the configuration anew.                                           *)
(*                                                                         *)
(* recent, calm and base are history variables: no guard reads them.       *)
(***************************************************************************)
EXTENDS Startup, RateLimiter

CONSTANTS
  Deliveries, \* goroutines of the server that handle deliveries
  Requests,   \* what may be delivered
  Edits,      \* what site.yaml may be changed to
  Junk,       \* a forwarded-for hop that is no address
  MaxRequests, \* bound on the requests that are charged
  MaxTime,    \* bound on the clock
  MaxEdits    \* bound on the changes of the content and of site.yaml

ASSUME WebhookAssumption ==
  /\ Junk \notin Addresses /\ MaxTime \in Nat
  /\ \A req \in Requests :
       /\ req.remote \in Addresses /\ req.hops \in Seq(Addresses \cup {Junk})
       /\ req.realIP \in Addresses \cup {Junk}

VARIABLES
  now,      \* the clock
  charged,  \* how many requests were charged to a limiter
  failures, \* the limiter charged on unauthenticated rejections
  verified, \* the limiter charged on verified deliveries
  pc,       \* pc[d]: where delivery d is
  outcome,  \* outcome[d]: what came of its reload
  scanned,  \* scanned[d]: the version its scan found
  edits,    \* how often the content or site.yaml was changed
  recent,   \* history: recent[c]: the verified grants of c still in the
            \* window, since c last lost its place to another client
  base,     \* history: the version when d's scan began
  calm      \* history: no other delivery has been reloading along with d

hookVars == <<failures, verified, pc, outcome, scanned, recent, base, calm>>
vars == <<startVars, inputVars, siteVars, now, charged, edits, hookVars>>

Init ==
  /\ StartupInit
  /\ now = 0 /\ charged = 0 /\ edits = 0
  /\ failures = NewLimiter /\ verified = NewLimiter
  /\ pc = [d \in Deliveries |-> "idle"]
  /\ outcome = [d \in Deliveries |-> "none"]
  /\ scanned = [d \in Deliveries |-> 0]
  /\ recent = [c \in Addresses |-> << >>]
  /\ base = [d \in Deliveries |-> 0]
  /\ calm = [d \in Deliveries |-> FALSE]

(***************************************************************************)
(* Who sends a delivery: ClientIPResolver of internal/server/clientip.go.  *)
(* A request has its peer's address, the non-empty hops of X-Forwarded-For *)
(* and X-Real-IP.                                                          *)
(***************************************************************************)
Trusted(a) == a # Junk /\ a \in cfg.trustedProxyCIDRs

\* The right-most hop that is not a trusted proxy; behind one that is no
\* address the walk ends at the hop it came from.
Forwarded(req) ==
  LET untrusted == {i \in 1 .. Len(req.hops) : ~Trusted(req.hops[i])}
      last == CHOOSE i \in untrusted : \A j \in untrusted : j <= i
  IN  CASE untrusted = {} -> req.hops[1]
        [] untrusted # {} /\ req.hops[last] # Junk -> req.hops[last]
        [] OTHER -> IF last < Len(req.hops) THEN req.hops[last + 1] ELSE req.remote

ClientIP(req) ==
  CASE ~Trusted(req.remote) -> req.remote
    [] Trusted(req.remote) /\ req.hops # << >> -> Forwarded(req)
    [] OTHER -> IF req.realIP # Junk THEN req.realIP ELSE req.remote

(***************************************************************************)
(* The checks, in their order; the first that fails decides.               *)
(***************************************************************************)
Unauthenticated ==
  {"forbidden_ip", "missing_signature", "invalid_signature", "body_too_large",
   "body_read_error"}

Authenticity(req) ==
  IF cfg.allowedIPs # {} /\ ClientIP(req) \notin cfg.allowedIPs THEN "forbidden_ip"
  ELSE IF req.signature = "missing" THEN "missing_signature"
  ELSE IF req.signature = "malformed" THEN "invalid_signature"
  ELSE IF req.body = "large" THEN "body_too_large"
  ELSE IF req.body = "broken" THEN "body_read_error"
  ELSE IF req.signature = "wrong" THEN "invalid_signature"
  ELSE "authentic"

Interest(req) ==
  IF cfg.allowedEvents # {} /\ req.event \notin cfg.allowedEvents THEN "event_rejected"
  ELSE IF cfg.branchFilter = "" THEN "wanted"
  ELSE IF req.ref = "garbled" THEN "invalid_payload"
  ELSE IF req.ref # cfg.branchFilter THEN "branch_skipped"
  ELSE "wanted"

Verdict(req) ==
  IF Authenticity(req) # "authentic" THEN Authenticity(req) ELSE Interest(req)

(***************************************************************************)
(* The steps of a delivery.                                                *)
(***************************************************************************)
Receiving(d) == main = "serving" /\ Answers("site", "webhook") /\ pc[d] = "idle"

Answer(d, label) ==
  /\ pc' = [pc EXCEPT ![d] = "answered"]
  /\ outcome' = [outcome EXCEPT ![d] = label]

RejectFromOneBudget(d, req) ==
  /\ Receiving(d)
  /\ Verdict(req) \in Unauthenticated
  /\ verified' = Charge(verified, ClientIP(req), cfg.rateLimit, now)
  /\ UNCHANGED <<failures, recent, pc, base, calm>>

\* A delivery that does not reload is answered at once with the label of its
\* verdict, or with 429 and no line in the log if its client is out of budget;
\* the model does not keep that answer.  One that is authentic but not wanted
\* is charged to no budget, so it changes nothing.
Reject(d, req) ==
  /\ Receiving(d)
  /\ Verdict(req) \in Unauthenticated
  /\ failures' = Charge(failures, ClientIP(req), cfg.rateLimit, now)
  /\ UNCHANGED <<verified, recent, pc, base, calm>>

Refuse(d, req) ==
  /\ Receiving(d)
  /\ Verdict(req) = "wanted"
  /\ ~Allowed(verified, ClientIP(req), cfg.rateLimit, now)
  /\ verified' = Charge(verified, ClientIP(req), cfg.rateLimit, now)
  /\ UNCHANGED <<failures, recent, pc, base, calm>>

Reloading(d) == pc[d] \in {"scan", "publish"}

Accept(d, req) ==
  /\ Receiving(d)
  /\ Verdict(req) = "wanted"
  /\ LET c == ClientIP(req)
     IN  /\ Allowed(verified, c, cfg.rateLimit, now)
         /\ verified' = Charge(verified, c, cfg.rateLimit, now)
         /\ recent' = [e \in Addresses |->
                         IF e \in Displaced(verified, c, now) THEN << >>
                         ELSE IF e = c THEN Append(recent[c], now) ELSE recent[e]]
  /\ pc' = [pc EXCEPT ![d] = "scan"]
  /\ base' = [base EXCEPT ![d] = site.version]
  /\ calm' = [e \in Deliveries |->
                IF e = d THEN \A o \in Deliveries : ~Reloading(o)
                         ELSE calm[e] /\ ~Reloading(e)]
  /\ UNCHANGED failures

ScanSwallowed(d) ==
  /\ pc[d] = "scan"
  /\ loaded' = IF Loads(file, env) THEN Merged(file, env) ELSE loaded
  /\ scanned' = [scanned EXCEPT ![d] = IF ScanWorks(cfg) THEN site.version ELSE 0]
  /\ pc' = [pc EXCEPT ![d] = "publish"]
  /\ UNCHANGED <<shown, caps, outcome, failures, verified, recent, base, calm>>

\* The reloader takes the configuration, of which one that does not load leaves
\* the last good one in force, and scans the content with the directories of
\* the start.  Its own steps are those of module Reload.
Scan(d) ==
  /\ pc[d] = "scan"
  /\ loaded' = IF Loads(file, env) THEN Merged(file, env) ELSE loaded
  /\ IF ScanWorks(cfg)
     THEN /\ scanned' = [scanned EXCEPT ![d] = site.version]
          /\ pc' = [pc EXCEPT ![d] = "publish"]
          /\ outcome' = outcome
     ELSE Answer(d, "reload_failed") /\ scanned' = scanned
  /\ UNCHANGED <<shown, caps, failures, verified, recent, base, calm>>

\* What is published is what was scanned, with search if the process began
\* with it and with the limits the loader has now, whoever comes first.
Publish(d) ==
  /\ pc[d] = "publish"
  /\ shown' = scanned[d]
  /\ caps' = IF cfg.searchEnabled THEN CapsOf(loaded) ELSE NoCaps
  /\ Answer(d, "ok")
  /\ scanned' = [scanned EXCEPT ![d] = 0]
  /\ UNCHANGED <<loaded, failures, verified, recent, base, calm>>

\* The sender has its answer.
Finish(d) ==
  /\ pc[d] = "answered"
  /\ pc' = [pc EXCEPT ![d] = "idle"]
  /\ outcome' = [outcome EXCEPT ![d] = "none"]
  /\ base' = [base EXCEPT ![d] = 0]
  /\ calm' = [calm EXCEPT ![d] = FALSE]
  /\ UNCHANGED <<siteVars, failures, verified, scanned, recent>>

Deliver(d) ==
  /\ \/ /\ \E req \in Requests :
             Reject(d, req) \/ Refuse(d, req) \/ Accept(d, req)
        /\ UNCHANGED <<siteVars, outcome, scanned>>
        /\ charged < MaxRequests /\ charged' = charged + 1
     \/ (Scan(d) \/ Publish(d) \/ Finish(d)) /\ charged' = charged
  /\ UNCHANGED <<startVars, inputVars, now, edits>>

(***************************************************************************)
(* The clock, and what others change on the disk.                          *)
(***************************************************************************)
Tick ==
  /\ main = "serving" /\ now < MaxTime
  /\ now' = now + 1
  /\ recent' = [c \in Addresses |-> LiveOnly(recent[c], now + 1)]
  /\ UNCHANGED <<startVars, inputVars, siteVars, charged, edits, failures, verified, pc,
                 outcome, scanned, base, calm>>

EditContent ==
  \E c \in BOOLEAN : site' = [site EXCEPT !.version = @ + 1, !.clashing = c]

EditSettings == file' \in Edits

Edit ==
  /\ main = "serving" /\ edits < MaxEdits
  /\ edits' = edits + 1
  /\ \/ EditContent /\ file' = file
     \/ EditSettings /\ site' = site
  /\ UNCHANGED <<startVars, env, cliPort, siteVars, now, charged, hookVars>>

Next ==
  \/ Start /\ UNCHANGED <<now, charged, edits, hookVars>>
  \/ \E d \in Deliveries : Deliver(d)
  \/ Tick \/ Edit

Spec == Init /\ [][Next]_vars

(***************************************************************************)
(* Properties.                                                             *)
(***************************************************************************)
\* A limiter's list and map: each client with an entry is on the list once,
\* and there are never more of them than defaultMaxClients.
Agrees(l) ==
  /\ NoDuplicates(l.lru)
  /\ \A c \in Addresses : Occurs(c, l.lru) <=> l.stamps[c] # << >>
  /\ Len(l.lru) <= MaxClients

\* No client is let through more than rate_limit times within a minute
\* (webhook.go:406-445), however its deliveries are spread over the window
\* and whatever other clients do, unless the limiter was full and dropped it:
\* at the limit, the next one would be refused.
BudgetHolds ==
  main = "serving" /\ cfg.strategy = "webhook" =>
    \A c \in Addresses :
      /\ Len(recent[c]) <= cfg.rateLimit
      /\ Len(recent[c]) = cfg.rateLimit => ~Allowed(verified, c, cfg.rateLimit, now)

\* A delivery that carries the secret and is wanted is turned away only when
\* as many of the same client were let through within the window: what others
\* send, behind the same proxy or under the same address, cannot use up the
\* verified budget (webhook.go:100-111).
SignedIsNotStarved ==
  main = "serving" /\ cfg.strategy = "webhook" =>
    \A c \in Addresses :
      ~Allowed(verified, c, cfg.rateLimit, now) => Len(recent[c]) = cfg.rateLimit

\* A delivery that is answered with 200 and that no other reload overlapped
\* has brought the content it found to the site, and later reloads do not
\* take it back (reload.go:97-160, handlers.go:114-117).
UnracedDeliveryIsShown ==
  \A d \in Deliveries :
    pc[d] = "answered" /\ outcome[d] = "ok" /\ calm[d] => shown >= base[d]
=============================================================================
