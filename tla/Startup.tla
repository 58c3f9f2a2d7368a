------------------------------ MODULE Startup -------------------------------
(***************************************************************************)
(* main of cmd/blogflow/main.go up to the moment the site is served: it    *)
(* loads the configuration, scans the content, parses the theme, builds    *)
(* the server and the sync strategy, registers the routes and binds the    *)
(* ports, and gives up at the first of these that fails.                   *)
(*                                                                         *)
(* The content repository, when one is configured, is module GitPoll; the  *)
(* goroutines of the two servers and the shutdown are module Lifecycle.    *)
(***************************************************************************)
EXTENDS Settings

CONSTANTS
  Files,    \* what site.yaml may say
  Envs,     \* what the environment may say
  CliPorts, \* values of --port; 0: not given
  NoCaps    \* no search index was built

ASSUME StartupAssumption ==
  \A f \in Files : ~f.refused => DOMAIN f.over \subseteq FileFields

VARIABLES
  file,    \* site.yaml
  env,     \* the environment, fixed for the life of the process
  cliPort, \* --port, likewise
  site,    \* what the overlay holds: its version, whether two files clash
           \* and whether the theme parses; it changes once main is done
  main,    \* the step main is at; "serving" or "failed" at the end
  failed,  \* the step it failed at
  loaded,  \* the loader's current configuration
  cfg,     \* main's own, with --port: what the server was built from
  routes,  \* routes[s]: the endpoints registered on a listener
  shown,   \* the version of the content the site shows; 0: none
  caps     \* the limits the last search index was built with

startVars == <<main, failed, cfg, routes>>
inputVars == <<file, env, cliPort, site>>
siteVars == <<loaded, shown, caps>>

Sites == [version : {1}, clashing : BOOLEAN, themed : BOOLEAN]

StartupInit ==
  /\ file \in Files /\ env \in Envs /\ cliPort \in CliPorts
  /\ site \in Sites
  /\ main = "load" /\ failed = "no"
  /\ loaded = Default /\ cfg = Default
  /\ routes = [s \in {"site", "ops"} |-> {}]
  /\ shown = 0 /\ caps = NoCaps

GoOn(step, next) == main = step /\ main' = next /\ failed' = failed
GiveUp(step) == main = step /\ main' = "failed" /\ failed' = step
Step(step, next, works) == IF works THEN GoOn(step, next) ELSE GiveUp(step)

\* --port is copied over a configuration that is already validated.
LoadConfig ==
  /\ Step("load", "scan", Loads(file, env))
  /\ IF Loads(file, env)
     THEN /\ loaded' = Merged(file, env)
          /\ cfg' = [loaded' EXCEPT !.port = IF cliPort > 0 THEN cliPort ELSE @]
     ELSE UNCHANGED <<loaded, cfg>>
  /\ UNCHANGED <<inputVars, routes, shown, caps>>

\* The overlay refuses a path that is not clean or leads through .git, and
\* two files with one slug end a scan.
ScanWorks(c) == ~site.clashing /\ c.postsDir = "clean" /\ c.pagesDir = "clean"

ScanContent ==
  /\ Step("scan", "theme", ScanWorks(cfg))
  /\ UNCHANGED <<inputVars, cfg, routes, siteVars>>

ParseTheme ==
  /\ Step("theme", "server", site.themed)
  /\ UNCHANGED <<inputVars, cfg, routes, siteVars>>

\* server.New, whose resolver panics on a proxy that is no address, and the
\* snapshot that the handlers start from.
OpsEndpoints == {"metrics", "health"}
CapsOf(c) == <<c.maxDocs, c.maxTokens, c.maxIndexBytes>>

BuildServer ==
  LET works == NoAddress \notin cfg.trustedProxyCIDRs
  IN  /\ Step("server", "strategy", works)
      /\ IF works
         THEN /\ routes' = [routes EXCEPT !["ops"] =
                              IF EffectiveOpsPort(cfg) > 0 THEN OpsEndpoints ELSE {}]
              /\ shown' = site.version
              /\ caps' = IF cfg.searchEnabled THEN CapsOf(cfg) ELSE NoCaps
         ELSE UNCHANGED <<routes, shown, caps>>
      /\ UNCHANGED <<inputVars, cfg, loaded>>

StrategyWorks(c) ==
  \/ c.strategy \in {"watch", "sidecar"}
  \/ (c.strategy = "webhook" /\ c.path # "bare" /\ c.secretLength >= 32)
  \/ (c.strategy = "poll" /\ c.pollInterval >= 30)

CreateStrategy ==
  /\ Step("strategy", "routes", StrategyWorks(cfg))
  /\ UNCHANGED <<inputVars, cfg, routes, siteVars>>

\* RegisterRoutes and http.ServeMux panic on a webhook path they cannot take.
SiteEndpoints(c) ==
  {"home", "posts", "list", "post", "page", "tag", "sitemap", "static"}
    \cup (IF c.feedEnabled THEN {"feed"} ELSE {})
    \cup (IF c.searchEnabled THEN {"search"} ELSE {})
    \cup (IF c.privateHealth THEN {} ELSE {"health"})
    \cup (IF EffectiveOpsPort(c) = 0 THEN {"metrics"} ELSE {})
    \cup (IF c.strategy = "webhook" THEN {"webhook"} ELSE {})

RegisterRoutes ==
  LET works == cfg.strategy = "webhook" => cfg.path \notin {"blank", "broken"}
  IN  /\ Step("routes", "listen", works)
      /\ routes' = IF works THEN [routes EXCEPT !["site"] = SiteEndpoints(cfg)]
                            ELSE routes
      /\ UNCHANGED <<inputVars, cfg, siteVars>>

\* Both ports are free when the process starts: a bind fails for a port that
\* does not exist or that the other listener has.
Listen ==
  /\ Step("listen", "serving",
          cfg.port \in 1 .. LastPort /\ cfg.port # EffectiveOpsPort(cfg))
  /\ UNCHANGED <<inputVars, cfg, routes, siteVars>>

Start ==
  \/ LoadConfig \/ ScanContent \/ ParseTheme \/ BuildServer
  \/ CreateStrategy \/ RegisterRoutes \/ Listen

\* What a listener answers: publicHealthGuard stands in front of the routes.
Answers(s, endpoint) ==
  /\ endpoint \in routes[s]
  /\ ~ /\ s = "site" /\ cfg.privateHealth
       /\ \/ endpoint = "health"
          \/ endpoint = "webhook" /\ cfg.path = "probe"

(***************************************************************************)
(* Properties.                                                             *)
(***************************************************************************)
\* The configurations that pass Validate and still cannot be served.
Unservable(c) ==
  \/ {c.postsDir, c.pagesDir} # {"clean"}
  \/ (c.strategy = "webhook" /\ c.path \in {"blank", "broken"})
  \/ c.port \notin 1 .. LastPort \/ c.port = EffectiveOpsPort(c)

\* Once the configuration is validated, content and theme that are in order
\* are served: NewClientIPResolver, NewStrategy and RegisterRoutes ask for
\* nothing that Validate did not check, the named exceptions apart.
StartsWhenValidated ==
  /\ main = "failed" /\ failed # "load"
  /\ site.themed /\ ~site.clashing
  => Unservable(cfg)

\* A site that is served can be probed and scraped at exactly one place, not
\* at the public one if health is private, and its webhook can be reached
\* unless its path is that of a private probe.
EndpointsAreReachable ==
  main = "serving" =>
    /\ \E s \in {"site", "ops"} : Answers(s, "health")
    /\ cfg.privateHealth => ~Answers("site", "health")
    /\ Answers("site", "metrics") # Answers("ops", "metrics")
    /\ (cfg.strategy = "webhook") =>
         \/ Answers("site", "webhook")
         \/ cfg.privateHealth /\ cfg.path = "probe"

\* An index is never built with limits that are none (Build takes a limit
\* that is not positive for no limit), not even after search was switched
\* off in a site.yaml that a reload took up.
CapsAreLimits ==
  caps # NoCaps =>
    caps[1] \in 1 .. MostDocs /\ caps[2] >= 1 /\ caps[3] >= OneMiB

\* What Validate lets through is served, served whole and within bounds.
ValidatedServes == StartsWhenValidated /\ EndpointsAreReachable /\ CapsAreLimits
=============================================================================
