------------------------------ MODULE Settings ------------------------------
(***************************************************************************)
(* The configuration of internal/config: what Default gives, how site.yaml *)
(* and the environment are laid over it, and what Validate lets through.   *)
(*                                                                         *)
(* A text is kept as the kind the program tells apart: a path is "clean"   *)
(* (a valid path of an fs.FS), "unclean" (empty, or with a slash at its    *)
(* end), "git" (through .git), "absolute" or "dotted" (with ".."); a       *)
(* webhook path is "rooted", "probe" (that of a health check), "bare" (no  *)
(* leading slash), "blank" (with a space) or "broken" (rooted, but no      *)
(* pattern http.ServeMux takes).  Durations are seconds.                   *)
(***************************************************************************)
EXTENDS Integers, FiniteSets

Unset == -1          \* sync.poll_interval: ""
NotADuration == -2   \* sync.poll_interval: text that does not parse
NoAddress == "host" \* an entry of an address list that is neither IP nor CIDR

\* Bounds that Validate names or spells out.
LastPort == 65535
OneDay == 86400
TwoYears == 63072000
MostEntries == 100000
MostDocs == 1000000
OneMiB == 1048576

Default ==
  [port |-> 8080, opsPort |-> 0, metricsPort |-> 0, privateHealth |-> FALSE,
   readTimeout |-> 5, writeTimeout |-> 10, idleTimeout |-> 120,
   hstsMaxAge |-> TwoYears, trustedProxyCIDRs |-> {},
   baseURL |-> "http", homepage |-> "post_list",
   postsDir |-> "clean", pagesDir |-> "clean", mediaDir |-> "clean",
   postsPerPage |-> 10, dateFormat |-> "layout", summaryLength |-> 200,
   themePath |-> "",
   cacheEnabled |-> TRUE, cacheTTL |-> 3600, cacheMaxEntries |-> 1000,
   strategy |-> "watch", pollInterval |-> Unset, cloneDepth |-> 1,
   path |-> "rooted", secretLength |-> 0, allowedEvents |-> {"push"},
   branchFilter |-> "main", rateLimit |-> 10, maxBodySize |-> 0,
   allowedIPs |-> {},
   feedEnabled |-> TRUE, feedType |-> "atom", feedItems |-> 20,
   searchEnabled |-> FALSE, maxResults |-> 20, maxQueryLength |-> 128,
   minQueryLength |-> 2, maxQueryTerms |-> 32, excerptLength |-> 200,
   maxDocs |-> 10000, maxTokens |-> 2000000, maxIndexBytes |-> 64 * OneMiB]

Fields == DOMAIN Default

\* What the environment may set; the secret comes from nowhere else.
EnvFields ==
  {"baseURL", "port", "readTimeout", "writeTimeout", "idleTimeout",
   "cacheEnabled", "strategy", "secretLength", "rateLimit", "allowedIPs",
   "pollInterval", "cloneDepth", "feedType", "hstsMaxAge", "opsPort",
   "metricsPort", "privateHealth", "homepage", "postsDir", "pagesDir"}
FileFields == Fields \ {"secretLength"}

Override(base, over) ==
  [f \in DOMAIN base |-> IF f \in DOMAIN over THEN over[f] ELSE base[f]]

\* A layer over the defaults: what it sets, or that it cannot be read.  A
\* missing site.yaml sets nothing.  A file is refused for its size, for an
\* inline secret, an anchor or an alias, or because it does not decode; the
\* environment for text that is no number, truth value or duration, or for a
\* secret file that cannot be read.
Layer(over, refused) == [over |-> over, refused |-> refused]

Merged(file, env) == Override(Override(Default, file.over), env.over)

EffectiveOpsPort(cfg) == IF cfg.opsPort # 0 THEN cfg.opsPort ELSE cfg.metricsPort

(***************************************************************************)
(* Validate, section by section.                                           *)
(***************************************************************************)
PortsValid(cfg) ==
  LET ops == EffectiveOpsPort(cfg)
  IN  /\ cfg.port \in 1 .. LastPort
      /\ ops # 0 => ops \in 1 .. LastPort /\ ops # cfg.port
      /\ cfg.opsPort # 0 /\ cfg.metricsPort # 0 => cfg.opsPort = cfg.metricsPort

HealthAnywhere(cfg) == TRUE
HealthValid(cfg) == cfg.privateHealth => EffectiveOpsPort(cfg) # 0

ServerValid(cfg) ==
  /\ cfg.readTimeout > 0 /\ cfg.writeTimeout > 0 /\ cfg.idleTimeout > 0
  /\ cfg.hstsMaxAge \in 0 .. TwoYears
  /\ NoAddress \notin cfg.trustedProxyCIDRs

SiteValid(cfg) ==
  /\ cfg.baseURL \in {"http", "https"}
  /\ cfg.homepage \in {"", "post_list", "page", "static"}

\* filepath.IsAbs and a search for "..": weaker than fs.ValidPath.
Relative(p) == p \notin {"absolute", "dotted"}

ContentValid(cfg) ==
  /\ Relative(cfg.postsDir) /\ Relative(cfg.pagesDir) /\ Relative(cfg.mediaDir)
  /\ cfg.postsPerPage \in 1 .. 100
  /\ cfg.dateFormat # ""
  /\ cfg.summaryLength \in 50 .. 1000
  /\ Relative(cfg.themePath)

CacheValid(cfg) ==
  /\ cfg.cacheMaxEntries \in 0 .. MostEntries
  /\ cfg.cacheEnabled => cfg.cacheTTL \in 1 .. OneDay

PollValid(cfg) ==
  /\ cfg.pollInterval # Unset => cfg.pollInterval >= 30
  /\ cfg.strategy = "poll" => cfg.pollInterval # Unset

WebhookValid(cfg) ==
  /\ cfg.secretLength >= 32
  /\ cfg.allowedEvents # {}
  /\ cfg.allowedEvents \subseteq {"push", "ping", "pull_request", "release",
                                  "workflow_dispatch"}
  /\ cfg.path # "bare"
  /\ cfg.rateLimit \in 1 .. 100
  /\ cfg.maxBodySize \in 0 .. 10 * OneMiB
  /\ NoAddress \notin cfg.allowedIPs

SyncValid(cfg) ==
  /\ cfg.strategy \in {"watch", "webhook", "sidecar", "poll"}
  /\ PollValid(cfg)
  /\ cfg.cloneDepth >= 1
  /\ cfg.strategy = "webhook" => WebhookValid(cfg)

FeedValid(cfg) ==
  cfg.feedEnabled => cfg.feedType \in {"atom", "rss"} /\ cfg.feedItems \in 1 .. 100

\* The limits of an index, checked whether or not search is enabled: a
\* reload rebuilds with them for as long as it was enabled at the start.
CapsValid(cfg) ==
  /\ cfg.maxDocs \in 1 .. MostDocs
  /\ cfg.maxTokens >= 1
  /\ cfg.maxIndexBytes >= OneMiB

QueryValid(cfg) ==
  /\ cfg.maxResults \in 1 .. 100
  /\ cfg.minQueryLength \in 1 .. 16
  /\ cfg.maxQueryLength \in 8 .. 1024
  /\ cfg.maxQueryLength >= cfg.minQueryLength
  /\ cfg.maxQueryTerms \in 1 .. 128
  /\ cfg.excerptLength \in 50 .. 1000

SearchValid(cfg) == CapsValid(cfg) /\ QueryValid(cfg)

Valid(cfg) ==
  /\ PortsValid(cfg) /\ HealthValid(cfg) /\ ServerValid(cfg)
  /\ SiteValid(cfg) /\ ContentValid(cfg) /\ CacheValid(cfg)
  /\ SyncValid(cfg) /\ FeedValid(cfg) /\ SearchValid(cfg)

Loads(file, env) ==
  ~file.refused /\ ~env.refused /\ Valid(Merged(file, env))
=============================================================================
