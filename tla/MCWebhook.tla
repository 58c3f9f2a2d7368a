----------------------------- MODULE MCWebhook ------------------------------
(* Configurations that differ from the defaults in one setting, or in the   *)
(* few a webhook needs and one more.                                        *)
EXTENDS Webhook, TLC

Symmetry == Permutations(Deliveries)

NoFile == Layer(<< >>, FALSE)
Says(over) == Layer(over, FALSE)

\* Each setting at its bounds and just beyond them.
Odd ==
  {"port" :> v : v \in {0, 65535, 65536}}
    \cup {"opsPort" :> v : v \in {-1, 8080, 9090}}
    \cup {"readTimeout" :> 0, "writeTimeout" :> 0, "idleTimeout" :> 0}
    \cup {"hstsMaxAge" :> v : v \in {-1, 63072001}}
    \cup {"trustedProxyCIDRs" :> {NoAddress}, "trustedProxyCIDRs" :> {"proxy"}}
    \cup {"baseURL" :> "relative", "homepage" :> "page", "homepage" :> "nowhere"}
    \cup {d :> p : d \in {"postsDir", "pagesDir", "mediaDir", "themePath"},
                   p \in {"clean", "unclean", "git", "absolute", "dotted"}}
    \cup {"postsPerPage" :> v : v \in {0, 100, 101}}
    \cup {"dateFormat" :> ""}
    \cup {"summaryLength" :> v : v \in {49, 50, 1001}}
    \cup {"cacheTTL" :> v : v \in {0, 86401}}
    \cup {"cacheMaxEntries" :> v : v \in {-1, 0, 100001}}
    \cup {"strategy" :> v : v \in {"sidecar", "poll", "webhook", "push"}}
    \cup {"pollInterval" :> v : v \in {NotADuration, 29, 30}}
    \cup {"cloneDepth" :> 0, "feedType" :> "json", "feedEnabled" :> FALSE}
    \cup {"feedItems" :> v : v \in {0, 101}}
    \cup {"searchEnabled" :> TRUE, "maxResults" :> 0, "excerptLength" :> 49}
    \cup {"maxQueryLength" :> v : v \in {7, 1025}}
    \cup {"minQueryLength" :> v : v \in {0, 17}}
    \cup {"maxQueryTerms" :> 129, "maxDocs" :> 0, "maxTokens" :> 0}
    \cup {"maxIndexBytes" :> 1048575}

Pairs ==
  {("strategy" :> "poll") @@ ("pollInterval" :> v) : v \in {NotADuration, 29, 30}}
    \cup {("opsPort" :> 9090) @@ ("metricsPort" :> v) : v \in {8080, 9090}}
    \cup {("opsPort" :> 9090) @@ ("privateHealth" :> TRUE),
          ("metricsPort" :> 8080) @@ ("privateHealth" :> TRUE),
          ("cacheEnabled" :> FALSE) @@ ("cacheTTL" :> 0),
          ("feedEnabled" :> FALSE) @@ ("feedItems" :> 0),
          ("minQueryLength" :> 9) @@ ("maxQueryLength" :> 8)}

\* A webhook behind a proxy; the secret comes from the environment.
Hook(over) == over @@ ("strategy" :> "webhook") @@ ("rateLimit" :> 2)
                   @@ ("trustedProxyCIDRs" :> {"proxy"}) @@ ("opsPort" :> 9090)
Hooks ==
  {Hook(o) : o \in
     {"path" :> p : p \in {"rooted", "bare", "blank", "broken"}}
       \cup {"allowedEvents" :> {}, "allowedEvents" :> {"fork"}}
       \cup {"rateLimit" :> 0, "rateLimit" :> 101, "maxBodySize" :> 10485761}
       \cup {"allowedIPs" :> {NoAddress}}
       \cup {("path" :> "probe") @@ ("privateHealth" :> TRUE)}
       \cup {("searchEnabled" :> TRUE) @@ ("rateLimit" :> 1)
                @@ ("branchFilter" :> "") @@ ("allowedIPs" :> {"alice", "bob"})}}

MCFiles == {Says(o) : o \in Odd \cup Pairs \cup Hooks} \cup {NoFile, Layer(<< >>, TRUE)}

MCEnvs ==
  {NoFile, Says("secretLength" :> 32), Says("secretLength" :> 31),
   Says("privateHealth" :> TRUE), Says("opsPort" :> 9090), Says("postsDir" :> "unclean"),
   Layer(<< >>, TRUE)}

\* What site.yaml is changed to while the site is served.
MCEdits ==
  {Says(("searchEnabled" :> FALSE) @@ ("maxDocs" :> 0)), Says("maxTokens" :> 1)}

Request(remote, hops, signature, body, event, ref) ==
  [remote |-> remote, hops |-> hops, realIP |-> Junk, signature |-> signature,
   body |-> body, event |-> event, ref |-> ref]

MCRequests ==
  {Request(r, h, "good", "fits", "push", "main") :
     r \in {"alice", "proxy"},
     h \in {<<"alice", "bob">>, <<"bob", "proxy">>, <<"alice", Junk, "proxy">>}}
    \cup {Request("bob", << >>, s, "fits", "push", "main") :
            s \in {"missing", "malformed", "wrong"}}
    \cup {Request("bob", << >>, "good", b, "push", "main") : b \in {"large", "broken"}}
    \cup {Request("bob", << >>, "good", "fits", e, r) :
            e \in {"push", "ping"}, r \in {"other", "garbled"}}
=============================================================================
