------------------------------- MODULE Reload -------------------------------
(***************************************************************************)
(* The reload pipeline of cmd/blogflow/reload.go and the request handlers  *)
(* that run against it.  Every call of the content reloader (a sync        *)
(* strategy's goroutine, or a webhook's HTTP goroutine: nothing serialises *)
(* them) re-reads site.yaml, the templates and the content, and swaps five *)
(* atomic pointers one after the other: Loader.current, Deps.config, the   *)
(* theme's base and pages, Deps.snap.  Handlers load the pointers they     *)
(* need, in an order that differs from handler to handler; the home page   *)
(* keeps a sixth one, Deps.staticHTML, as a cache it fills and the reload  *)
(* clears.                                                                 *)
(*                                                                         *)
(* A version stands for everything on disk between two edits; what is read *)
(* from disk in one pass (site.yaml, the templates, the content, a static  *)
(* home page) is of one version.  The set of paths does not change, so the *)
(* negative cache of the overlay (module NegCache) answers as the disk     *)
(* would; versions differ in what the files hold.                          *)
(*                                                                         *)
(* The raced marks are history: the code does not have them and no guard   *)
(* reads them.                                                             *)
(***************************************************************************)
EXTENDS Integers

CONSTANTS
  Reloaders,     \* goroutines that call the content reloader
  Visitors,      \* goroutines that serve a request
  MaxVersion,    \* bound on the versions of the disk
  MaxGen,        \* bound on the generations: no reload begins at MaxGen
  HomeOf,        \* site.homepage of a version: a static path or NoPath
  HomePaths,     \* the static paths site.homepage may name
  HomeFiles,     \* those that exist
  BadConfig,     \* versions whose site.yaml does not load or validate
  BadTheme,      \* versions whose templates do not parse
  BadScan,       \* versions whose content does not scan
  SearchEnabled, \* Deps.searchEnabled, fixed when the router is built
  NoPath,        \* the home page is the post list
  NoHome,        \* Deps.staticHTML is nil
  NoSearch,      \* SiteSnapshot.Search is nil
  NoAnswer,      \* no answer yet
  Nobody         \* no goroutine

Versions == 0 .. MaxVersion

ASSUME ReloadAssumption ==
  /\ MaxVersion \in Nat
  /\ MaxGen \in Nat \ {0}
  /\ HomeFiles \subseteq HomePaths
  /\ NoPath \notin HomePaths
  /\ HomeOf \in [Versions -> HomePaths \cup {NoPath}]
  /\ BadConfig \cup BadTheme \cup BadScan \subseteq Versions \ {0}
  /\ SearchEnabled \in BOOLEAN
  /\ Nobody \notin Reloaders

VARIABLES
  disk,       \* the version on disk
  current,    \* Loader.current
  reloadMu,   \* who holds Loader.reloadMu
  config,     \* Deps.config
  base,       \* theme.Engine.base
  pages,      \* theme.Engine.pages
  gen,        \* Deps.gen
  snap,       \* Deps.snap
  staticHTML, \* Deps.staticHTML
  rpc,        \* reloader: where it is
  hand,       \* reloader: the version it has read and not yet published
  tunables,   \* reloader: cfgLoader.Get() for the search build
  built,      \* reloader: the snapshot it is about to publish
  vpc,        \* handler: where it is
  kind,       \* handler: which one
  vcfg,       \* handler: the config it loaded
  vsnap,      \* handler: the snapshot it loaded
  vpages,     \* handler: the page templates it loaded
  vread,      \* handler: the version of the static home page it read
  raced,      \* handler: staticHTML was cleared since it loaded its config
  answer      \* handler: what its last rendered page was made of

loaderVars == <<current, reloadMu, config>>
themeVars == <<base, pages>>
siteVars == <<disk, gen, snap, staticHTML>>
reloaderVars == <<rpc, hand, tunables, built>>
visitorVars == <<vpc, kind, vcfg, vsnap, vpages, vread, raced, answer>>
vars == <<loaderVars, themeVars, siteVars, reloaderVars, visitorVars>>

SearchOf(v, g, c) == [content |-> v, gen |-> g, cfg |-> c]
SnapshotOf(g, v, s) == [gen |-> g, content |-> v, search |-> s]

(***************************************************************************)
(* Startup (main.go): every part is loaded from version 0.  With search    *)
(* enabled the first snapshot is published before traffic is served, like  *)
(* any other with an index or without; else the one of NewDeps stays.      *)
(***************************************************************************)
UnscannedSnapshots == {SnapshotOf(0, NoSearch, NoSearch)}

FirstSnapshots ==
  IF SearchEnabled THEN {SnapshotOf(1, 0, SearchOf(0, 1, 0)), SnapshotOf(1, 0, NoSearch)}
                   ELSE {SnapshotOf(0, 0, NoSearch)}

Init ==
  /\ disk = 0
  /\ current = 0
  /\ reloadMu = Nobody
  /\ config = 0
  /\ base = 0
  /\ pages = 0
  /\ snap \in FirstSnapshots
  /\ gen = snap.gen
  /\ staticHTML = NoHome
  /\ rpc = [r \in Reloaders |-> "idle"]
  /\ hand = [r \in Reloaders |-> 0]
  /\ tunables = [r \in Reloaders |-> 0]
  /\ built = [r \in Reloaders |-> snap]
  /\ vpc = [v \in Visitors |-> "idle"]
  /\ kind = [v \in Visitors |-> "list"]
  /\ vcfg = [v \in Visitors |-> 0]
  /\ vsnap = [v \in Visitors |-> snap]
  /\ vpages = [v \in Visitors |-> 0]
  /\ vread = [v \in Visitors |-> 0]
  /\ raced = [v \in Visitors |-> FALSE]
  /\ answer = [v \in Visitors |-> NoAnswer]

(* The author, git or git-sync changes what is on disk. *)
Edit ==
  /\ disk < MaxVersion
  /\ disk' = disk + 1
  /\ UNCHANGED <<gen, snap, staticHTML, loaderVars, themeVars, reloaderVars, visitorVars>>

(***************************************************************************)
(* The reloader.                                                           *)
(***************************************************************************)
At(r, from, to) == rpc[r] = from /\ rpc' = [rpc EXCEPT ![r] = to]

(* d.staticHTML.Store(nil), which every fill in flight has been raced by. *)
ClearHome ==
  /\ staticHTML' = NoHome
  /\ raced' = [v \in Visitors |-> TRUE]

BeginReload(r) ==
  /\ gen < MaxGen
  /\ At(r, "idle", "lock")
  /\ UNCHANGED <<hand, tunables, built, loaderVars, themeVars, siteVars, visitorVars>>

LockReloadNot(r) ==
  /\ At(r, "lock", "load")
  /\ reloadMu' = r
  /\ UNCHANGED <<current, config, hand, tunables, built, themeVars, siteVars, visitorVars>>

LockReload(r) ==
  /\ reloadMu = Nobody
  /\ At(r, "lock", "load")
  /\ reloadMu' = r
  /\ UNCHANGED <<current, config, hand, tunables, built, themeVars, siteVars, visitorVars>>

LoadFailsLocked(r) ==
  /\ disk \in BadConfig
  /\ At(r, "load", "theme")
  /\ UNCHANGED <<hand, tunables, built, loaderVars, themeVars, siteVars, visitorVars>>

(* Load fails: the old config stays, the lock is let go, the reload goes on. *)
LoadFails(r) ==
  /\ disk \in BadConfig
  /\ At(r, "load", "theme")
  /\ reloadMu' = Nobody
  /\ UNCHANGED <<current, config, hand, tunables, built, themeVars, siteVars, visitorVars>>

LoadConfig(r) ==
  /\ disk \notin BadConfig
  /\ At(r, "load", "set")
  /\ current' = disk
  /\ hand' = [hand EXCEPT ![r] = disk]
  /\ UNCHANGED <<reloadMu, config, tunables, built, themeVars, siteVars, visitorVars>>

SetConfigOnly(r) ==
  /\ At(r, "set", "theme")
  /\ config' = hand[r]
  /\ reloadMu' = Nobody
  /\ UNCHANGED <<current, hand, tunables, built, themeVars, siteVars, visitorVars>>

(* The callback of OnChange, SetConfig: the store, and then the clear. *)
SetConfig(r) ==
  /\ At(r, "set", "clear")
  /\ config' = hand[r]
  /\ UNCHANGED <<current, reloadMu, hand, tunables, built, themeVars, siteVars, visitorVars>>

UnlockReload(r) ==
  /\ At(r, "clear", "theme")
  /\ ClearHome
  /\ reloadMu' = Nobody
  /\ UNCHANGED <<current, config, hand, tunables, built, themeVars, disk, gen, snap,
                 vpc, kind, vcfg, vsnap, vpages, vread, answer>>

ThemeEndsReload(r) ==
  /\ IF disk \in BadTheme
       THEN At(r, "theme", "idle") /\ UNCHANGED hand
       ELSE At(r, "theme", "base") /\ hand' = [hand EXCEPT ![r] = disk]
  /\ UNCHANGED <<tunables, built, loaderVars, themeVars, siteVars, visitorVars>>

(* A theme that does not load is logged and the old one stays. *)
ParseTheme(r) ==
  /\ IF disk \in BadTheme
       THEN At(r, "theme", "scan") /\ UNCHANGED hand
       ELSE At(r, "theme", "base") /\ hand' = [hand EXCEPT ![r] = disk]
  /\ UNCHANGED <<tunables, built, loaderVars, themeVars, siteVars, visitorVars>>

StoreBaseOnly(r) ==
  /\ At(r, "base", "scan")
  /\ base' = hand[r]
  /\ UNCHANGED <<pages, hand, tunables, built, loaderVars, siteVars, visitorVars>>

StoreBase(r) ==
  /\ At(r, "base", "pages")
  /\ base' = hand[r]
  /\ UNCHANGED <<pages, hand, tunables, built, loaderVars, siteVars, visitorVars>>

StorePages(r) ==
  /\ At(r, "pages", "scan")
  /\ pages' = hand[r]
  /\ UNCHANGED <<base, hand, tunables, built, loaderVars, siteVars, visitorVars>>

(* A scan that fails ends the reload: nothing of it is published. *)
Scan(r) ==
  /\ IF disk \in BadScan
       THEN At(r, "scan", "idle") /\ UNCHANGED hand
       ELSE At(r, "scan", "tune") /\ hand' = [hand EXCEPT ![r] = disk]
  /\ UNCHANGED <<tunables, built, loaderVars, themeVars, siteVars, visitorVars>>

GetTunables(r) ==
  /\ At(r, "tune", "build")
  /\ tunables' = [tunables EXCEPT ![r] = current]
  /\ UNCHANGED <<hand, built, loaderVars, themeVars, siteVars, visitorVars>>

BuiltWithOldSearch(r, g, ok) ==
  SnapshotOf(g, hand[r],
             IF SearchEnabled /\ ok THEN SearchOf(hand[r], g, tunables[r]) ELSE snap.search)

BuiltUnnumbered(r, g, ok) ==
  IF SearchEnabled /\ ok THEN SnapshotOf(g, hand[r], SearchOf(hand[r], g, tunables[r]))
                         ELSE SnapshotOf(0, hand[r], NoSearch)

(* What is published when the search build succeeds, and when it panics or *)
(* search is off.                                                          *)
BuiltSnapshot(r, g, ok) ==
  SnapshotOf(g, hand[r],
             IF SearchEnabled /\ ok THEN SearchOf(hand[r], g, tunables[r]) ELSE NoSearch)

Build(r) ==
  /\ At(r, "build", "publish")
  /\ gen' = gen + 1
  /\ \E ok \in BOOLEAN : built' = [built EXCEPT ![r] = BuiltSnapshot(r, gen + 1, ok)]
  /\ UNCHANGED <<hand, tunables, disk, snap, staticHTML, loaderVars, themeVars, visitorVars>>

PublishWithSearch(r) ==
  /\ At(r, "publish", "wipe")
  /\ snap' = IF built[r].search = NoSearch THEN snap ELSE built[r]
  /\ UNCHANGED <<hand, tunables, built, disk, gen, staticHTML, loaderVars, themeVars, visitorVars>>

(* SetSnapshot: the store, and then the clear. *)
Publish(r) ==
  /\ At(r, "publish", "wipe")
  /\ snap' = built[r]
  /\ UNCHANGED <<hand, tunables, built, disk, gen, staticHTML, loaderVars, themeVars, visitorVars>>

(* The flush of the render cache follows; nothing fills that cache. *)
EndReload(r) ==
  /\ At(r, "wipe", "idle")
  /\ ClearHome
  /\ UNCHANGED <<hand, tunables, built, disk, gen, snap, loaderVars, themeVars,
                 vpc, kind, vcfg, vsnap, vpages, vread, answer>>

Reload(r) ==
  \/ LockReload(r) \/ LoadFails(r) \/ LoadConfig(r) \/ SetConfig(r) \/ UnlockReload(r)
  \/ ParseTheme(r) \/ StoreBase(r) \/ StorePages(r)
  \/ Scan(r) \/ GetTunables(r) \/ Build(r) \/ Publish(r) \/ EndReload(r)

(***************************************************************************)
(* The handlers.  "list" stands for every handler that loads the config    *)
(* and then the content (post lists, feeds, sitemap, a home page that is a *)
(* page), "post" for those that load the content first (post, page, tag),  *)
(* "search" for the search handler, "home" for HomeHandler up to the point *)
(* where it serves a static file or falls back to the list.                *)
(***************************************************************************)
Kinds == {"home", "list", "post", "search"}

Go(v, from, to) == vpc[v] = from /\ vpc' = [vpc EXCEPT ![v] = to]

BeginRequest(v, k) ==
  /\ k = "search" => SearchEnabled
  /\ Go(v, "idle", IF k = "post" THEN "snap" ELSE "config")
  /\ kind' = [kind EXCEPT ![v] = k]
  /\ answer' = [answer EXCEPT ![v] = NoAnswer]
  /\ UNCHANGED <<vcfg, vsnap, vpages, vread, raced, loaderVars, themeVars, siteVars, reloaderVars>>

AfterConfig(v) ==
  CASE kind[v] = "home" -> "home"
    [] kind[v] = "post" -> "pages"
    [] OTHER            -> "snap"

VisitConfig(v) ==
  /\ Go(v, "config", AfterConfig(v))
  /\ vcfg' = [vcfg EXCEPT ![v] = config]
  /\ raced' = [raced EXCEPT ![v] = FALSE]
  /\ UNCHANGED <<kind, vsnap, vpages, vread, answer, loaderVars, themeVars, siteVars, reloaderVars>>

VisitSnapshot(v) ==
  /\ Go(v, "snap", IF kind[v] = "post" THEN "config" ELSE "pages")
  /\ vsnap' = [vsnap EXCEPT ![v] = snap]
  /\ UNCHANGED <<kind, vcfg, vpages, vread, raced, answer, loaderVars, themeVars, siteVars, reloaderVars>>

(* The list handler starts afresh: it loads the config again. *)
FallBack(v, from) ==
  /\ Go(v, from, "config")
  /\ kind' = [kind EXCEPT ![v] = "list"]
  /\ UNCHANGED <<vcfg, vsnap, vpages, vread, raced, answer, loaderVars, themeVars, siteVars, reloaderVars>>

HomeIsList(v) ==
  /\ HomeOf[vcfg[v]] = NoPath
  /\ FallBack(v, "home")

(* A cached home page is served as it is, whatever path it was read from. *)
HomeIsStatic(v) ==
  /\ HomeOf[vcfg[v]] # NoPath
  /\ Go(v, "home", IF staticHTML = NoHome THEN "read" ELSE "idle")
  /\ UNCHANGED <<kind, vcfg, vsnap, vpages, vread, raced, answer,
                 loaderVars, themeVars, siteVars, reloaderVars>>

ReadHome(v) ==
  /\ HomeOf[vcfg[v]] \in HomeFiles
  /\ Go(v, "read", "fill")
  /\ vread' = [vread EXCEPT ![v] = disk]
  /\ UNCHANGED <<kind, vcfg, vsnap, vpages, raced, answer,
                 loaderVars, themeVars, siteVars, reloaderVars>>

HomeIsMissing(v) ==
  /\ HomeOf[vcfg[v]] \notin HomeFiles
  /\ FallBack(v, "read")

FillHome(v) ==
  /\ Go(v, "fill", "idle")
  /\ staticHTML' = [path |-> HomeOf[vcfg[v]], version |-> vread[v], raced |-> raced[v]]
  /\ UNCHANGED <<disk, gen, snap, kind, vcfg, vsnap, vpages, vread, raced, answer,
                 loaderVars, themeVars, reloaderVars>>

(* Engine.Render: the page templates, then the base, then the execution. *)
VisitPages(v) ==
  /\ Go(v, "pages", "base")
  /\ vpages' = [vpages EXCEPT ![v] = pages]
  /\ UNCHANGED <<kind, vcfg, vsnap, vread, raced, answer, loaderVars, themeVars, siteVars, reloaderVars>>

AnswerBaseFirst(v) ==
  [kind |-> kind[v], cfg |-> vcfg[v], snap |-> vsnap[v], pages |-> pages, base |-> vpages[v]]

Answer(v) ==
  [kind |-> kind[v], cfg |-> vcfg[v], snap |-> vsnap[v], pages |-> vpages[v], base |-> base]

Respond(v) ==
  /\ Go(v, "base", "idle")
  /\ answer' = [answer EXCEPT ![v] = Answer(v)]
  /\ UNCHANGED <<kind, vcfg, vsnap, vpages, vread, raced, loaderVars, themeVars, siteVars, reloaderVars>>

Visit(v) ==
  \/ \E k \in Kinds : BeginRequest(v, k)
  \/ VisitConfig(v) \/ VisitSnapshot(v)
  \/ HomeIsList(v) \/ HomeIsStatic(v) \/ ReadHome(v) \/ HomeIsMissing(v) \/ FillHome(v)
  \/ VisitPages(v) \/ Respond(v)

Next ==
  \/ Edit
  \/ \E r \in Reloaders : BeginReload(r) \/ Reload(r)
  \/ \E v \in Visitors : Visit(v)

Spec == Init /\ [][Next]_vars

(***************************************************************************)
(* Fairness: a reload that has begun runs on.  reloadMu is a sync.Mutex,   *)
(* whose starvation mode hands it to a waiter after 1 ms: strong fairness  *)
(* for taking it.  Nothing is assumed of the disk or of the visitors, nor  *)
(* that a reload ever begins.                                              *)
(***************************************************************************)
FairSpec ==
  /\ Spec
  /\ \A r \in Reloaders : WF_vars(Reload(r)) /\ SF_vars(LockReload(r))

-----------------------------------------------------------------------------
Searches == [content : Versions, gen : Nat, cfg : Versions]
Snapshots == [gen : Nat, content : Versions, search : Searches \cup {NoSearch}]
Homes == [path : HomePaths \cup {NoPath}, version : Versions, raced : BOOLEAN]
Answers == [kind : Kinds, cfg : Versions, snap : Snapshots, pages : Versions, base : Versions]

ReloaderPlaces == {"idle", "lock", "load", "set", "clear", "theme", "base", "pages",
                   "scan", "tune", "build", "publish", "wipe"}
VisitorPlaces == {"idle", "config", "snap", "home", "read", "fill", "pages", "base"}

LoaderTypes ==
  /\ current \in Versions
  /\ reloadMu \in Reloaders \cup {Nobody}
  /\ config \in Versions

SiteTypes ==
  /\ disk \in Versions
  /\ base \in Versions
  /\ pages \in Versions
  /\ gen \in Nat
  /\ snap \in Snapshots
  /\ staticHTML \in Homes \cup {NoHome}

ReloaderTypes ==
  /\ rpc \in [Reloaders -> ReloaderPlaces]
  /\ hand \in [Reloaders -> Versions]
  /\ tunables \in [Reloaders -> Versions]
  /\ built \in [Reloaders -> Snapshots]

VisitorTypes ==
  /\ vpc \in [Visitors -> VisitorPlaces]
  /\ kind \in [Visitors -> Kinds]
  /\ vcfg \in [Visitors -> Versions]
  /\ vsnap \in [Visitors -> Snapshots]
  /\ vpages \in [Visitors -> Versions]
  /\ vread \in [Visitors -> Versions]
  /\ raced \in [Visitors -> BOOLEAN]
  /\ answer \in [Visitors -> Answers \cup {NoAnswer}]

(* The types of the variables of reload.go, handlers.go and theme.go. *)
TypeOK == LoaderTypes /\ SiteTypes /\ ReloaderTypes /\ VisitorTypes

(***************************************************************************)
(* reloadMu "serializes Reload to prevent stale-callback races"            *)
(* (loader.go, Loader): once no reload is inside, the config the handlers  *)
(* use is the one the loader holds, however many reloads ran side by side. *)
(***************************************************************************)
ConfigFollowsLoader == reloadMu = Nobody => config = current

(***************************************************************************)
(* "a query never mixes generations" (publishContentSnapshot): a search    *)
(* page ranks with an index built from the very content it excerpts, and   *)
(* both carry the snapshot's generation, across failed builds, concurrent  *)
(* reloads and requests that straddle them.                                *)
(***************************************************************************)
OneGeneration(s) ==
  s.search # NoSearch => s.search.gen = s.gen /\ s.search.content = s.content

AnswersAreOneGeneration ==
  \A v \in Visitors : answer[v] # NoAnswer => OneGeneration(answer[v].snap)

(***************************************************************************)
(* SetConfig and SetSnapshot store first and clear afterwards, so that a   *)
(* home page filled by a request no clear has raced is the right one: it   *)
(* is of the configured path, or the clear is still to come; and it is no  *)
(* older than the published content, or the clear is still to come.        *)
(***************************************************************************)
Clearing(place) == \E r \in Reloaders : rpc[r] = place

HomeIsConfigured == staticHTML.path = HomeOf[config] \/ Clearing("clear")
HomeIsRecent == staticHTML.version >= snap.content \/ Clearing("wipe")

UnracedHomeIsCurrent ==
  staticHTML # NoHome /\ ~staticHTML.raced => HomeIsConfigured /\ HomeIsRecent

(***************************************************************************)
(* The inductive invariant behind these.  The lock is held exactly within  *)
(* a load and its callback, the one inside has published to Loader.current *)
(* what it will publish to Deps.config, and only between the two do they   *)
(* differ.                                                                 *)
(***************************************************************************)
Inside == {"load", "set", "clear"}

LoaderInv ==
  /\ \A r \in Reloaders : rpc[r] \in Inside <=> reloadMu = r
  /\ \A r \in Reloaders : rpc[r] = "set" => hand[r] = current
  /\ config # current => Clearing("set")

(* Every snapshot anyone holds is of one generation. *)
GenerationInv ==
  /\ OneGeneration(snap)
  /\ \A r \in Reloaders : OneGeneration(built[r])
  /\ \A v \in Visitors : OneGeneration(vsnap[v])
  /\ AnswersAreOneGeneration

(* Nothing read is newer than the disk. *)
DiskInv ==
  /\ snap.content <= disk
  /\ \A r \in Reloaders : hand[r] <= disk /\ built[r].content <= disk

(* A request no clear has raced would fill the cache with the right page. *)
HomeInv ==
  /\ UnracedHomeIsCurrent
  /\ \A v \in Visitors : ~raced[v] => vcfg[v] = config \/ Clearing("clear")
  /\ \A v \in Visitors :
       vpc[v] = "fill" /\ ~raced[v] => vread[v] >= snap.content \/ Clearing("wipe")

IInv == TypeOK /\ LoaderInv /\ GenerationInv /\ DiskInv /\ HomeInv

(***************************************************************************)
(* One reload at a time (the watch, sidecar and poll strategies call the   *)
(* reloader from one goroutine): what a reload publishes is never older    *)
(* than what was there, the theme's two pointers differ only between their *)
(* two stores, and a page rendered across the swap has page templates no   *)
(* newer than its base, the order Render and loadTemplates agree on.       *)
(***************************************************************************)
OneAtATime ==
  \A r, s \in Reloaders : rpc[r] # "idle" /\ rpc[s] # "idle" => r = s

ContentNeverGoesBack ==
  [][snap'.content >= snap.content /\ snap'.gen >= snap.gen]_snap

ThemeIsWhole == base # pages => Clearing("pages")

PagesAreNoNewerThanBase ==
  \A v \in Visitors : answer[v] # NoAnswer => answer[v].pages <= answer[v].base

(***************************************************************************)
(* The inductive invariant behind these.  What a lone reloader has in hand *)
(* is no older than what it is about to replace, and a renderer that has   *)
(* the page templates but not the base yet will get a base no older.       *)
(***************************************************************************)
ThemeInv ==
  /\ base <= disk /\ pages <= base
  /\ ThemeIsWhole
  /\ \A r \in Reloaders : rpc[r] = "base" => base <= hand[r]
  /\ \A r \in Reloaders : rpc[r] = "pages" => hand[r] = base
  /\ \A v \in Visitors : vpc[v] = "base" => vpages[v] <= base
  /\ PagesAreNoNewerThanBase

ProgressInv ==
  /\ snap.gen <= gen /\ \A r \in Reloaders : built[r].gen <= gen
  /\ \A r \in Reloaders : rpc[r] \in {"tune", "build"} => snap.content <= hand[r]
  /\ \A r \in Reloaders :
       rpc[r] = "publish" => snap.content <= built[r].content /\ snap.gen <= built[r].gen

SerialInv == ThemeInv /\ ProgressInv

(* A reload that has begun comes to an end, whatever fails in it. *)
ReloadReturns == \A r \in Reloaders : rpc[r] # "idle" ~> rpc[r] = "idle"

(***************************************************************************)
(* "partial reload is better than no reload" (newContentReloader): content *)
(* that scans is published at least as new as the disk was when the reload *)
(* began, even when that site.yaml or those templates are broken.          *)
(***************************************************************************)
ReloadPublishes ==
  \A r \in Reloaders, k \in Versions :
    (rpc[r] = "lock" /\ disk = k /\ BadScan \cap k .. MaxVersion = {})
      ~> (snap.content >= k)

(***************************************************************************)
(* A reload that begins after the last edit brings everything of that edit *)
(* that loads to the site, for good.                                       *)
(***************************************************************************)
Settled ==
  /\ MaxVersion \notin BadScan => snap.content = MaxVersion
  /\ MaxVersion \notin BadTheme => base = MaxVersion /\ pages = MaxVersion
  /\ MaxVersion \notin BadConfig => config = MaxVersion

ReloadSettles ==
  \A r \in Reloaders : (rpc[r] = "lock" /\ disk = MaxVersion) ~> []Settled
=============================================================================
