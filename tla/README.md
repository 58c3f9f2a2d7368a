# BlogFlow in TLA+

BlogFlow is a blog engine in one Go process: it serves Markdown content from a
layered filesystem, and reloads content, configuration and templates while it
runs. This directory holds TLA+ models of it, from the files on the volumes through scan,
search index and handlers to the reader, and of the goroutines, failures and restarts
behind that, the TLC runs that check them, and TLAPS proofs of the results that matter
most. Paths below are relative to the repository; line numbers
are those of the commit the models were written from.

Contents: 1 the system, 2 what is modelled and how it corresponds to the code, 3 the
runs, 4 fairness, 5 the proofs, 6 disagreements between code and documents, 7 what
is not modelled, 8 the plan.

## 1. The system

| Component | State | Operations | Interacts with |
|---|---|---|---|
| **Overlay filesystem** `internal/overlayfs` | the layers, a sharded LRU *negative cache* (path -> first layer that may have it), a generation | `Open`, `ReadFile`, `Stat`, `ReadDir`; `InvalidateLayer`, `InvalidateAll`, `ReplaceLayer` | everything that reads a file |
| **Reload pipeline** `cmd/blogflow/reload.go` | none of its own | reload config, templates, content; build search; publish | called by every sync strategy; swaps the pointers below |
| **Config loader** `internal/config` | `Loader.current`, `reloadMu`, callbacks | `Load`, `Reload`, `Get`, `Watch` (unused) | its callback is `Deps.SetConfig` |
| **Handlers** `internal/server/handlers` | `Deps`: `config`, `snap`, `gen`, `staticHTML` (all atomic) | one per route; `SetConfig`, `SetSnapshot` | read `Deps`, theme, overlay |
| **Theme engine** `internal/theme` | `base`, `pages` (two atomic pointers) | `Render`, `Reload` | parses templates out of the overlay |
| **Search** `internal/search` | immutable `Index` per generation | `Build`, `Search` | built by the reload, carried by the snapshot |
| **Content scanner** `internal/content` | immutable `content.Index` | `Scan`, front matter, rendering, sanitising | reads the overlay |
| **Render cache** `internal/content/cache.go` | entries with TTL | `Get`, `Set`, `InvalidateAll` | created and flushed by `main`; no handler reads or fills it |
| **Puller** `internal/gitops/pull.go` | the checkout on the volume | `CloneOrPull` | go-git; startup and the poll strategy |
| **Poll strategy** `poll.go` | goroutine, context | `Start`, `Stop`, `tick` | puller, reloader |
| **Watch, sidecar strategies** | fsnotify watcher, debounce timer / last symlink target | `Start`, `Stop`, `loop` | reloader |
| **Webhook strategy** `webhook.go` | two rate limiters: rejections, verified deliveries | HTTP handler; `allow` | client addresses of `server/clientip.go`; reloader, from the HTTP goroutine |
| **Feeds, sitemap** `handlers/feed.go`, `sitemap.go`, `cache.go` | none | one handler each, conditional GET | `Deps` |
| **HTTP server and lifecycle** `internal/server`, `cmd/blogflow/main.go` | ready flag, listeners | `Start`, `StartOps`, `Shutdown`, health, readiness | signals, sync strategy |
| Telemetry, env files, git credentials | set up once | - | - |

What makes it hard:

* *Concurrency without one lock.* A reload swaps five atomic pointers one by one;
  handlers load the ones they need in an order that differs between handlers. Only
  the config load is serialised. Two webhook requests run two reloads at once.
* *Caches with their own coherence protocol.* The negative cache defends against stale
  stores with a generation that is checked twice; `staticHTML` is defended by
  "store, then clear" alone.
* *Partial failure.* Each of the four parts of a reload, and each go-git call of a
  pull, may fail while the others have happened; the checkout survives the process.
* *Limits that are counted.* The rate limiter, the negative cache and the search index
  each keep a count, a list and a map in step at a capacity.
* *A scan without a snapshot.* The walk reads directories and files one by one while they
  change; configuration is validated once, and used by parts that check it again.
* *Startup and shutdown* race the signal handler, and the sync strategy's
  goroutine.

Correctness, per component (with the property that states it where one does):

* overlay: the cache is invisible (`CalmResolveIsRight`), a stale miss never outlives
  its invalidation (`EntriesAreTrue`), its bookkeeping stays whole
  (`ListsMatchMaps`, `SizeCountsEntries`), its size metric is at every moment a size it may
  have (`SizeStaysBounded`), locks are always let go
  (`ResolveReturns`, `InvalidationReturns`);
* reload and handlers: loader and handlers agree (`ConfigFollowsLoader`), an answer
  never mixes generations (`AnswersAreOneGeneration`), the home page is current
  (`UnracedHomeIsCurrent`), the site only moves forward (`ContentNeverGoesBack`),
  partial failures stay partial (`ReloadPublishes`), reloads end and take effect
  (`ReloadReturns`, `ReloadSettles`);
* theme: the two pointers belong together (`ThemeIsWhole`,
  `PagesAreNoNewerThanBase`);
* configuration and startup: what passes validation is served, whole and within bounds
  (`ValidatedServes`);
* webhook: a budget is never exceeded (`BudgetHolds`) and never used up by others
  (`SignedIsNotStarved`), and an answer of 200 means the content is there
  (`UnracedDeliveryIsShown`);
* scanner: what holds still is found, once, or the scan fails (`ScanIsComplete`);
* search: the index is the longest prefix of the posts that fits
  (`IndexIsLargestPrefix`);
* pages: every link leads somewhere and every post is reached (`LinksResolve`);
* feeds and sitemap: a 304 is the truth (`RevalidationIsCurrent`);
* watch strategy: new directories are watched (`SubdirectoriesAreWatched`), an edit
  that was noticed is loaded (`NoticedIsLoaded`, `NoticedEditIsLoaded`), a stopped
  strategy changes nothing (`StoppedSiteStays`);
* lifecycle: the process ends when a server fails or a signal comes
  (`ServerFailureEndsProcess`, `SignalEndsProcess`), says success only after a shutdown
  (`CleanExitIsShutdown`) and drains first (`DrainsBeforeExit`, which does not hold);
* puller and poll: half a checkout is never reloaded (`ReloadSeesWholeTree`), the
  site never goes back (`SiteNeverGoesBack`), pushes arrive (`PushRepairs`).

## 2. The modules

| Module | Role |
|---|---|
| `MissCache` | abstract: what the negative cache promises |
| `NegCache` | the overlay and its negative cache, as coded |
| `LruList`, `LruListProofs` | Go's `container/list` as the two caches use it, and lemmas about it |
| `NegCacheProofs` | proofs about `NegCache` |
| `OverlayReload` | `NegCache` as `main.go` wires it: content reloads, no invalidation |
| `Reload` | the reload pipeline, config loader, theme pointers and handlers |
| `ReloadProofs` | proofs about `Reload` |
| `GitPoll` | puller, bootstrap, poll strategy, restarts |
| `GitPollProofs` | proofs about `GitPoll` |
| `Watch` | the watch strategy: tree, inotify, walk, debounce timer, reload, Stop |
| `WatchProofs` | proofs about `Watch` |
| `Lifecycle` | `main` from the start of the strategy to the exit, its shutdown goroutine, the two servers; composed with `Watch` |
| `LifecycleProofs` | proofs about `Lifecycle`, which reuse those about `Watch` |
| `Settings` | the configuration: defaults, layers, all of `Validate` |
| `Startup` | `main` from the load of the configuration to the bound ports; uses `Settings` |
| `RateLimiter` | the sliding-window limiter; uses `LruList` |
| `Webhook` | deliveries in the process that `Startup` started; uses `RateLimiter` |
| `WebhookProofs` | proofs about `Settings`, `Startup`, `RateLimiter` and `Webhook` |
| `ContentScan` | the scan of the overlay's merged directories while they change |
| `SearchIndex` | `Build` within its limits, the outcomes and pages of a search |
| `SitePages` | lists, links, feed, sitemap: what the handlers make of a snapshot; uses `SearchIndex` |
| `Publish` | reloads, site and reader: `ContentScan` and `SitePages` together |
| `PublishProofs` | proofs about `ContentScan`, `SearchIndex`, `SitePages` and `Publish` |
| `MCNegCache`, `MCOverlayReload`, `MCReload`, `MCGitPoll`, `MCWatch`, `MCLifecycle`, `MCWebhook`, `MCPublish` | instances for TLC |

A definition directly above another one, of the same parameters and with a name such as
`StaleIsFresh` above `Fresh` or marked "Mutant", is a plausible wrong version of it. No
specification uses it; substituting it is how each property is shown to be able to fail.

### NegCache (`overlayfs.go`)

`Open`, `ReadFile` and `Stat` contain the same loop; a *resolver* runs it: `Snapshot`
(copy of the layers and the generation under `o.mu`), `Lookup` (shard lock), one
`ProbeMiss`/`ProbeError`/`ProbeHit` per layer, then `negCacheStoreWithGeneration` in
its two checks (`StoreCheck`, then `StoreStale`, `StoreUpdate`, or `EvictOldest` if the
shard is full and `Insert`), and, after a hit, `NameLayer`, for which `layerName` takes `o.mu`
once more. An *invalidator* is in `InvalidateLayer`, `InvalidateAll` or `ReplaceLayer`: it
takes the shard locks one by one (`LockShard`), clears (`ClearEntry`... `ClearDone`, or
`ClearAll`), increments the generation (`Bump`) and unlocks (`Unlock`).
`ReplaceLayer` holds `o.mu` throughout. Files change under them at any time
(`ChangeFile`).

The counter of the entries is an atomic which the size metric reads without a lock
(`metrics.go:93`), so each change of it is a step of its own, apart from the change of the
maps: `CountEviction` and `CountInsert` in a store, `CountCleared` after each entry that an
invalidation drops, `StoreZero` after `ClearAll` has emptied all maps.

Abstractions: a path is a model value and a layer answers absent, present or blocked
(any error other than not-exist); LRU lists are sequences; the shards of 16 in the code
are `NumShards`; the hash is the constant `ShardOf`. `pending` (a layer changed and
its invalidation has not taken effect) and `calm` (no layer changed or was pending
during this resolve) are history variables.

`MissCache` knows only what the layers hold, which of them are dirty and what is
known of each path; `NegCache` implements it under `view <- View`, `dirty <- pending`,
`known <- entry` (`MissSpec`).

### OverlayReload

Every step of `NegCache`, with no invalidators, because nothing outside the tests
calls the three invalidations, plus the end of a content reload. The history says whether a
resolve ran entirely after such an end with no file changed since.

### Reload (`reload.go`, `handlers.go`, `theme.go`, `config/reload.go`)

One action per atomic load or store. A *reloader* goes `lock` - `load` - `set` -
`clear` (config), `theme` - `base` - `pages`, `scan` - `tune` - `build` - `publish` -
`wipe`; failures of the config, the theme, the scan and the search build leave where
the code does. A *visitor* runs one of four kinds of handler, named after the order
of their loads: `home`, `list` (config, then content), `post` (content, then config),
`search`.

A version number stands for everything on disk between two edits, so that "older" has a
meaning; which versions are broken, and where the home page is, are constants. Every
read the code makes in one pass sees one version. The path sets of the versions are equal: what
happens when they are not is `OverlayReload`'s subject. `raced` marks a
request, and a page it cached, that a clear has overtaken; it is history.

### GitPoll (`pull.go`, `poll.go`, `bootstrap.go`, the first scan of `main.go`)

One goroutine at a time works on the checkout, so the steps are the calls that can fail
or be cut off: `StatGit`, `OpenRepo`, fetch (`FetchNew`, `FetchNothing`,
`FetchFails`), `Remove`, `Clone`, `Checkout` (sparse), `Reset`, `Clean`, then the
reload. `booting` distinguishes `main`'s bootstrap, which scans whatever came of the
pull, from a `tick`, which returns early on an error and on "no change". `Stop` cancels
the context of a call in progress; `Crash` ends the process anywhere and leaves
what `CutShort` says; `Restart` follows with the volume as it was.

Volume and process have separate state: `git`, `tracking`, `head`, `tree` survive,
`site` does not. A tree is a commit, `NoTree`, or `Mixed`. go-git and `RemoveAll` are
external: a hard reset and a clone replace what was there, a failed clone cleans up
only a directory that was empty, a failed `RemoveAll` empties the directory but cannot
remove the mount point, and anything that is cut short may leave every half of its
work. The model leaves out files that a sparse checkout should not have and that a
failed clean-up left in place.

### Watch (`watch.go`)

The tree of directories is edited by somebody else between any two steps: `Mkdir`,
`Change` (a file with a watched extension is written, renamed or removed), `RemoveAll`
(a directory goes, its files first). inotify reports what happens in watched
directories into a bounded queue (`Report`), and drops events when it is full.

`Start` and, for each new directory, `tryWatchDir` (`TakeDirEvent`) run `addRecursive`,
whose calls are interleaved with the edits: `WalkAdd` (add the watch), then `WalkRead`
(read the entries), in any order between directories, and `WalkFails` where one of them
has gone, which ends the whole walk as the code's error does. The goroutine's
`select` takes any ready channel: `TakeFileEvent` (start or restart the timer, `Debounce`),
`TakeDirEvent`, `BeginReload`/`EndReload`/`HangReload`, `LoopCancelled`, `LoopClosed`.
`StopCloses` closes the watcher, then `StopReturns` or `StopTimesOut`.

`timer` is the timer (nil, running, fired with its tick unread, stopped), `timerC` whether
the select listens to it; both matter, as the code keeps them in two variables. Timers
are those of Go 1.23 and later (`go.mod`), whose `Stop` and `Reset` leave no stale tick
behind. The tree's operations are numbered, and what the site shows is the number
of the last operation its reload has surely seen. `noticed`, `lost` and `walkCut` are
history: the last edit that a watch reported, whether the kernel dropped an event, and
whether a walk of the goroutine was cut short.

Not in the model: renamed directories (to inotify, a removal and a creation, except that
the watch moves with the directory), permission changes, and edits between the first scan
of `main` and `Start`.

### Lifecycle (`main.go:258-361`, `server.go`)

Four kinds of goroutine: `main` (`StartSync`, `Launch`, the startup select
`BecomeReady`/`StartupFails`/`StartupTimesOut`, the loop `TakeErr`, `MainReturns`), the
shutdown goroutine (`Notify`, `HandleSignal`, `CancelSync`, `StopSync`, `ShutDown`,
`ShutServer`, `Drained`/`ShutdownExpires`), the two servers (`Listen`, `ServeCloses`,
`ServeFails`, `ListenFails`, `NoOps`) and, by `EXTENDS`, the watch strategy, which
`StartSync`, `CancelSync` and `StopSync` drive. A `Signal` may come at any moment; before
`signal.Notify` it kills the process. Once `exit` is set nothing happens any more, as
with `os.Exit` and the return of `main`. `net/http` is external: `Serve` returns as soon as
`Shutdown` begins, `Shutdown` returns when no request is left or its context is over.

### Settings and Startup (`internal/config`, `main.go:88-264`, `server.go`, `sync.go`)

A configuration is a record of the settings that `Validate` or a later part looks at. A
text is the kind that the program tells apart ("clean", "unclean", "git", "absolute",
"dotted" for a path), a number is itself. `Merged` lays the file and then the environment
over `Default`; a layer that is refused (size, inline secret, anchor, undecodable, bad
number) ends the load. `Valid` has one operator for each section of `Validate`.

`Startup` goes through `main` step by step, `LoadConfig`, `ScanContent`, `ParseTheme`,
`BuildServer`, `CreateStrategy`, `RegisterRoutes`, `Listen`; each goes on or gives up, for
the reasons of the part that is called, not for those of `Validate`: a panic of
`server.New`, an error of `NewStrategy`, a panic of `RegisterRoutes`. `cfg` is main's
copy with `--port`, `loaded` the loader's. `routes` is what was registered, `Answers` what
is left of it behind `publicHealthGuard`. The repository and branch flags, the content
repository (`GitPoll`) and the servers' goroutines (`Lifecycle`) are elsewhere.

### RateLimiter and Webhook (`webhook.go`, `clientip.go`, `reload.go`)

`allow` runs under one mutex: `Allowed` is its answer and `Charge` what it leaves behind,
`EvictExpired` and `MakeRoom` its evictions. The list is `LruList`'s, shared with
`NegCache`.

A delivery is a record: peer, forwarded hops, what its signature and body turn out to
be, event, branch. `Authenticity` and `Interest` are the checks in their order. `Reject`
charges the failures' budget, `Refuse` and `Accept` the verified one. `Accept` starts a
reload on the delivery's goroutine, of which the model keeps two steps: `Scan` (with the
configuration, or without it if it does not load) and `Publish`; `Reload` has them all.
`EditContent` and `EditSettings` change what they find. HMAC, JSON and CIDR matching are
outcomes: an address list holds addresses. `recent` (the live instants at which a client
was let through, since it last lost its place), `base` and `calm` (no other delivery has
reloaded along with this one) are history.

### ContentScan (`scanner.go`, `overlayfs.go` ReadDir and ReadFile)

The state of a scan is what `fs.WalkDir` has still to visit (`work`) and the posts and
pages found. `Enter` is the Stat of a walk's root, `VisitDir` reads a merged directory when
the walk enters it, `VisitFile` reads a file and skips it, takes it or fails on its slug,
`NextTree` goes from the posts to the pages and `Check` finds slugs used twice across both and
sorts. The layers that can change do so between any two of these (`Put`, `Move`, `MakeDir`,
`RemoveDir`, `Shut`, `Unshut`). A document is a record of what the scan looks at, among it
whether the file can be read ("locked" if not). main scans in strict mode, which is what is
modelled.

The search of `ReadFile` and `Stat` begins at the layer that the negative cache names for the
path (`claims`), and a hit below the top is remembered (`Claimed`); nothing takes a
claim back, as in the wired process. So a copy put on an upper layer after a scan that read a
lower one stays hidden. A layer may also refuse to list a name, because its directory may not
be entered or because the name is a plain file there (`shut`): `ReadDir` asks every layer
and fails if one of them answers with such an error, and so does the scan (`refused`).

### SearchIndex, SitePages and Publish (`search/`, `handlers/`, `reload.go`)

`Build` folds `Admit` over the posts, which counts as the code counts: documents,
postings, bytes. A document has sets of terms; scores and their order are left out, since
nothing here depends on them. `SearchStatus` is what becomes of a query, `Results` one
page of it.

`SitePages` has `Paginate` and the URLs that handlers and templates make: a request is a
route, an argument and a page number, `Found` says whether it is answered with a page, `Links`
which requests the page leads to. `Normal` and `Arrives` stand for what the scan does to a
tag and what is left of it after `html/template` and the router; `Linked` and `Mapped` say the
same of a slug in a link on a page and in the sitemap, where nothing is escaped: `c#` arrives
as `c`, `100%` arrives from a page but not from the sitemap, and an empty slug is no route. The
home page is the post list (`Reload` has the other kinds), posts per page are positive as `Validate` has it, and the feed is enabled from the start. `FeedOf` and
`SitemapOf` are the documents with their dates; the body stands for its ETag. An empty Atom
feed also holds the time of the request, which is left out.

`Publish` puts the two together: `BeginReload` (with a changed configuration), the steps
of the scan, `PublishSnapshot` (with an index, or without one after a panic), and a reader
whose request loads the configuration (`Poll`) and then the snapshot (`Answer`). Overlapping
reloads are in `Reload` and `Webhook`.

## 3. The runs

| Run | Instance | Checks | States |
|---|---|---|---|
| `NegCacheRace` | 1 path, 3 layers, 2 resolvers, 1 invalidator, a backing that can be swapped in, 2 generations | `IInv`, `EntriesAreTrue`, `CalmResolveIsRight`, refinement `MissSpec` | 1 265 000 |
| `NegCacheLists` | 3 paths, 2 shards for a maximum of one entry, 1 resolver, 2 invalidators, 2 generations | `ListsMatchMaps`, `SizeCountsEntries`, `SizeStaysBounded`, `ResolveReturns`, `InvalidationReturns` | 79 000 |
| `OverlayReload` | 1 path, 2 layers | `ReloadedResolveIsRight` **violated** | |
| `ReloadPair` | 2 reloaders, 1 visitor, the home page moves, a broken theme | `IInv` (with the types), `ConfigFollowsLoader`, `AnswersAreOneGeneration`, `UnracedHomeIsCurrent` | 1 200 000 |
| `ReloadSerial` | 1 reloader, 1 visitor, 4 versions: config and scan of the second and theme of the third broken, the last one whole | `ThemeIsWhole`, `PagesAreNoNewerThanBase`, `ContentNeverGoesBack`, `ReloadReturns`, `ReloadPublishes`, `ReloadSettles` | 271 000 |
| `GitPoll` | 4 commits, sparse, 3 failures of any kind | `TypeOK`, `ReloadSeesWholeTree`, `SiteNeverGoesBack`, `PushRepairs` | 16 000 |
| `GitPollStop` | one stop | `StopKeepsContent` **violated** | |
| `Watch` | 4 directories, one inside another and one ignored, 4 edits, 2 events in the kernel's queue | `WatchTypeOK`, `SubdirectoriesAreWatched`, `NoticedIsLoaded`, `NoticedEditIsLoaded` | 181 000 |
| `Lifecycle` | a content directory without subdirectories, 1 edit, 1 event, 1 request | `TypeOK`, `CleanExitIsShutdown`, `ServerFailureEndsProcess`, `SignalEndsProcess`, `StoppedSiteStays` | 49 000 |
| `Shutdown` | the same, without edits | `DrainsBeforeExit` **violated** | |
| `Webhook` | 90 files, 7 environments, 2 values of `--port`; 3 addresses, one of a proxy, a limiter of 2 clients, a window of 2 ticks, budgets of 1 and 2, 2 goroutines, 3 charged requests, 1 edit | `BudgetHolds`, `SignedIsNotStarved`, `ValidatedServes`, `UnracedDeliveryIsShown` | 244 000 |
| `Publish` | 2 layers, 4 trees to start from, 3 directories, 4 files (one named `100%`, one without a name before `.md`), 7 documents (one with the slug `c#`, one that cannot be read), 1 change at any moment, 2 configurations, 4 queries, 2 scans, a reader of either document with either validator | `ScanIsComplete`, `LinksResolve`, `IndexIsLargestPrefix`, `RevalidationIsCurrent` | 242 000 |

Why the bounds are enough to be interesting:

* `MaxGen = 2` in `NegCache`: a store can be overtaken by one invalidation and
  meet the entry of the next, which is what the two generation checks are about.
  Three paths and a capacity of one make an insert an eviction in one shard and fill the
  other, so that two entries are cached for a maximum of one; a third layer is
  needed to tell "at or beyond the layer" from "beyond the layer". The invariants
  are proved for all values. `MCListsSpec` lets every path be in the content directory or only
  in the defaults and changes no file, because the lists do not depend on when files change. The symmetry is over resolvers, in a run without liveness.
* `MaxVersion = 1`, `MaxGen = 2` with two reloaders: each may scan before or after the
  one edit and publish first or last. `BadTheme` makes one of them skip its stores. With one
  reloader, every kind of failure comes before the last version, which loads whole, so that
  `ReloadSettles` asks for its content, its theme and its config.
* Three faults in `GitPoll` suffice for a crash in the middle of a clone, a failure
  of the next pull and a stop; four commits allow a push between any two of them.

* Four edits in `Watch`: a directory is made, a directory in it, one of them goes and comes
  back, all while the first walk is under way; or a file is changed before, during
  and after a reload. Two events fill the queue, so that the kernel drops some.
* The files of `Webhook` set each setting to its bounds and to the first values beyond
  them, and the pairs that bound one another; the ones that are served with a webhook go on
  to deliveries. Two places in the limiter for three clients make it evict; three charged
  requests in two ticks with a budget of one or two fill a budget, let part of it expire and
  come back. Two goroutines are the fewest that overlap.
* One change in `Publish` may fall between any two steps of either scan: a file that moves
  ahead of the walk or behind it, a directory that goes or is locked, a document that breaks, a
  copy on the upper layer of a file that the first scan read from the lower one. Two
  configurations differ in every limit, so that page sizes and snapshots of different
  reloads meet; the limits of documents, postings and bytes each cut an index short.
* One edit in `Lifecycle` is enough to have a reload under way, or hung, when the strategy
  is stopped; directories add nothing there that `Watch` does not have.

A process of `Webhook` may fail to start and one of `Publish` may end with its first scan,
and both runs stop at their bounds (`CHECK_DEADLOCK FALSE`). The process of `Lifecycle` ends and the strategy of `Watch` may be stopped
(`CHECK_DEADLOCK FALSE`). The runs of `Reload` and `OverlayReload` stop at the bound on the versions and generations
(`CHECK_DEADLOCK FALSE` where it stands); the `NegCache` and `GitPoll` runs
check deadlock.

## 4. Fairness

* `NegCache`: strong fairness of each goroutine that has begun. Go schedules every
  runnable goroutine, and where one waits, it waits for a `sync.Mutex` or for the writer of a
  `sync.RWMutex`; both hand themselves to a waiter that others keep overtaking. No fairness for
  starting a resolve or an invalidation.
* `Reload`: weak fairness of a reloader that has begun; strong fairness of taking
  `reloadMu`, since a `sync.Mutex` in starvation mode hands the lock to the waiter
  that has waited for 1 ms. None for edits or visitors, and a reload need not begin.
* `GitPoll`: weak fairness of `Work`: the ticker ticks, calls return (with a result; the
  failures are not fair), and the orchestrator restarts a process that ended. Pushes
  and failures need not happen, and a failure is never forced.
* `Watch`: weak fairness of the walk, the timer, the reading of events, and the end of a
  reload, which may be that it hangs; strong fairness of `BeginReload`, because Go's
  `select` picks among the ready channels at random, so that a tick which is ready again
  and again is taken although events are ready too. Edits need not happen.
* `Webhook`, `Publish`: none; their properties are invariants.
* `Lifecycle`: weak fairness of `main`, of the servers, of the shutdown goroutine and of
  the return of `Stop`, whose context runs out after five seconds. None for reloads,
  answers, failures or signals.

## 5. What is proved

All theorems hold for every value of the constants that satisfies the module's
assumption (`NegCacheAssumption`, `ReloadAssumption`, `GitPollAssumption`,
`WatchAssumption`, `LifecycleAssumption`, `LimiterAssumption`, `WebhookAssumption`,
`ScanAssumption`, `DocAssumption`, `SiteAssumption`, `ConfigAssumption`), among them any
number of goroutines, paths, layers, versions, commits, failures, directories, edits, requests,
clients, configurations, deliveries, files, documents and terms.

**NegCache.** `EntriesAreTrue` is not inductive: a resolver is about to store what it
saw some steps ago. The argument is the code's own. As long as a resolver's generation is
current (`GenerationsLag`), its copy of a layer is the layer or that layer is
pending (`CopiesAreCurrent`), and the misses it has seen are true or of a pending layer
(`SeenMissesAreTrue`); an invalidation holds every shard lock (`LocksHeld`) from the
moment it starts to clear until it has moved the generation on, by when no entry claims
the layer (`ClearedBeforeBump`), so no store can fall between. `IInv` conjoins these
with the types, the ranges and the list invariant. From it: `NoStaleMiss`
(`EntriesAreTrue`), `CacheIsTransparent` (`CalmResolveIsRight`), `ListsAndMapsAgree`
(`ListsMatchMaps`), `ImplementsMissCache` (`MissSpec`: every step is a step of
`MissCache` or a stutter), `TypeIsCorrect`.

The size counter is a second invariant on top of `IInv`. `SizeInv` says that it is the
cardinality of the set `Counted`: the cached paths, less those whose insert is still to be
counted, and with those that are out of the maps and still to be discounted. Between the
emptying of the maps by `InvalidateAll` and its `Store(0)` it is only bounded. It needs
`ListsMatchMaps`, since the entry that an eviction takes from the end of the list must be in the
map for the count to stay right, and `CountsFollow`, by which no path is discounted twice and a
path that is still counted has left room in its shard's list. From it: `SizeIsCount`
(`SizeCountsEntries`: whenever no shard is locked, all these differences are gone, and the counter
is the number of entries) and `SizeIsBounded` (`SizeStaysBounded`, at every moment, whatever is
locked: one list per shard, none longer than its share, and the shares add up to the maximum
rounded up).

**Reload.** `IInv` says where the lock is held and that only there, between the
loader's store and the callback's, the two configs differ (`LoaderInv`); that every
snapshot in anyone's hands is of one generation (`GenerationInv`); that nobody holds
anything newer than the disk (`DiskInv`); and that a request no clear has raced has
loaded the current config and content, unless a clear is still to come (`HomeInv`). From
it: `LoaderAndHandlersAgree`, `NoMixedGenerations`, `UnracedFillsAreRight`,
`TypeIsCorrect`.

Three properties hold only of reloads that take turns, as those of every strategy but the
webhook do. Their theorems are of the form `Spec /\ []OneAtATime => ...`, where
`OneAtATime` says that at most one reloader is between its begin and its end, whether there is one
reloader or several that never overlap. `ThemeInv` says that base and pages are of one parse
except between the two stores, that the parse is no older than either, and that a renderer, which
takes the pages first, finds a base no older; `ProgressInv` that what the reload
holds is at least as new as what is published. From `SerialInv`, their conjunction:
`ThemeStaysWhole`, `RenderedPagesAreNoNewer`, `ContentOnlyGrows`; and
`OneGoroutineIsSerial` has them without the hypothesis where there is one reloader. The webhook's
overlapping reloads are the reason for the hypothesis: there the properties fail, and
`UnracedDeliveryIsShown` is what is left of them.

**GitPoll.** `OnItsWay` says what holds at the places before a tick's reload (the
clone and the reset bring `head` to `tracking`, checkout and reset bring `tree` to
`head`); `Ages` orders what is served, checked out, fetched and pushed, and says that a
process which is still to scan serves nothing. From their conjunction with the types:
`TicksReloadWholeTrees`, `ServedCommitsOnlyGrow`, `TypeIsCorrect`.

**Watch.** `SubdirectoriesAreWatched` and `NoticedIsLoaded` speak of a goroutine that has
read everything; the invariant says what is still on its way before that.
`AllCovered`: a directory inside a watched one is watched or ignored, or the walk
has still to add it, or still to read its parent, or its event is in the queue; this is
why `WalkDir` must add a directory before it reads it. `AllPending`: the last noticed edit is
loaded, or in the running reload, or the timer will bring a reload, or an
event for it is queued, unless a reload failed or an event was dropped. `Aligned` ties
the program counter to timer, walk and Stop. From it: `NoDirectoryEscapes`, `NoNoticeIsLost`,
`StopIsFinal` (`StoppedSiteStays`: an error-free Stop has seen the goroutine end),
`TypesHold`.

**Lifecycle.** `ProcessRunsStrategy` shows that every behaviour of the process is one of
`WatchSpec`, so that `NoticedIsLoaded` and `StoppedSiteStays` carry over by
implication (`ProcessLosesNoNotice`, `DrainingSiteStays`). `InStep` says that
the shutdown goroutine goes on only after a signal, drains only after Stop came back, and
alone shuts the servers, and that the site's channel holds no error only then; from it and
the types `SuccessMeansShutdown` and `ProcessTypesHold`.

**Webhook.** Four invariants, each with its own argument:

* `ValidatedServesHolds`: `StartInv` says where main is, that past the load `cfg` is a
  validated configuration but for `--port` (`Checked`), why it gave up (`Reason`), that the
  routes are those of `cfg`, and that the limits of the loaded configuration and of the index
  are limits. Every panic and error of a later part is then excluded by a conjunct of
  `Valid`, or is one of the exceptions the property names.
* `BudgetHoldsAlways`, `SignedIsNotStarvedHolds`: `BudgetInv` says that both limiters are sound
  (each client on the list once, exactly those with stamps, stamps in order and no later than
  the clock) and that `recent[c]` is the live part of `c`'s stamps. The step that matters is
  `EvictExpired`: it drops only clients without a live stamp. `LimitersAgree` is the part
  about list and map.
* `UnracedDeliveryHolds`: `ShownInv` bounds what a calm delivery has scanned from below by the
  version when it began, and what the site shows by what calm deliveries have published.

**Publish.** One invariant for the way from the files to the reader, `SiteInv`, in three parts:

* `ScanInv`, the scan of a tree that changes under it. The core is `CoverInv`: a file that is due
  and has been what it is since the scan began was found, or lies in the tree of something that is still
  to be visited. It is not inductive alone: taking a directory off the work list must put
  what is in it back on (`VisitDir`), which needs that nothing on the list contains another thing
  on it and that nothing found is ahead again (`WorkInv`: else a file would be found twice), and
  that a listed directory is still there unless one has vanished (`ListedInv`). `ExactInv` says
  the converse for scans that nothing disturbs: what was found is due, and a failure has
  two files with one slug, or one file in both trees, behind it. What is due is what the claims
  let the scan see: for a file whose claim passes over a layer that has something to say of it
  (`Hidden`) that is the lower copy, for every other the highest. From it:
  `ScansAreComplete` (`ScanIsComplete`). A scan that a directory was refused to fails, and what
  was published stays.
* `ServedInv`: what is served is sorted by date and its index is `Build` of its posts
  under the limits of some configuration. Since limits are monotone in the number of posts, the
  first post that does not fit ends the index: `IndexesHoldTheNewestPosts`
  (`IndexIsLargestPrefix`). A configuration may be newer than the snapshot it meets
  in a request, and pages, results and links are shown to fit together for any such pair:
  `LinksLeadSomewhere` (`LinksResolve`), for whatever `Linked`, `Mapped` and `Arrives` make of slugs
  and tags: the links excepted are those of three named kinds (`Crooked`), and none else.
* `CopyInv`: what a reader has is dated, and current as `RevalidationIsCurrent` has it
  (`CopiesAreCurrent`); the case that matters is a document whose date has not moved although
  its body has.

The lemmas it rests on are about the operators of the model: a fold over a sequence taken step by
step (`SearchIndex`'s counters are the counts of a prefix), sums over finite sets, the rank of an
element (`SortedByDate`, `SortedByWeight`: a sorted list has the elements of the list it is
made of, in order), trees of directories
(`TreesAreNested`, `SiblingsAreApart`, `AncestorsExist`), the pages of a list (`PagesForKnows`,
`PageOfList`, `PageExists`, and `PagesJoined`: one after the other the pages are the
list). `ScanAssumption` asks that directories form trees and names in one differ,
`DocAssumption` and `SiteAssumption` give the data its types, and `ConfigAssumption` is what
`Validate` lets through; `max_docs` of at most 1 000 000 is what lets the page numbers of
a search, which end there, reach every match.

**LruListProofs** has the lemmas about lists without duplicates that the proofs about
`NegCache` and the limiter share.

Every invariant and every action property that a passing run checks is stated by a theorem, three
of them for reloads that take turns. Only model-checked is the liveness (`ResolveReturns`, `InvalidationReturns`, `ReloadReturns`,
`ReloadPublishes`, `ReloadSettles`, `PushRepairs`, `NoticedEditIsLoaded`,
`ServerFailureEndsProcess`, `SignalEndsProcess`), which rests on fairness and so on ENABLED and is
out of the prover's reach. Induction over data is too: where a fold or a sum over any number of
elements is needed, the proofs go over the smallest place at which a claim could fail, or take the
recursive function that the library's definitions choose.

## 6. Where code and documents disagree

Shown by a run:

* `OverlayReload`: a reload does not invalidate the negative cache
  (`reload.go:154` flushes only the render cache), against
  `docs/engineering/design/overlay-filesystem.md:799`. A path resolved while only the defaults
  had it keeps skipping a content file added later, across reloads, until an eviction
  or a restart. A scan does this to itself: a post it read from the defaults is read from them
  again after a copy was put into the content directory. Such copies (`Hidden`) are an exception of
  `ScanIsComplete`, which asks for the lower copy then.
* `GitPollStop`: a stop during a fetch deletes the checkout
  (`pull.go:377` against `docs/deployment-guide.md:491`).
* `Shutdown`: `main` does not wait for its shutdown goroutine. `Serve` returns when
  `Shutdown` begins, `main` returns after it, and the requests in flight end with the
  process (`main.go:344` against `server.go:232` and `main.go:276`).

Seen while modelling, not made a run (a property with the exception named passes where one
is given):

* `handlers.go:250` fills the cached home page after a clear it has not seen: a request that
  loaded the old configuration stores the old page, which stays until the next reload, against
  the comment of `SetConfig` (`handlers.go:72`: "takes effect immediately").
  `UnracedHomeIsCurrent` exempts fills that a clear has overtaken;
* a reload that fails after a pull is not retried before the next push (`poll.go:148`
  against `poll.go:12`, "all replicas eventually sync"). `PushRepairs` asks for the next push;
* two reloads started by two webhook requests are not serialised: `SetSnapshot` compares no
  generations and `NextGeneration` is taken after the scan, so that both deliveries are answered
  200 and the older content stays (`reload.go:151`, `handlers.go:114`). `ReloadSerial` checks
  `ContentNeverGoesBack` for one reload at a time, which is how all other strategies run
  them; `UnracedDeliveryIsShown` exempts overlapping deliveries;
* a directory that vanishes during a scan ends the walk of its tree with `fs.ErrNotExist`, which
  `Scan` takes for a tree that was never there: a truncated index is published
  (`scanner.go:178-201`). `ScanIsComplete` exempts such scans. And a file that moves from behind
  the walk to a place ahead of it can be met twice, which fails the scan on a duplicate slug;
* three kinds of link lead to a 404 or elsewhere, and are the exceptions of `LinksResolve`. The
  sitemap lists a page as `/slug` (`sitemap.go:63`), it is served at `/pages/slug`. The link of a
  tag is the tag as written (`post-meta.html:13`, `search-result.html:16`), while tags are filed
  in lower case without blanks, and `#`, `?` and `/` are not escaped. And a slug may be any single
  segment (`frontmatter.go:90`, `scanner.go:322`), also with `#`, `?` or `%` or empty, and becomes a
  link as it is (`list.html:9`, `internal/search/search.go:200`, `sitemap.go:52`): the link of
  `c#.md` is a request for `/posts/c`. A tag in two spellings on one post lists that post twice
  (`scanner.go:231-237`);
* two reloads that overlap between the two stores of the theme (`theme.go:164`) can leave the base
  of one with the pages of the other until the next reload. `ThemeIsWhole` is checked, and
  proved, for reloads that take turns;
* a reader that sends only `If-Modified-Since` is answered 304 for a document whose entries
  changed, since Last-Modified is the date of the newest post and `updated` is not looked at
  (`cache.go:49`, `docs/content-authoring.md:50`): the exception of
  `RevalidationIsCurrent`;
* `docs/content-authoring.md:232` says that a malformed post aborts the whole scan; a post
  that cannot be read or parsed, without a date or with a bad name is skipped
  (`scanner.go:273-330`), and the scan as modelled and checked goes on;
* one directory that one layer cannot list (not readable, or a plain file of the same name) fails
  every scan from then on (`overlayfs.go:431-436`), although another layer has the
  directory: the site stays as it was, and a process that starts then ends;
* settings that pass `Validate` and end the process (the exceptions of `ValidatedServes`,
  against `configuration-system.md:21`, "fails fast on invalid configuration"): directories
  with a slash at their end, empty or through `.git`, which the overlay refuses; a webhook path
  with a blank or one that is no pattern, which panics; a `--port` out of range or equal to the
  ops port. A webhook path equal to that of a probe is unreachable behind `private_health`;
* the settings of a disabled feed are not validated because they are called inert
  (`loader.go:884-890`), but a feed that was enabled at the start stays registered and reads
  them;
* expired clients of the limiter go only from the back of the list (`webhook.go:377`): a
  refused client moves to the front with its old stamps, and expired ones in front of a live one
  stay until the capacity drops them;
* a signal between the start of the goroutines and the startup select leaves the server
  marked ready while it shuts down (`main.go:333`);
* a directory that vanishes while `addRecursive` walks ends the walk for its siblings
  too (`watch.go:195`), and a file written into a new directory before its watch exists
  starts no reload;

* the size metric, read between a change of the maps and that of the counter
  (`metrics.go:93`, `overlayfs.go:635-641`, `752-761`), is ahead of the entries or behind them;
* each shard may hold `ceil(max/16)` entries, so the total may exceed
  `maxNegCacheEntries` (`overlayfs.go:76`, `:664`) by up to 15; and a full shard evicts,
  where `overlay-filesystem.md:558` says new misses skip caching;
* a search request loads config and snapshot separately (`search.go:52`), where
  `001-full-text-search.md:132` says config, content and search are always of one
  generation;
* `PushRepairs` exempts a `.git` without `HEAD`: it makes every later `CloneOrPull`
  return an error (`pull.go:325`-`332`), and nothing but deleting it by hand helps;
* CLI overrides are copied into main's config only (`main.go:132`-`148`): the server keeps
  the port, the loader and, after a reload, the handlers never have it.

## 7. Not modelled

* Text: rendering, sanitising, parsing of front matter, YAML and Git URLs, tokenising,
  excerpts, scores and their order, credential redaction, markup.
* `SidecarStrategy` (`sidecar.go`), which polls one symlink and reloads; best effort of the
  scanner, which only tests ask for.
* In the scan: evictions from the negative cache (`NegCache` has them), which would let hidden
  copies be seen again, and symlinked directories.
* `OpenFile` and the overlay's construction; symlink checks (an outcome, "blocked").
* The render cache, which `main` creates and flushes and nothing reads or fills.
* Metrics, telemetry, request identifiers, environment files, authentication: set up once, or
  never read back.
* `Loader.Watch` and `SidecarStrategy.SetDir`, which nothing in the program calls.
* The healthcheck command, the server's middleware and the answers of the probes.

## 8. The plan

Done: `MissCache`, `NegCache`, `OverlayReload`, `Reload`, `GitPoll`, `Watch`, `Lifecycle`,
`Settings`, `Startup`, `RateLimiter`, `Webhook`, `ContentScan`, `SearchIndex`, `SitePages`,
`Publish`; all but `OverlayReload` with proofs (`MissCache` as what `NegCache` implements).

1. Proofs: what a scan promises as an abstract specification of its own, "a scan takes one
   picture of every file that nobody touches", with `ContentScan` implementing it; the limiter as
   an implementation of a sliding window per client; safety lemmas on which the liveness of
   `Reload` and `GitPoll` rests (which step is enabled at which place).
2. `Sidecar` (`sidecar.go`): the symlink that is polled, its last target, first poll and
   reload failures. Property: a swap of the link is loaded even if the reload after the first
   swap failed.
3. `Lifecycle` with the poll strategy in the place of the watch strategy.

Independent small modules share runs, one `MC` module for several, since each run should ask
one question of the system rather than of one file.
