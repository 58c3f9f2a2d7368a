---------------------------- MODULE ReloadProofs ----------------------------
(***************************************************************************)
(* Proofs about Reload, for any number of reloaders and visitors, any      *)
(* number of versions and any set of broken ones.                          *)
(***************************************************************************)
EXTENDS Reload, TLAPS

(* The lock, the loader's config and the handlers' stay well typed. *)
LEMMA LoaderTypesStep ==
  ASSUME TypeOK, [Next]_vars
  PROVE  LoaderTypes'
<1> USE DEF TypeOK, LoaderTypes, SiteTypes, ReloaderTypes, VisitorTypes, At, Go, FallBack,
            loaderVars, themeVars, siteVars, reloaderVars, visitorVars
<1>1. CASE Edit
  BY <1>1 DEF Edit
<1>2. ASSUME NEW r \in Reloaders, BeginReload(r) \/ Reload(r)
      PROVE  LoaderTypes'
  BY <1>2 DEF BeginReload, Reload, LockReload, LoadFails, LoadConfig, SetConfig, UnlockReload,
     ParseTheme, StoreBase, StorePages, Scan, GetTunables, Build, Publish, EndReload
<1>3. ASSUME NEW v \in Visitors, Visit(v)
      PROVE  LoaderTypes'
  BY <1>3 DEF Visit, BeginRequest, VisitConfig, VisitSnapshot, HomeIsList, HomeIsStatic,
     ReadHome, HomeIsMissing, FillHome, VisitPages, Respond
<1>4. CASE UNCHANGED vars
  BY <1>4 DEF vars
<1>. QED
  BY <1>1, <1>2, <1>3, <1>4 DEF Next

(* The disk, the theme, the snapshot and the cached home page stay well typed. *)
LEMMA SiteTypesStep ==
  ASSUME TypeOK, [Next]_vars
  PROVE  SiteTypes'
<1> USE ReloadAssumption
    DEF TypeOK, LoaderTypes, SiteTypes, ReloaderTypes, VisitorTypes, At, Go, FallBack, Versions,
            loaderVars, themeVars, siteVars, reloaderVars, visitorVars
<1>1. CASE Edit
  BY <1>1 DEF Edit
<1>2. ASSUME NEW r \in Reloaders, BeginReload(r) \/ Reload(r)
      PROVE  SiteTypes'
  <2>1. CASE Publish(r)
    BY <2>1 DEF Publish
  <2>2. CASE Build(r)
    BY <2>2 DEF Build
  <2>3. CASE StoreBase(r) \/ StorePages(r)
    BY <2>3 DEF StoreBase, StorePages
  <2>4. CASE UnlockReload(r) \/ EndReload(r)
    BY <2>4 DEF UnlockReload, EndReload, ClearHome
  <2>5. CASE \/ BeginReload(r) \/ LockReload(r) \/ LoadFails(r) \/ LoadConfig(r) \/ SetConfig(r)
             \/ ParseTheme(r) \/ Scan(r) \/ GetTunables(r)
    BY <2>5 DEF BeginReload, LockReload, LoadFails, LoadConfig, SetConfig,
       ParseTheme, Scan, GetTunables
  <2>. QED
    BY <1>2, <2>1, <2>2, <2>3, <2>4, <2>5 DEF Reload
<1>3. ASSUME NEW v \in Visitors, Visit(v)
      PROVE  SiteTypes'
  <2>1. CASE FillHome(v)
    <3>1. [path |-> HomeOf[vcfg[v]], version |-> vread[v], raced |-> raced[v]] \in Homes
      BY DEF Homes
    <3>. QED
      BY <2>1, <3>1 DEF FillHome
  <2>2. CASE ~FillHome(v)
    BY <1>3, <2>2 DEF Visit, BeginRequest, VisitConfig, VisitSnapshot, HomeIsList, HomeIsStatic,
       ReadHome, HomeIsMissing, VisitPages, Respond
  <2>. QED
    BY <2>1, <2>2
<1>4. CASE UNCHANGED vars
  BY <1>4 DEF vars
<1>. QED
  BY <1>1, <1>2, <1>3, <1>4 DEF Next

(* The reloaders' locals stay well typed. *)
LEMMA ReloaderTypesStep ==
  ASSUME TypeOK, [Next]_vars
  PROVE  ReloaderTypes'
<1> USE DEF TypeOK, LoaderTypes, SiteTypes, ReloaderTypes, At, ReloaderPlaces,
            loaderVars, themeVars, siteVars, reloaderVars, visitorVars
<1>1. CASE Edit
  BY <1>1 DEF Edit
<1>2. ASSUME NEW r \in Reloaders, BeginReload(r) \/ Reload(r)
      PROVE  ReloaderTypes'
  <2>1. CASE Build(r)
    <3>1. ASSUME NEW ok \in BOOLEAN
          PROVE  BuiltSnapshot(r, gen + 1, ok) \in Snapshots
      BY DEF BuiltSnapshot, SnapshotOf, SearchOf, Snapshots, Searches
    <3>. QED
      BY <2>1, <3>1 DEF Build
  <2>2. CASE ~Build(r)
    BY <1>2, <2>2 DEF BeginReload, Reload, LockReload, LoadFails, LoadConfig, SetConfig, UnlockReload,
       ParseTheme, StoreBase, StorePages, Scan, GetTunables, Publish, EndReload, ClearHome
  <2>. QED
    BY <2>1, <2>2
<1>3. ASSUME NEW v \in Visitors, Visit(v)
      PROVE  ReloaderTypes'
  BY <1>3 DEF Visit, BeginRequest, VisitConfig, VisitSnapshot, HomeIsList, HomeIsStatic,
     ReadHome, HomeIsMissing, FillHome, VisitPages, Respond, FallBack
<1>4. CASE UNCHANGED vars
  BY <1>4 DEF vars
<1>. QED
  BY <1>1, <1>2, <1>3, <1>4 DEF Next

(* The handlers' locals stay well typed. *)
LEMMA VisitorTypesStep ==
  ASSUME TypeOK, [Next]_vars
  PROVE  VisitorTypes'
<1> USE DEF TypeOK, LoaderTypes, SiteTypes, VisitorTypes, Go, VisitorPlaces, Kinds,
            loaderVars, themeVars, siteVars, reloaderVars, visitorVars
<1>1. CASE Edit
  BY <1>1 DEF Edit
<1>2. ASSUME NEW r \in Reloaders, BeginReload(r) \/ Reload(r)
      PROVE  VisitorTypes'
  BY <1>2 DEF BeginReload, Reload, LockReload, LoadFails, LoadConfig, SetConfig, UnlockReload,
     ParseTheme, StoreBase, StorePages, Scan, GetTunables, Build, Publish, EndReload, ClearHome
<1>3. ASSUME NEW v \in Visitors, Visit(v)
      PROVE  VisitorTypes'
  <2>1. CASE Respond(v)
    <3>1. Answer(v) \in Answers
      BY DEF Answer, Answers
    <3>. QED
      BY <2>1, <3>1 DEF Respond
  <2>2. ASSUME NEW k \in Kinds, BeginRequest(v, k)
        PROVE  VisitorTypes'
    BY <2>2 DEF BeginRequest
  <2>3. CASE VisitConfig(v)
    BY <2>3 DEF VisitConfig, AfterConfig
  <2>4. CASE VisitSnapshot(v)
    BY <2>4 DEF VisitSnapshot
  <2>5. CASE HomeIsList(v) \/ HomeIsMissing(v)
    BY <2>5 DEF HomeIsList, HomeIsMissing, FallBack
  <2>6. CASE HomeIsStatic(v)
    BY <2>6 DEF HomeIsStatic
  <2>7. CASE ReadHome(v) \/ FillHome(v)
    BY <2>7 DEF ReadHome, FillHome
  <2>8. CASE VisitPages(v)
    BY <2>8 DEF VisitPages
  <2>. QED
    BY <1>3, <2>1, <2>2, <2>3, <2>4, <2>5, <2>6, <2>7, <2>8 DEF Visit
<1>4. CASE UNCHANGED vars
  BY <1>4 DEF vars
<1>. QED
  BY <1>1, <1>2, <1>3, <1>4 DEF Next

(* Every step keeps the types. *)
LEMMA TypeStep ==
  ASSUME TypeOK, [Next]_vars
  PROVE  TypeOK'
BY ONLY TypeOK, [Next]_vars, LoaderTypesStep, SiteTypesStep, ReloaderTypesStep, VisitorTypesStep
   DEF TypeOK

(* The lock orders the two stores of the config, so they agree when it is free. *)
LEMMA LoaderStep ==
  ASSUME TypeOK, LoaderInv, [Next]_vars
  PROVE  LoaderInv'
<1> USE ReloadAssumption
    DEF TypeOK, LoaderTypes, ReloaderTypes, LoaderInv, Inside, Clearing, At,
        loaderVars, themeVars, siteVars, reloaderVars, visitorVars
<1>1. CASE Edit
  BY <1>1 DEF Edit
<1>2. ASSUME NEW r \in Reloaders, BeginReload(r) \/ Reload(r)
      PROVE  LoaderInv'
  <2>1. CASE LockReload(r)
    BY <2>1 DEF LockReload
  <2>2. CASE LoadFails(r)
    BY <2>2 DEF LoadFails
  <2>3. CASE LoadConfig(r)
    BY <2>3 DEF LoadConfig
  <2>4. CASE SetConfig(r)
    BY <2>4 DEF SetConfig
  <2>5. CASE UnlockReload(r)
    BY <2>5 DEF UnlockReload
  <2>6. CASE ParseTheme(r) \/ Scan(r)
    BY <2>6 DEF ParseTheme, Scan
  <2>7. CASE BeginReload(r) \/ StoreBase(r) \/ StorePages(r) \/ GetTunables(r) \/ Build(r)
             \/ Publish(r) \/ EndReload(r)
    BY <2>7 DEF BeginReload, StoreBase, StorePages, GetTunables, Build, Publish, EndReload
  <2>. QED
    BY <1>2, <2>1, <2>2, <2>3, <2>4, <2>5, <2>6, <2>7 DEF Reload
<1>3. ASSUME NEW v \in Visitors, Visit(v)
      PROVE  LoaderInv'
  BY <1>3 DEF Visit, BeginRequest, VisitConfig, VisitSnapshot, HomeIsList, HomeIsStatic,
     ReadHome, HomeIsMissing, FillHome, VisitPages, Respond, FallBack
<1>4. CASE UNCHANGED vars
  BY <1>4 DEF vars
<1>. QED
  BY <1>1, <1>2, <1>3, <1>4 DEF Next

(* What Build makes is of one generation, whether the search build panics or not. *)
LEMMA BuiltOneGeneration ==
  ASSUME NEW r \in Reloaders, NEW g \in Nat, NEW ok \in BOOLEAN
  PROVE  /\ OneGeneration(BuiltSnapshot(r, g, ok))
         /\ BuiltSnapshot(r, g, ok).content = hand[r]
BY DEF OneGeneration, BuiltSnapshot, SnapshotOf, SearchOf

(* A snapshot moves whole: from a build to Deps.snap, to a handler, to its answer. *)
LEMMA GenerationStep ==
  ASSUME TypeOK, GenerationInv, [Next]_vars
  PROVE  GenerationInv'
<1> USE DEF TypeOK, SiteTypes, ReloaderTypes, VisitorTypes, GenerationInv, AnswersAreOneGeneration,
        loaderVars, themeVars, siteVars, reloaderVars, visitorVars
<1>1. CASE Edit
  BY <1>1 DEF Edit
<1>2. ASSUME NEW r \in Reloaders, BeginReload(r) \/ Reload(r)
      PROVE  GenerationInv'
  <2>1. CASE Build(r)
    BY <2>1, BuiltOneGeneration DEF Build
  <2>2. CASE Publish(r)
    BY <2>2 DEF Publish
  <2>3. CASE ~Build(r) /\ ~Publish(r)
    BY <1>2, <2>3 DEF BeginReload, Reload, LockReload, LoadFails, LoadConfig, SetConfig,
       UnlockReload, ParseTheme, StoreBase, StorePages, Scan, GetTunables, EndReload
  <2>. QED
    BY <2>1, <2>2, <2>3
<1>3. ASSUME NEW v \in Visitors, Visit(v)
      PROVE  GenerationInv'
  <2>1. CASE Respond(v)
    <3>1. Answer(v).snap = vsnap[v]
      BY DEF Answer
    <3>. QED
      BY <2>1, <3>1 DEF Respond
  <2>2. CASE VisitSnapshot(v)
    BY <2>2 DEF VisitSnapshot
  <2>3. ASSUME NEW k \in Kinds, BeginRequest(v, k)
        PROVE  GenerationInv'
    BY <2>3 DEF BeginRequest
  <2>4. CASE \/ VisitConfig(v) \/ HomeIsList(v) \/ HomeIsStatic(v) \/ ReadHome(v)
             \/ HomeIsMissing(v) \/ FillHome(v) \/ VisitPages(v)
    BY <2>4 DEF VisitConfig, HomeIsList, HomeIsStatic, ReadHome, HomeIsMissing, FillHome,
       VisitPages, FallBack
  <2>. QED
    BY <1>3, <2>1, <2>2, <2>3, <2>4 DEF Visit
<1>4. CASE UNCHANGED vars
  BY <1>4 DEF vars
<1>. QED
  BY <1>1, <1>2, <1>3, <1>4 DEF Next

(* Versions only come from the disk, and the disk only moves on. *)
LEMMA DiskStep ==
  ASSUME TypeOK, DiskInv, [Next]_vars
  PROVE  DiskInv'
<1> USE DEF TypeOK, SiteTypes, ReloaderTypes, DiskInv, Versions, Snapshots,
        loaderVars, themeVars, siteVars, reloaderVars, visitorVars
<1>1. CASE Edit
  BY <1>1 DEF Edit
<1>2. ASSUME NEW r \in Reloaders, BeginReload(r) \/ Reload(r)
      PROVE  DiskInv'
  <2>1. CASE Build(r)
    BY <2>1, BuiltOneGeneration DEF Build
  <2>2. CASE Publish(r)
    BY <2>2 DEF Publish
  <2>3. CASE ~Build(r) /\ ~Publish(r)
    BY <1>2, <2>3 DEF BeginReload, Reload, LockReload, LoadFails, LoadConfig, SetConfig,
       UnlockReload, ParseTheme, StoreBase, StorePages, Scan, GetTunables, EndReload
  <2>. QED
    BY <2>1, <2>2, <2>3
<1>3. ASSUME NEW v \in Visitors, Visit(v)
      PROVE  DiskInv'
  BY <1>3 DEF Visit, BeginRequest, VisitConfig, VisitSnapshot, HomeIsList, HomeIsStatic,
     ReadHome, HomeIsMissing, FillHome, VisitPages, Respond, FallBack
<1>4. CASE UNCHANGED vars
  BY <1>4 DEF vars
<1>. QED
  BY <1>1, <1>2, <1>3, <1>4 DEF Next

(* Store, then clear: a fill that saw the old value is marked by the clear. *)
LEMMA HomeStep ==
  ASSUME TypeOK, DiskInv, HomeInv, [Next]_vars
  PROVE  HomeInv'
<1> USE DEF TypeOK, LoaderTypes, SiteTypes, ReloaderTypes, VisitorTypes, DiskInv, HomeInv,
        UnracedHomeIsCurrent, HomeIsConfigured, HomeIsRecent, Clearing, Versions, Snapshots, Homes,
        loaderVars, themeVars, siteVars, reloaderVars, visitorVars
<1>1. CASE Edit
  BY <1>1 DEF Edit
<1>2. ASSUME NEW r \in Reloaders, BeginReload(r) \/ Reload(r)
      PROVE  HomeInv'
  <2>1. CASE SetConfig(r)
    BY <2>1 DEF SetConfig, At
  <2>2. CASE Publish(r)
    BY <2>2 DEF Publish, At
  <2>3. CASE UnlockReload(r)
    BY <2>3 DEF UnlockReload, ClearHome, At
  <2>4. CASE EndReload(r)
    BY <2>4 DEF EndReload, ClearHome, At
  <2>5. CASE \/ BeginReload(r) \/ LockReload(r) \/ LoadFails(r) \/ LoadConfig(r) \/ ParseTheme(r)
             \/ StoreBase(r) \/ StorePages(r) \/ Scan(r) \/ GetTunables(r) \/ Build(r)
    BY <2>5 DEF BeginReload, LockReload, LoadFails, LoadConfig,
       ParseTheme, StoreBase, StorePages, Scan, GetTunables, Build, At
  <2>. QED
    BY <1>2, <2>1, <2>2, <2>3, <2>4, <2>5 DEF Reload
<1>3. ASSUME NEW v \in Visitors, Visit(v)
      PROVE  HomeInv'
  <2>1. CASE VisitConfig(v)
    BY <2>1 DEF VisitConfig, Go, AfterConfig
  <2>2. CASE ReadHome(v)
    BY <2>2 DEF ReadHome, Go
  <2>3. CASE FillHome(v)
    BY <2>3 DEF FillHome, Go
  <2>4. ASSUME NEW k \in Kinds, BeginRequest(v, k)
        PROVE  HomeInv'
    BY <2>4 DEF BeginRequest, Go
  <2>5. CASE \/ VisitSnapshot(v) \/ HomeIsList(v) \/ HomeIsStatic(v) \/ HomeIsMissing(v)
             \/ VisitPages(v) \/ Respond(v)
    BY <2>5 DEF VisitSnapshot, HomeIsList, HomeIsStatic, HomeIsMissing, VisitPages, Respond,
       FallBack, Go
  <2>. QED
    BY <1>3, <2>1, <2>2, <2>3, <2>4, <2>5 DEF Visit
<1>4. CASE UNCHANGED vars
  BY <1>4 DEF vars
<1>. QED
  BY <1>1, <1>2, <1>3, <1>4 DEF Next

(* The program starts with everything at version 0 and nothing cached. *)
LEMMA InitIInv == Init => IInv
<1> SUFFICES ASSUME Init
             PROVE  IInv
  OBVIOUS
<1>1. snap \in Snapshots /\ OneGeneration(snap) /\ snap.content = 0
  BY ReloadAssumption
     DEF Init, FirstSnapshots, SnapshotOf, SearchOf, Snapshots, Searches, Versions, OneGeneration
<1>2. 0 \in Versions
  BY ReloadAssumption DEF Versions
<1>3. TypeOK
  <2>1. snap.gen \in Nat
    BY <1>1 DEF Snapshots
  <2>. QED
    BY <1>1, <1>2, <2>1 DEF Init, TypeOK, LoaderTypes, SiteTypes, ReloaderTypes, VisitorTypes,
       ReloaderPlaces, VisitorPlaces, Kinds
<1>4. LoaderInv
  BY ReloadAssumption DEF Init, LoaderInv, Inside
<1>5. GenerationInv
  BY <1>1 DEF Init, GenerationInv, AnswersAreOneGeneration
<1>6. DiskInv
  BY <1>1 DEF Init, DiskInv
<1>7. HomeInv
  BY DEF Init, HomeInv, UnracedHomeIsCurrent
<1>. QED
  BY <1>3, <1>4, <1>5, <1>6, <1>7 DEF IInv

(* Every reachable state satisfies the inductive invariant. *)
THEOREM IInvHolds == Spec => []IInv
<1>1. IInv /\ [Next]_vars => IInv'
  BY TypeStep, LoaderStep, GenerationStep, DiskStep, HomeStep DEF IInv
<1>. QED
  BY InitIInv, <1>1, PTL DEF Spec

(* Variables keep their types, for any number of goroutines and versions. *)
THEOREM TypeIsCorrect == Spec => []TypeOK
<1>1. IInv => TypeOK
  BY DEF IInv
<1>. QED
  BY <1>1, IInvHolds, PTL

(***************************************************************************)
(* Whatever reloads run side by side, the handlers' config is the loader's *)
(* whenever reloadMu is free.                                              *)
(***************************************************************************)
THEOREM LoaderAndHandlersAgree == Spec => []ConfigFollowsLoader
<1>1. IInv => ConfigFollowsLoader
  BY ReloadAssumption DEF IInv, LoaderInv, ConfigFollowsLoader, Clearing, Inside
<1>. QED
  BY <1>1, IInvHolds, PTL

(* No answer mixes the search index of one generation with another's content. *)
THEOREM NoMixedGenerations == Spec => []AnswersAreOneGeneration
<1>1. IInv => AnswersAreOneGeneration
  BY DEF IInv, GenerationInv
<1>. QED
  BY <1>1, IInvHolds, PTL

(* A cached home page no clear has raced is of the configured path and the   *)
(* published content, or its clear is still to come.                         *)
THEOREM UnracedFillsAreRight == Spec => []UnracedHomeIsCurrent
<1>1. IInv => UnracedHomeIsCurrent
  BY DEF IInv, HomeInv
<1>. QED
  BY <1>1, IInvHolds, PTL

(***************************************************************************)
(* One reload at a time.                                                   *)
(***************************************************************************)

(* A lone reload stores the base and then the pages of one parse, which is *)
(* no older than what it replaces; a renderer takes them in reverse order. *)
LEMMA ThemeStep ==
  ASSUME IInv, OneAtATime, ThemeInv, [Next]_vars
  PROVE  ThemeInv'
<1> USE DEF IInv, TypeOK, LoaderTypes, SiteTypes, ReloaderTypes, VisitorTypes, DiskInv, Versions,
            ThemeInv, ThemeIsWhole, PagesAreNoNewerThanBase, Clearing, OneAtATime,
            loaderVars, themeVars, siteVars, reloaderVars, visitorVars
<1>1. CASE Edit
  BY <1>1 DEF Edit
<1>2. ASSUME NEW r \in Reloaders, BeginReload(r) \/ Reload(r)
      PROVE  ThemeInv'
  <2>1. CASE ParseTheme(r)
    BY <2>1 DEF ParseTheme, At
  <2>2. CASE StoreBase(r)
    <3>1. /\ \A o \in Reloaders : rpc[o] # "idle" => o = r
          /\ rpc[r] = "base" /\ base <= hand[r] /\ hand[r] <= disk
      BY <2>2 DEF StoreBase, At
    <3>. QED
      BY <2>2, <3>1 DEF StoreBase, At
  <2>3. CASE StorePages(r)
    BY <2>3 DEF StorePages, At
  <2>4. CASE \/ BeginReload(r) \/ LockReload(r) \/ LoadFails(r) \/ LoadConfig(r) \/ SetConfig(r)
             \/ UnlockReload(r)
    BY <2>4 DEF BeginReload, LockReload, LoadFails, LoadConfig, SetConfig, UnlockReload, At
  <2>5. CASE Scan(r) \/ GetTunables(r) \/ Build(r) \/ Publish(r) \/ EndReload(r)
    BY <2>5 DEF Scan, GetTunables, Build, Publish, EndReload, At
  <2>. QED
    BY <1>2, <2>1, <2>2, <2>3, <2>4, <2>5 DEF Reload
<1>3. ASSUME NEW v \in Visitors, Visit(v)
      PROVE  ThemeInv'
  <2>1. CASE VisitPages(v)
    BY <2>1 DEF VisitPages, Go
  <2>2. CASE Respond(v)
    <3>1. /\ vpages[v] <= base /\ UNCHANGED <<base, pages, disk, rpc, hand>>
          /\ answer' = [answer EXCEPT ![v] = Answer(v)]
          /\ \A u \in Visitors : vpc'[u] = "base" => vpc[u] = "base" /\ vpages'[u] = vpages[u]
      BY <2>2 DEF Respond, Go
    <3>2. Answer(v).pages <= Answer(v).base
      BY <3>1 DEF Answer
    <3>3. PagesAreNoNewerThanBase'
      BY <3>1, <3>2
    <3>. QED
      BY <3>1, <3>3
  <2>3. ASSUME NEW k \in Kinds, BeginRequest(v, k)
        PROVE  ThemeInv'
    BY <2>3 DEF BeginRequest, Go
  <2>4. CASE VisitConfig(v) \/ VisitSnapshot(v)
    BY <2>4 DEF VisitConfig, AfterConfig, VisitSnapshot, Go
  <2>5. CASE HomeIsList(v) \/ HomeIsStatic(v) \/ HomeIsMissing(v) \/ ReadHome(v) \/ FillHome(v)
    BY <2>5 DEF HomeIsList, HomeIsStatic, HomeIsMissing, ReadHome, FillHome, FallBack, Go
  <2>. QED
    BY <1>3, <2>1, <2>2, <2>3, <2>4, <2>5 DEF Visit
<1>4. CASE UNCHANGED vars
  BY <1>4 DEF vars
<1>. QED
  BY <1>1, <1>2, <1>3, <1>4 DEF Next

(* What a lone reload scans, numbers and publishes is no older than what is *)
(* published.                                                               *)
LEMMA ProgressStep ==
  ASSUME IInv, OneAtATime, ProgressInv, [Next]_vars
  PROVE  ProgressInv'
<1> USE DEF IInv, TypeOK, LoaderTypes, SiteTypes, ReloaderTypes, DiskInv, Versions,
            ProgressInv, OneAtATime, Snapshots,
            loaderVars, themeVars, siteVars, reloaderVars, visitorVars
<1>1. CASE Edit
  BY <1>1 DEF Edit
<1>2. ASSUME NEW r \in Reloaders, BeginReload(r) \/ Reload(r)
      PROVE  ProgressInv'
  <2>1. CASE Build(r)
    <3>1. /\ gen' = gen + 1 /\ UNCHANGED <<snap, hand>> /\ snap.content <= hand[r]
          /\ rpc' = [rpc EXCEPT ![r] = "publish"]
      BY <2>1 DEF Build, At
    <3>2. PICK ok \in BOOLEAN : built' = [built EXCEPT ![r] = BuiltSnapshot(r, gen + 1, ok)]
      BY <2>1 DEF Build
    <3>3. /\ BuiltSnapshot(r, gen + 1, ok).content = hand[r]
          /\ BuiltSnapshot(r, gen + 1, ok).gen = gen + 1
      BY DEF BuiltSnapshot, SnapshotOf
    <3>. QED
      BY <3>1, <3>2, <3>3
  <2>2. CASE Publish(r)
    <3>1. /\ \A o \in Reloaders : rpc'[o] \notin {"tune", "build", "publish"}
          /\ snap' = built[r] /\ UNCHANGED <<gen, hand, built>>
      BY <2>2 DEF Publish, At
    <3>2. built[r].gen <= gen
      BY <2>2 DEF Publish, At
    <3>. QED
      BY <3>1, <3>2
  <2>3. CASE Scan(r)
    BY <2>3 DEF Scan, At
  <2>4. CASE GetTunables(r)
    BY <2>4 DEF GetTunables, At
  <2>5. CASE \/ BeginReload(r) \/ LockReload(r) \/ LoadFails(r) \/ LoadConfig(r) \/ SetConfig(r)
             \/ UnlockReload(r) \/ ParseTheme(r) \/ StoreBase(r) \/ StorePages(r) \/ EndReload(r)
    BY <2>5 DEF BeginReload, LockReload, LoadFails, LoadConfig, SetConfig, UnlockReload,
       ParseTheme, StoreBase, StorePages, EndReload, At
  <2>. QED
    BY <1>2, <2>1, <2>2, <2>3, <2>4, <2>5 DEF Reload
<1>3. ASSUME NEW v \in Visitors, Visit(v)
      PROVE  ProgressInv'
  BY <1>3 DEF Visit, BeginRequest, VisitConfig, VisitSnapshot, HomeIsList, HomeIsStatic,
     ReadHome, HomeIsMissing, FillHome, VisitPages, Respond, FallBack
<1>4. CASE UNCHANGED vars
  BY <1>4 DEF vars
<1>. QED
  BY <1>1, <1>2, <1>3, <1>4 DEF Next

(* At the start the theme, the disk and the first snapshot are of version 0. *)
LEMMA InitSerialInv == Init => SerialInv
<1> SUFFICES ASSUME Init
             PROVE  SerialInv
  OBVIOUS
<1>1. snap.gen = gen /\ gen \in Nat
  BY DEF Init, FirstSnapshots, SnapshotOf, SearchOf
<1>2. ThemeInv
  BY DEF Init, ThemeInv, ThemeIsWhole, PagesAreNoNewerThanBase
<1>3. ProgressInv
  BY <1>1 DEF Init, ProgressInv
<1>. QED
  BY <1>2, <1>3 DEF SerialInv

(***************************************************************************)
(* Under any strategy that runs its reloads one after the other, be it     *)
(* from one goroutine or from several that take turns.                     *)
(***************************************************************************)
THEOREM SerialInvHolds == Spec /\ []OneAtATime => []SerialInv
<1>1. IInv /\ OneAtATime /\ SerialInv /\ [Next]_vars => SerialInv'
  BY ThemeStep, ProgressStep DEF SerialInv
<1>. QED
  BY InitSerialInv, <1>1, IInvHolds, PTL DEF Spec

(* The theme's two pointers differ only between the two stores of a reload. *)
THEOREM ThemeStaysWhole == Spec /\ []OneAtATime => []ThemeIsWhole
<1>1. SerialInv => ThemeIsWhole
  BY DEF SerialInv, ThemeInv
<1>. QED
  BY <1>1, SerialInvHolds, PTL

(* No page mixes page templates with a base that is older than they are. *)
THEOREM RenderedPagesAreNoNewer == Spec /\ []OneAtATime => []PagesAreNoNewerThanBase
<1>1. SerialInv => PagesAreNoNewerThanBase
  BY DEF SerialInv, ThemeInv
<1>. QED
  BY <1>1, SerialInvHolds, PTL

(* The published content and its generation only grow. *)
THEOREM ContentOnlyGrows == Spec /\ []OneAtATime => ContentNeverGoesBack
<1>1. ASSUME IInv, SerialInv, [Next]_vars
      PROVE  [snap'.content >= snap.content /\ snap'.gen >= snap.gen]_snap
  <2> USE DEF loaderVars, themeVars, siteVars, reloaderVars, visitorVars
  <2>1. ASSUME NEW r \in Reloaders, Publish(r)
        PROVE  snap'.content >= snap.content /\ snap'.gen >= snap.gen
    BY <1>1, <2>1 DEF Publish, At, SerialInv, ProgressInv, IInv, TypeOK, SiteTypes,
       ReloaderTypes, Snapshots, Versions
  <2>2. ASSUME NEW r \in Reloaders, BeginReload(r) \/ Reload(r), ~Publish(r)
        PROVE  UNCHANGED snap
    BY <2>2 DEF BeginReload, Reload, LockReload, LoadFails, LoadConfig, SetConfig, UnlockReload,
       ParseTheme, StoreBase, StorePages, Scan, GetTunables, Build, EndReload
  <2>3. ASSUME NEW v \in Visitors, Visit(v)
        PROVE  UNCHANGED snap
    BY <2>3 DEF Visit, BeginRequest, VisitConfig, VisitSnapshot, HomeIsList, HomeIsStatic,
       ReadHome, HomeIsMissing, FillHome, VisitPages, Respond, FallBack
  <2>4. CASE Edit \/ UNCHANGED vars
    BY <2>4 DEF Edit, vars
  <2>. QED
    BY <1>1, <2>1, <2>2, <2>3, <2>4 DEF Next
<1>. QED
  BY <1>1, IInvHolds, SerialInvHolds, PTL DEF Spec, ContentNeverGoesBack

(* The poll, watch and sidecar strategies reload from one goroutine: they    *)
(* take turns because there is nobody to overlap with.                       *)
THEOREM OneGoroutineIsSerial ==
  ASSUME NEW r, Reloaders = {r}
  PROVE  Spec => []OneAtATime /\ []SerialInv /\ ContentNeverGoesBack
<1>1. OneAtATime
  BY DEF OneAtATime
<1>2. []OneAtATime
  BY <1>1, PTL
<1>. QED
  BY <1>2, SerialInvHolds, ContentOnlyGrows, PTL
=============================================================================
