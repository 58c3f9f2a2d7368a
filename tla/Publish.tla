------------------------------ MODULE Publish -------------------------------
(***************************************************************************)
(* From the files to the reader: a reload takes up the configuration,      *)
(* scans the merged content directories while they change, builds the      *)
(* search index and publishes both as one snapshot, from which the         *)
(* handlers serve lists, search results, feed and sitemap.  One reader     *)
(* polls the feed or the sitemap with the validators of its last copy.     *)
(* Reloads that overlap are in modules Reload and Webhook.                 *)
(*                                                                         *)
(* seen is a history variable: no guard reads it.                          *)
(***************************************************************************)
EXTENDS ContentScan, SitePages

CONSTANTS
  Trees,      \* what the overlay may hold at the start
  Configs,    \* configurations that Validate lets through
  Queries,    \* what is searched for
  Validators, \* what a reader sends back: "etag" (and the date) or "date"
  NoSnapshot, \* nothing is served yet
  NoCopy,     \* the reader has nothing yet
  NoRequest,  \* no request in flight
  MaxScans    \* bound on the scans

ASSUME SiteAssumption ==
  /\ \A t \in Trees : IsTree(t)
  /\ TermBytes \in [DOMAIN TermBytes -> Nat]
  /\ \A doc \in Docs :
       /\ \A terms \in {doc.titleTerms, doc.tagTerms, doc.bodyTerms} :
            terms \subseteq DOMAIN TermBytes /\ IsFiniteSet(terms)
       /\ doc.bytes \in Nat
       /\ doc.tags \in Seq(DOMAIN Normal) /\ NoTag \in DOMAIN Normal
  /\ Validators \subseteq {"etag", "date"}
  /\ MaxURLs \in Nat \ {0}

\* What Validate makes sure of (loader.go:664, 887, 927-949).
ASSUME ConfigAssumption ==
  \A c \in Configs :
    /\ c.feedItems \in Int
    /\ {c.postsPerPage, c.maxResults, c.maxTokens, c.maxIndexBytes} \subseteq Nat \ {0}
    /\ c.maxDocs \in 1 .. MaxSearchPage

VARIABLES
  config,  \* Deps.config
  snap,    \* Deps.snap: posts, pages and search index
  scans,   \* how many scans were begun
  reader,  \* what it polls and which validators it sends
  copy,    \* what it holds
  asked,   \* the configuration that the handler of its request loaded
  seen     \* history: what the site had when it was last answered

siteVars == <<config, snap, scans>>
readerVars == <<reader, copy, asked, seen>>
vars == <<diskVars, scanVars, siteVars, readerVars>>

Init ==
  /\ tree \in Trees /\ ScanInit
  /\ config \in Configs /\ snap = NoSnapshot /\ scans = 0
  /\ reader \in [resource : {"feed", "sitemap"}, sends : Validators]
  /\ copy = NoCopy /\ asked = NoRequest /\ seen = NoCopy

(***************************************************************************)
(* The reload, and the scan of main before anything is served.             *)
(***************************************************************************)
\* site.yaml may have changed in the meantime, or not.
BeginReload ==
  /\ BeginScan
  /\ scans < MaxScans /\ scans' = scans + 1
  /\ config' \in Configs
  /\ UNCHANGED <<diskVars, snap, readerVars>>

Scanning == ScanStep /\ UNCHANGED <<diskVars, siteVars, readerVars>>

\* A panic while the index is built leaves the snapshot without one.
PublishSnapshot ==
  /\ pc = "done" /\ pc' = "idle"
  /\ \E ix \in {Build(posts, config), NoSearch} :
       snap' = [posts |-> posts, pages |-> pages, search |-> ix]
  /\ UNCHANGED <<diskVars, claims, work, posts, pages, steady, vanished, config, scans,
                 readerVars>>

\* What was published stays; a first scan that fails ends the process.
EndReload ==
  /\ pc \in {"failed", "refused"} /\ snap # NoSnapshot /\ pc' = "idle"
  /\ UNCHANGED <<diskVars, claims, work, posts, pages, steady, vanished, siteVars, readerVars>>

(***************************************************************************)
(* The reader.  Its request loads the configuration and then the snapshot. *)
(***************************************************************************)
Poll ==
  /\ snap # NoSnapshot /\ asked = NoRequest
  /\ asked' = config
  /\ UNCHANGED <<diskVars, scanVars, siteVars, reader, copy, seen>>

NotModifiedByDate(r) ==
  /\ copy # NoCopy
  /\ \/ reader.sends = "etag" /\ copy.body = r.body
     \/ r.modified # 0 /\ copy.modified # 0 /\ r.modified <= copy.modified

\* writeXMLCached: If-None-Match decides alone if it is there; a reader that
\* was given no date sends none.
NotModified(r) ==
  /\ copy # NoCopy
  /\ IF reader.sends = "etag" THEN copy.body = r.body
     ELSE r.modified # 0 /\ copy.modified # 0 /\ r.modified <= copy.modified

Answer ==
  /\ asked # NoRequest
  /\ seen' = Rendering(reader.resource, asked, snap)
  /\ copy' = IF NotModified(seen') THEN copy ELSE seen'
  /\ asked' = NoRequest
  /\ UNCHANGED <<diskVars, scanVars, siteVars, reader>>

Change == Edit /\ UNCHANGED <<siteVars, readerVars>>

Next ==
  BeginReload \/ Scanning \/ PublishSnapshot \/ EndReload \/ Poll \/ Answer \/ Change

Spec == Init /\ [][Next]_vars

(***************************************************************************)
(* Properties.                                                             *)
(***************************************************************************)
\* The files whose claim passes over a layer that has something to say of them:
\* what was put there since they were last read is not seen any more, whatever
\* overlay-filesystem.md:799 says (run OverlayReload).
Hidden == {f \in Files : \E l \in Answering(tree, f, 0) : l < claims[f]}

\* What the site should show of f: the highest copy there is, unless hidden.
Copy(f) == ReadFile(tree, f, IF f \in Hidden THEN claims[f] ELSE 0)

EntryNow(f) == Entry(f, Copy(f))

\* A walk from root can come to f: all on the way is seen as directories.
Reaches(root, f) ==
  /\ Within(f, root)
  /\ \A d \in Dirs : Within(f, d) /\ (d = root \/ Within(d, root)) => Sees(root, d)

Due(root, isPage) == {f \in Files : Reaches(root, f) /\ Taken(f, Copy(f), isPage)}

\* A file that stays as it is during a scan is in the index, whatever happens
\* to its neighbours meanwhile, so long as no directory goes away: a file that
\* cannot be read, parsed or named is skipped (scanner.go:273-330), not the
\* rest of the walk, although content-authoring.md:232 has it that a malformed
\* post aborts the scan, and a directory that a layer refuses to list fails the
\* scan (overlayfs.go:431-436), so that nothing is published without its files.
NothingSteadyIsLost ==
  pc = "done" /\ ~vanished =>
    /\ \A f \in steady \cap Due(PostsDir, FALSE) : EntryNow(f) \in Range(posts)
    /\ \A f \in steady \cap Due(PagesDir, TRUE) : EntryNow(f) \in Range(pages)

\* A scan that nothing disturbed found every document that is due, each once
\* and the posts newest first, or it failed on two files with one slug or, if
\* one directory is inside the other, on a file that is in both trees, or it
\* was refused a directory.
UndisturbedScanIsExact ==
  steady = Files /\ ~vanished =>
    /\ pc = "done" =>
         /\ Range(posts) = {EntryNow(f) : f \in Due(PostsDir, FALSE)}
         /\ Range(pages) = {EntryNow(f) : f \in Due(PagesDir, TRUE)}
         /\ \A i, j \in DOMAIN posts :
              i < j => posts[i] # posts[j] /\ posts[i].doc.date >= posts[j].doc.date
    /\ pc = "failed" =>
         \/ \E f, g \in Due(PostsDir, FALSE) \cup Due(PagesDir, TRUE) :
              f # g /\ EntryNow(f).slug = EntryNow(g).slug
         \/ Due(PostsDir, FALSE) \cap Due(PagesDir, TRUE) # {}

ScanIsComplete == NothingSteadyIsLost /\ UndisturbedScanIsExact

\* Tags whose link is right: in normal form and arriving as they are.
Tags(s) == UNION {Range(s.posts[i].doc.tags) : i \in DOMAIN s.posts}
PlainTags(s) == {t \in Tags(s) : Normal[t] = t /\ Arrives[t] = t /\ t # NoTag}

\* Slugs that arrive as they are from a link; no route has an empty one.
PlainSlugs(s, arriving) == {slug \in Slugs(s.posts) \ {""} : arriving[slug] = slug}

\* Pages of results, also such as are out of range.
SearchRequests ==
  {Request("search", q, n) : q \in Queries, n \in 0 .. 4 \cup {MaxSearchPage + 1}}

\* Page n of the list at "/" and of the one at "/posts".
ListPage(to, n) == PageURL(Request(to, "", 1), n)

Visitable(s, c) ==
  LET Numbers(found) == 1 .. PagesFor(Len(found), c.postsPerPage)
  IN  {ListPage("home", n) : n \in Numbers(s.posts)}
        \cup {ListPage("posts", n) : n \in Numbers(s.posts)}
        \cup (UNION {{Request("tag", t, n) : n \in Numbers(ByTag(s, t))} : t \in PlainTags(s)})
        \cup SearchRequests
        \cup {Request("post", slug, 1) : slug \in Slugs(s.posts)}

Sitemap == Request("sitemap", "", 1)

\* A link leads to a page, and one to a page of results to one that has any
\* if there are any.
Leads(s, c, link) ==
  /\ Found(s, c, link)
  /\ link.to = "search" /\ Matches(s.search, link.arg) # << >> =>
       Results(s.search, c, link.arg, link.page) # << >>

\* Every link on a page of the site leads somewhere, also on pages made of a
\* configuration newer than the snapshot (search.go:52, handlers.go:437-532).
\* Three kinds of link do not, and are the exceptions: the sitemap's of a page
\* (sitemap.go:63), those of tags that are not plain (post-meta.html:13), and
\* those of posts whose slug is not, a file c#.md among them (list.html:9,
\* search/search.go:200, sitemap.go:52; frontmatter.go:90 and scanner.go:322 let
\* any slug through that is one segment).
Crooked(s, arriving) ==
  {Request("post", arriving[slug], 1) : slug \in Slugs(s.posts) \ PlainSlugs(s, arriving)}
    \cup {Request("tag", Arrives[t], 1) : t \in Tags(s) \ PlainTags(s)}
    \cup {Request("root", s.pages[i].slug, 1) : i \in DOMAIN s.pages}

NoDeadLinks(s, c, reqs, arriving) ==
  LET visited == {req \in reqs : Found(s, c, req)}
  IN  \A link \in (UNION {Links(s, c, req) : req \in visited}) \ Crooked(s, arriving) :
        Leads(s, c, link)

\* A reader who starts at "/" and goes on to older posts comes by every post
\* with a plain slug; one who goes through the results of a search, by every match.
EveryPostIsReached(s, c) ==
  LET last == PagesFor(Len(s.posts), c.postsPerPage)
      reached == UNION {Links(s, c, ListPage("home", n)) : n \in 1 .. last}
  IN  /\ \A n \in 1 .. last - 1 :
            ListPage("home", n + 1) \in Links(s, c, ListPage("home", n))
      /\ \A slug \in PlainSlugs(s, Linked) : Request("post", slug, 1) \in reached
      /\ s.search # NoSearch =>
           \A q \in Queries :
             FlattenSeq([n \in 1 .. PagesFor(Len(Matches(s.search, q)), c.maxResults) |->
                           Results(s.search, c, q, n)]) = Matches(s.search, q)

LinksResolve ==
  snap # NoSnapshot =>
    /\ NoDeadLinks(snap, config, Visitable(snap, config), Linked)
    /\ NoDeadLinks(snap, config, {Sitemap}, Mapped)
    /\ EveryPostIsReached(snap, config)

\* The index holds the newest posts, as many as fit the limits, and says so
\* when it leaves any out (index.go:134-166): the bytes it counts one by one
\* are those of the documents and of their terms, each term once.
FitsCaps(found, n, caps) ==
  LET postings == [i \in 1 .. Len(found) |-> Postings(found[i].doc)]
      fixedBytes == [i \in 1 .. Len(found) |-> FixedBytes(found[i].doc)]
  IN  /\ n <= caps.maxDocs
      /\ SumFunctionOnSet(postings, 1 .. n) <= caps.maxTokens
      /\ SumFunctionOnSet(fixedBytes, 1 .. n)
           + BytesOf(UNION {Terms(found[i].doc) : i \in 1 .. n}) <= caps.maxIndexBytes

IndexIsLargestPrefix ==
  snap # NoSnapshot /\ snap.search # NoSearch =>
    LET ix == snap.search
        n == Len(ix.docs)
    IN  /\ ix.docs = SubSeq(snap.posts, 1, n)
        /\ FitsCaps(snap.posts, n, ix.caps)
        /\ n < Len(snap.posts) => ~FitsCaps(snap.posts, n + 1, ix.caps)
        /\ ix.reason = "none" <=> n = Len(snap.posts)

\* The dates a feed or a sitemap shows.
Dates(rendering) ==
  IF rendering.body[1] = "feed" THEN {e[2] : e \in Range(rendering.body[3])}
  ELSE {e[2] : e \in Range(Tail(rendering.body[2]))}

\* A reader that sends the ETag back has what the site had when it was last
\* answered, across reloads of the content and of site.yaml (cache.go:39-57);
\* one that sends only the date may miss changes, but not when the site shows
\* anything that is dated later than its copy.
RevalidationIsCurrent ==
  copy # NoCopy /\ copy.body # seen.body =>
    reader.sends = "date" /\ \A d \in Dates(seen) : d <= copy.modified
=============================================================================
