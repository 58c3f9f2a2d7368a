----------------------------- MODULE SitePages ------------------------------
(***************************************************************************)
(* What the handlers of internal/server/handlers make of a snapshot and a  *)
(* configuration: the pages of the post lists, the links on them, the      *)
(* feed and the sitemap, and which requests are answered with a page.      *)
(*                                                                         *)
(* A request is the route it is for, its argument (a slug, a tag or a      *)
(* query) and a page number.  s is a snapshot: the posts, newest first, the *)
(* pages and the search index.  c is a configuration that Validate let     *)
(* through, so postsPerPage is positive and paginate's answers to one that *)
(* is not are left out.  The home page is the post list: the other kinds   *)
(* of home page are in module Reload.                                      *)
(***************************************************************************)
EXTENDS SearchIndex

CONSTANTS
  Normal,  \* Normal[t]: a tag in lower case without blanks around it
  Arrives, \* Arrives[t]: the tag that r.PathValue gives for the link /tags/t,
           \* which html/template escapes but for # ? / and %xx
  Linked,  \* Linked[slug]: the same for a post and its link /posts/slug; "" is
           \* no route
  Mapped,  \* Mapped[slug]: the same for the link in the sitemap, where nothing
           \* is escaped
  NoTag,   \* a tag of blanks
  MaxURLs  \* the limit of a sitemap, 50 000

Request(to, arg, page) == [to |-> to, arg |-> arg, page |-> page]

Slugs(found) == {found[i].slug : i \in 1 .. Len(found)}

(***************************************************************************)
(* Post lists.                                                             *)
(***************************************************************************)
\* ByTag: a post is listed once for each of its tags with that normal form.
ByTag(s, tag) ==
  LET Copies(post) ==
        [i \in 1 .. Cardinality({k \in DOMAIN post.doc.tags :
                                   Normal[post.doc.tags[k]] = tag}) |-> post]
  IN  IF tag = NoTag THEN << >>
      ELSE FlattenSeq([i \in 1 .. Len(s.posts) |-> Copies(s.posts[i])])

Clamped(page, last) == IF page < 1 THEN 1 ELSE IF page > last THEN last ELSE page

\* paginate: the page that is shown, out of how many, and what is on it.
Paginate(posts, page, perPage) ==
  LET last == PagesFor(Len(posts), perPage)
      n == Clamped(page, last)
      end == IF n * perPage > Len(posts) THEN Len(posts) ELSE n * perPage
  IN  [current |-> n, last |-> last, posts |-> SubSeq(posts, (n - 1) * perPage + 1, end)]

PrevOf(pag) == IF pag.current > 1 THEN {pag.current - 1} ELSE {}
NextOf(pag) == IF pag.current < pag.last THEN {pag.current + 1} ELSE {}

Listed(s, req) == IF req.to = "tag" THEN ByTag(s, req.arg) ELSE s.posts

Listing(s, c, req) == Paginate(Listed(s, req), req.page, c.postsPerPage)

\* listPageURL, postsPageURL and tagPageURL; the first page of the list is "/".
PageURL(req, n) ==
  IF req.to \in {"home", "list"} THEN Request(IF n = 1 THEN "home" ELSE "list", "", n)
  ELSE Request(req.to, req.arg, n)

(***************************************************************************)
(* Which requests find something: a page of results only if the query is   *)
(* taken.                                                                  *)
(***************************************************************************)
Found(s, c, req) ==
  CASE req.to \in {"home", "posts", "feed", "sitemap"} -> TRUE
    [] req.to = "list" ->
         req.page >= 2 /\ req.page <= PagesFor(Len(s.posts), c.postsPerPage)
    [] req.to = "post" -> req.arg \in Slugs(s.posts) \ {""}
    [] req.to = "page" -> req.arg \in Slugs(s.pages)
    [] req.to = "tag" -> ByTag(s, req.arg) # << >>
    [] req.to = "search" -> SearchStatus(s.search, c, req.arg) = "ok"
    [] OTHER -> FALSE  \* no route

(***************************************************************************)
(* The links on them, by the templates of defaults/.                       *)
(***************************************************************************)
PostLink(post) == Request("post", Linked[post.slug], 1)

TagLinks(post) ==
  {Request("tag", Arrives[post.doc.tags[k]], 1) : k \in DOMAIN post.doc.tags}

\* What a list shows of its posts: each one's title and its tags.
EntryLinks(found) ==
  {PostLink(found[i]) : i \in DOMAIN found}
    \cup (UNION {TagLinks(found[i]) : i \in DOMAIN found})

PagingLinks(req, pag) == {PageURL(req, n) : n \in PrevOf(pag) \cup NextOf(pag)}

ListLinks(s, c, req) ==
  LET pag == Listing(s, c, req)
  IN  EntryLinks(pag.posts) \cup PagingLinks(req, pag)

SearchPaging(c, req, total) ==
  LET n == SearchPage(req.page)
  IN  {Request("search", req.arg, m) :
         m \in IF total = 0 THEN {}
               ELSE Preceding(total, c.maxResults, n) \cup Following(total, c.maxResults, n)}

SearchLinks(s, c, req) ==
  EntryLinks(Results(s.search, c, req.arg, req.page))
    \cup SearchPaging(c, req, Len(Matches(s.search, req.arg)))

\* The sitemap names a page "/slug", which is not the route of a page.
SitemapLinks(s) ==
  {Request("post", Mapped[s.posts[i].slug], 1) : i \in DOMAIN s.posts}
    \cup {Request("root", s.pages[i].slug, 1) : i \in DOMAIN s.pages}

Links(s, c, req) ==
  CASE req.to \in {"home", "list", "posts", "tag"} -> ListLinks(s, c, req)
    [] req.to = "search" -> SearchLinks(s, c, req)
    [] req.to = "sitemap" -> SitemapLinks(s)
    [] req.to = "post" ->
         UNION {TagLinks(s.posts[i]) :
                  i \in {k \in DOMAIN s.posts : s.posts[k].slug = req.arg}}
    [] OTHER -> {}

(***************************************************************************)
(* The feed and the sitemap, with the date of Last-Modified; 0 is none.    *)
(* writeXMLCached makes the ETag a digest of the body, so the body stands  *)
(* for it.  An Atom feed without posts also holds the time of the request. *)
(***************************************************************************)
Entries(found) ==
  [i \in 1 .. Len(found) |->
     <<found[i].slug, found[i].doc.date, found[i].doc.title, found[i].doc.summary>>]

\* feed.items is validated only while feed.enabled; limitedPosts has a default.
FeedLimit(c) == IF c.feedItems <= 0 THEN 20 ELSE c.feedItems

FeedOf(c, s) ==
  LET n == IF Len(s.posts) > FeedLimit(c) THEN FeedLimit(c) ELSE Len(s.posts)
  IN  [body |-> <<"feed", c.feedType, Entries(SubSeq(s.posts, 1, n))>>,
       modified |-> IF s.posts = << >> THEN 0 ELSE s.posts[1].doc.date]

Locations(found) == [i \in 1 .. Len(found) |-> <<found[i].slug, found[i].doc.date>>]

SitemapOf(s) ==
  LET urls == <<"home">> \o Locations(s.posts) \o Locations(s.pages)
      dates == {s.posts[i].doc.date : i \in DOMAIN s.posts}
                 \cup {s.pages[i].doc.date : i \in DOMAIN s.pages} \cup {0}
  IN  [body |-> <<"sitemap", SubSeq(urls, 1, IF Len(urls) > MaxURLs THEN MaxURLs
                                               ELSE Len(urls))>>,
       modified |-> CHOOSE d \in dates : \A e \in dates : e <= d]

Rendering(resource, c, s) == IF resource = "feed" THEN FeedOf(c, s) ELSE SitemapOf(s)
=============================================================================
