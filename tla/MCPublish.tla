----------------------------- MODULE MCPublish ------------------------------
(* Two directories and one below, four files, an overlay of two layers, the *)
(* upper of which changes.                                                  *)
EXTENDS Publish, TLC

MCParent ==
  [x \in {"posts", "pages"} |-> "root"]
    @@ ("old" :> "posts") @@ ("a" :> "posts") @@ ("z" :> "posts")
    @@ ("b" :> "old") @@ ("about" :> "pages")

MCRank == [x \in {"posts", "a", "b", "about"} |-> 1]
            @@ ("pages" :> 2) @@ ("old" :> 2) @@ ("z" :> 3)

MCName == [f \in Files |-> IF f = "a" THEN "100%" ELSE IF f = "z" THEN "" ELSE f]

Doc(date, slug, tags, terms) ==
  [form |-> "front matter", draft |-> FALSE, date |-> date, slug |-> slug,
   weight |-> 0, title |-> date, tags |-> tags, summary |-> Cardinality(terms),
   titleTerms |-> {"go"}, tagTerms |-> {}, bodyTerms |-> terms, bytes |-> 4]

Older == Doc(1, "", <<"go", "Go">>, {"go"})
Second == Doc(2, "c#", <<"c#">>, {"go", "lru"})
Edited == [Older EXCEPT !.summary = 5]
Renamed == Doc(3, "z", <<" ">>, {"lru"})
Draft == [Older EXCEPT !.draft = TRUE]
Locked == [Older EXCEPT !.form = "locked"]
Undated == [Doc(0, "", << >>, {"lru"}) EXCEPT !.weight = 1]

MCDocs == {Older, Second, Edited, Renamed, Draft, Locked, Undated}

Layer(dirs, docs) ==
  [dirs |-> dirs, shut |-> {}, files |-> [f \in Files |-> IF f \in DOMAIN docs THEN docs[f] ELSE NoDoc]]

Below == Layer({"posts", "pages"}, ("z" :> Older) @@ ("about" :> Undated))

MCTrees ==
  {<<Layer({}, << >>), Below>>, <<[Layer({}, << >>) EXCEPT !.shut = {"pages"}], Below>>,
   <<Layer({"posts", "old"}, ("a" :> Older) @@ ("b" :> Second)),
     Layer({"posts"}, "z" :> Older)>>,
   <<Layer({"posts"}, "a" :> Renamed), Layer({}, << >>)>>}

Site(perPage, feedType, feedItems, maxResults, maxDocs, maxTokens, maxIndexBytes) ==
  [postsPerPage |-> perPage, feedType |-> feedType, feedItems |-> feedItems,
   maxResults |-> maxResults, minQueryLength |-> 2, maxQueryLength |-> 8,
   maxQueryTerms |-> 2, maxDocs |-> maxDocs, maxTokens |-> maxTokens,
   maxIndexBytes |-> maxIndexBytes]

MCConfigs == {Site(1, "atom", 2, 1, 9, 9, 170), Site(2, "rss", 1, 2, 2, 4, 999)}

Query(terms, length) == [terms |-> terms, length |-> length]

MCQueries ==
  {Query({"go"}, 2), Query({"lru", "go"}, 8), Query({"lru"}, 1), Query({"a", "b", "c"}, 5)}

MCNormal == [t \in {"go", "Go", "c#", "c", " "} |-> IF t = "Go" THEN "go" ELSE t]
MCArrives == [t \in {"go", "Go", "c#", "c", " "} |-> IF t = "c#" THEN "c" ELSE t]

MCSlugs == {"100%", "b", "z", "about", "c#", "c", ""}
MCLinked == [slug \in MCSlugs |-> IF slug = "c#" THEN "c" ELSE slug]
MCMapped == [MCLinked EXCEPT !["100%"] = ""]

MCTermBytes == ("go" :> 50) @@ ("lru" :> 51)
=============================================================================
