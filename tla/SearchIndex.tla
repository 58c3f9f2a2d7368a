---------------------------- MODULE SearchIndex -----------------------------
(***************************************************************************)
(* The full-text index of internal/search: what Build admits of the posts  *)
(* of a scan, under limits on documents, postings and bytes, and the pages *)
(* that Search and SearchHandler cut its results into.                     *)
(*                                                                         *)
(* A document has the terms of its title, tags and body, and the bytes of  *)
(* its slug, title and tags; a query its terms and its length in runes.    *)
(* Scores are left out: rank orders the matches, it neither adds nor drops *)
(* one, and nothing here depends on the order.                             *)
(***************************************************************************)
EXTENDS Integers, Sequences, FiniteSets, SequencesExt

CONSTANTS
  TermBytes, \* TermBytes[t]: the bytes of a term and perTokenOverheadBytes
  NoSearch   \* a snapshot without an index

Terms(doc) == doc.titleTerms \cup doc.tagTerms \cup doc.bodyTerms

Postings(doc) ==
  Cardinality(doc.titleTerms) + Cardinality(doc.tagTerms) + Cardinality(doc.bodyTerms)

BytesOf(terms) == SumFunctionOnSet(TermBytes, terms)

\* perDocOverheadBytes, and 8 for a posting.
FixedBytes(doc) == doc.bytes + 16 + 8 * Postings(doc)

(***************************************************************************)
(* Build.                                                                  *)
(***************************************************************************)
EmptyIndex(caps) ==
  [docs |-> << >>, terms |-> {}, tokenCount |-> 0, logicalBytes |-> 0,
   reason |-> "none", caps |-> caps]

CandidateBytesAgain(ix, doc) == FixedBytes(doc) + BytesOf(Terms(doc))
\* What a document adds: a term that the index knows already costs nothing.
CandidateBytes(ix, doc) == FixedBytes(doc) + BytesOf(Terms(doc) \ ix.terms)

\* The first limit that a document would exceed; one that is not positive is none.
Exceeded(ix, doc) ==
  LET Over(limit, amount) == limit > 0 /\ amount > limit
  IN  IF Over(ix.caps.maxDocs, Len(ix.docs) + 1) THEN "max_docs"
      ELSE IF Over(ix.caps.maxTokens, ix.tokenCount + Postings(doc)) THEN "max_tokens"
      ELSE IF Over(ix.caps.maxIndexBytes, ix.logicalBytes + CandidateBytes(ix, doc))
           THEN "max_index_bytes"
      ELSE "none"

\* A document is admitted whole, and the first that is not is the last looked at.
Admit(ix, post) ==
  LET doc == post.doc
  IN  IF ix.reason # "none" THEN ix
      ELSE IF Exceeded(ix, doc) # "none" THEN [ix EXCEPT !.reason = Exceeded(ix, doc)]
      ELSE [ix EXCEPT !.docs = Append(@, post),
                      !.terms = @ \cup Terms(doc),
                      !.tokenCount = @ + Postings(doc),
                      !.logicalBytes = @ + CandidateBytes(ix, doc)]

Build(posts, caps) == FoldLeft(Admit, EmptyIndex(caps), posts)

(***************************************************************************)
(* Search and SearchHandler.                                               *)
(***************************************************************************)
MaxSearchPage == 1000000

PagesFor(total, limit) ==
  LET pages == (total + limit - 1) \div limit IN IF pages < 1 THEN 1 ELSE pages

\* rank, its order left out.
Matches(ix, query) ==
  FoldLeft(LAMBDA found, post : IF Terms(post.doc) \cap query.terms = {} THEN found
                                ELSE Append(found, post),
           << >>, ix.docs)

\* What becomes of a query: c is the configuration the handler loaded, ix the
\* index of the snapshot it loaded after that.
SearchStatus(ix, c, query) ==
  IF query.length = 0 THEN "landing"
  ELSE IF query.length > c.maxQueryLength THEN "too_long"
  ELSE IF query.length < c.minQueryLength THEN "too_short"
  ELSE IF ix = NoSearch THEN "unavailable"
  ELSE IF Cardinality(query.terms) > ix.caps.maxQueryTerms THEN "too_complex"
  ELSE "ok"

\* parseSearchPage.
SearchPage(page) ==
  CASE page < 1 -> 1
    [] page > MaxSearchPage -> MaxSearchPage
    [] OTHER -> page

Results(ix, c, query, page) ==
  LET found == Matches(ix, query)
      offset == (SearchPage(page) - 1) * c.maxResults
      end == IF offset + c.maxResults > Len(found) THEN Len(found)
             ELSE offset + c.maxResults
  IN  SubSeq(found, offset + 1, end)

\* The pages that a page of results links to.
PrecedingUnbounded(total, limit, page) == IF page > 1 THEN {page - 1} ELSE {}
Preceding(total, limit, page) ==
  LET last == PagesFor(total, limit)
  IN  {p \in {IF page - 1 > last THEN last ELSE page - 1} : page > 1}

Following(total, limit, page) == IF page < PagesFor(total, limit) THEN {page + 1} ELSE {}
=============================================================================
