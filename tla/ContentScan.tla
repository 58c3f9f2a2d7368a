---------------------------- MODULE ContentScan -----------------------------
(***************************************************************************)
(* Scanner.Scan of internal/content/scanner.go over the merged directories *)
(* of internal/overlayfs/overlayfs.go, while files and directories come    *)
(* and go.  fs.WalkDir is external: it lists a directory when it enters it *)
(* and goes through the entries in the order of their names, descending    *)
(* into directories on the way, so what it still has to visit is a list.   *)
(* main scans in strict mode; only tests ask for best effort.              *)
(*                                                                         *)
(* A layer answers fs.ErrNotExist, so that the next one is asked, or what  *)
(* it has, or another error, which is final: a file that may not be read,  *)
(* a directory that may not be entered, a plain file with the name of a    *)
(* directory.                                                              *)
(*                                                                         *)
(* The overlay remembers at which layer it found a file or the root of a   *)
(* walk, and asks no layer above it again: module NegCache has that cache  *)
(* in full, the evictions of its 10 000 paths among the rest.  In the      *)
(* wired process nothing clears it (OverlayReload).                        *)
(*                                                                         *)
(* steady and vanished are history variables: no guard reads them.         *)
(***************************************************************************)
EXTENDS Integers, Sequences, FiniteSets

CONSTANTS
  Layers,    \* the layers of the overlay, 1 on top
  Mutable,   \* the layers that change at run time
  Dirs,      \* directories
  Files,     \* files with the suffix .md
  Parent,    \* the directory of a file or directory
  Root,      \* the directory that holds the others; it always exists
  NameRank,  \* the place of a name among those of its directory
  PostsDir,  \* content.posts_dir
  PagesDir,  \* content.pages_dir
  Docs,      \* what a file may hold
  NoDoc,     \* no such file on the layer
  NameSlug,  \* slugFromPath: the name without its suffix
  BadNames,  \* the files whose name makes no slug
  MaxEdits   \* bound on the changes during the life of the system

\* x is in the tree of directory d.
Within(x, d) ==
  \A tops \in SUBSET Dirs :
    /\ d \in tops
    /\ \A e \in Dirs : Parent[e] \in tops => e \in tops
    => Parent[x] \in tops

\* Directories are trees, and names in a directory differ.
ASSUME ScanAssumption ==
  /\ Layers \subseteq Nat /\ IsFiniteSet(Layers) /\ Mutable \subseteq Layers
  /\ IsFiniteSet(Dirs) /\ IsFiniteSet(Files)
  /\ Dirs \cap Files = {} /\ PostsDir \in Dirs /\ PagesDir \in Dirs
  /\ Parent \in [Dirs \cup Files -> Dirs \cup {Root}] /\ Root \notin Dirs
  /\ \A d \in Dirs : ~Within(d, d)
  /\ NameRank \in [Dirs \cup Files -> Nat]
  /\ \A x, y \in Dirs \cup Files :
       Parent[x] = Parent[y] /\ NameRank[x] = NameRank[y] => x = y

\* What the two orders of an index compare; a title is its place in the order
\* of strings.
ASSUME DocAssumption ==
  /\ NoDoc \notin Docs
  /\ \A doc \in Docs : doc.date \in Nat /\ doc.weight \in Int /\ doc.title \in Int

VARIABLES
  tree,     \* tree[l]: the directories of a layer, its files, and the names
            \* that it refuses to list: its own directories, or plain files
  claims,   \* negCacheEntry: the layer at which to look for a file or a root
  edits,    \* how often a layer was changed
  pc,       \* the scan: idle, posts, pages, check, done, failed (on a slug),
            \* refused (by a directory)
  work,     \* what fs.WalkDir has still to visit
  posts,    \* idx.Posts, as found so far
  pages,    \* idx.Pages, as found so far
  steady,   \* history: files that are what they were when the scan began
  vanished  \* history: a directory went away since then, or was made
            \* of what was none

diskVars == <<tree, edits>>
scanVars == <<claims, pc, work, posts, pages, steady, vanished>>

(***************************************************************************)
(* The overlay.                                                            *)
(***************************************************************************)
\* The layers that have x, whatever it is.
Having(t, x) ==
  {l \in Layers : IF x \in Dirs THEN x \in t[l].dirs \cup t[l].shut
                                ELSE t[l].files[x] # NoDoc}

\* On every layer a file or directory is in a directory of that layer.
IsTree(t) ==
  /\ t \in [Layers -> [dirs : SUBSET Dirs, shut : SUBSET Dirs,
                       files : [Files -> Docs \cup {NoDoc}]]]
  /\ \A x \in Dirs \cup Files :
       \A l \in Having(t, x) : Parent[x] \in t[l].dirs \cup {Root}

\* What is below a name that a layer refuses to list cannot be got at.
Barred(t, l, x) == \E d \in t[l].shut : Within(x, d)

\* The layers, from a claim on, that do not answer fs.ErrNotExist.
Answering(t, x, from) ==
  {l \in Layers : l >= from /\ (l \in Having(t, x) \/ Barred(t, l, x))}

Topmost(layers) == CHOOSE l \in layers : \A m \in layers : l <= m

\* The search of Open, ReadFile and Stat comes to something.
Resolves(t, x, from) ==
  LET answering == Answering(t, x, from)
  IN  answering # {} /\ ~Barred(t, Topmost(answering), x)

\* ReadFile: what is read of f; a scan skips a file on whatever error.
ReadFile(t, f, from) ==
  IF Resolves(t, f, from) THEN t[Topmost(Answering(t, f, from))].files[f] ELSE NoDoc

\* What is found at d, by Stat or first in a listing, is a directory.
IsDir(t, d, from) ==
  Resolves(t, d, from) /\ d \in t[Topmost(Answering(t, d, from))].dirs

\* ReadDir asks every layer, with no use of the cache: one that refuses d is
\* enough to fail it.
Refused(t, d) == \E l \in Layers : d \in t[l].shut \/ Barred(t, l, d)

Listable(t, d) == \E l \in Layers : d \in t[l].dirs

\* Else it is the union of the entries, the highest of a name counts, and the
\* walk passes over a plain file that has no suffix .md.
ReadDir(t, d) ==
  {f \in Files : Parent[f] = d /\ Having(t, f) # {}}
    \cup {e \in Dirs : Parent[e] = d /\ IsDir(t, e, 0)}

\* A hit below the highest layer is remembered, a miss or an error is not.
Claimed(x, hit) ==
  LET l == Topmost(Answering(tree, x, claims[x]))
  IN  IF hit /\ l # Topmost(Layers) THEN [claims EXCEPT ![x] = l] ELSE claims

ByName(xs) ==
  [k \in 1 .. Cardinality(xs) |->
     CHOOSE x \in xs : Cardinality({y \in xs : NameRank[y] < NameRank[x]}) = k - 1]

(***************************************************************************)
(* Documents.                                                              *)
(***************************************************************************)
SlugOf(f, doc) == IF doc.slug = "" THEN NameSlug[f] ELSE doc.slug

\* scanDir takes a document whose front matter parses and that is no draft; a
\* post has a date, and a slug from the name of the file is a path segment.
\* What cannot be read, parsed or named is skipped.
Taken(f, doc, isPage) ==
  /\ doc # NoDoc
  /\ doc.form = "front matter" /\ ~doc.draft
  /\ isPage \/ doc.date > 0
  /\ doc.slug # "" \/ f \notin BadNames

Entry(f, doc) == [path |-> f, slug |-> SlugOf(f, doc), doc |-> doc]

Holds(found, slug) == \E i \in 1 .. Len(found) : found[i].slug = slug

(***************************************************************************)
(* The scan.                                                               *)
(***************************************************************************)
ScanInit ==
  /\ edits = 0
  /\ claims = [x \in Files \cup {PostsDir, PagesDir} |-> 0]
  /\ pc = "idle" /\ work = << >> /\ posts = << >> /\ pages = << >>
  /\ steady = {} /\ vanished = FALSE

\* fs.WalkDir asks for its root with Stat.  A root that is not there, or is a
\* plain file, leaves nothing to walk; any other error fails the scan.
Enter(root, walk) ==
  LET answering == Answering(tree, root, claims[root])
      refused == answering # {} /\ Barred(tree, Topmost(answering), root)
  IN  /\ pc' = IF refused THEN "refused" ELSE walk
      /\ work' = IF IsDir(tree, root, claims[root]) THEN <<root>> ELSE << >>
      /\ claims' = Claimed(root, Resolves(tree, root, claims[root]))

BeginScan ==
  /\ pc = "idle"
  /\ Enter(PostsDir, "posts")
  /\ posts' = << >> /\ pages' = << >>
  /\ steady' = Files /\ vanished' = FALSE

Walking == pc \in {"posts", "pages"}

\* A directory that is gone ends the walk: fs.ErrNotExist, which Scan takes
\* for a tree that was never there.  Any other error fails the scan.
VisitDir ==
  /\ Walking /\ work # << >> /\ Head(work) \in Dirs
  /\ LET d == Head(work)
     IN  \/ /\ ~Refused(tree, d) /\ Listable(tree, d)
            /\ work' = ByName(ReadDir(tree, d)) \o Tail(work)
            /\ pc' = pc
         \/ ~Refused(tree, d) /\ ~Listable(tree, d) /\ work' = << >> /\ pc' = pc
         \/ Refused(tree, d) /\ work' = << >> /\ pc' = "refused"
  /\ UNCHANGED <<claims, posts, pages, steady, vanished>>

SkipTree == work' = << >> /\ UNCHANGED <<pc, posts, pages>>
SkipFile == work' = Tail(work) /\ UNCHANGED <<pc, posts, pages>>

VisitFile ==
  /\ Walking /\ work # << >> /\ Head(work) \in Files
  /\ LET f == Head(work)
         doc == ReadFile(tree, f, claims[f])
         isPage == pc = "pages"
         found == IF isPage THEN pages ELSE posts
         clash == Holds(found, SlugOf(f, doc))
     IN  /\ claims' = Claimed(f, doc # NoDoc /\ doc.form # "locked")
         /\ \/ ~Taken(f, doc, isPage) /\ SkipFile
            \/ /\ Taken(f, doc, isPage) /\ clash
               /\ pc' = "failed" /\ work' = << >>
               /\ UNCHANGED <<posts, pages>>
            \/ /\ Taken(f, doc, isPage) /\ ~clash
               /\ work' = Tail(work)
               /\ posts' = IF isPage THEN posts ELSE Append(posts, Entry(f, doc))
               /\ pages' = IF isPage THEN Append(pages, Entry(f, doc)) ELSE pages
               /\ pc' = pc
  /\ UNCHANGED <<steady, vanished>>

NextTree ==
  /\ Walking /\ work = << >>
  /\ IF pc = "posts" THEN Enter(PagesDir, "pages")
                     ELSE pc' = "check" /\ UNCHANGED <<work, claims>>
  /\ UNCHANGED <<posts, pages, steady, vanished>>

\* s in the order of Before, a relation between its elements, and of their
\* places in s where that leaves it open.
StableSort(s, Before(_, _)) ==
  LET First(i, j) == Before(s[i], s[j]) \/ (~Before(s[j], s[i]) /\ i < j)
  IN  [k \in 1 .. Len(s) |->
         s[CHOOSE i \in 1 .. Len(s) :
             Cardinality({j \in 1 .. Len(s) : First(j, i)}) = k - 1]]

Newer(a, b) == a.doc.date > b.doc.date
Lighter(a, b) ==
  \/ a.doc.weight < b.doc.weight
  \/ a.doc.weight = b.doc.weight /\ a.doc.title < b.doc.title

\* A page and a post with one slug end the scan; else the index is sorted.
Check ==
  /\ pc = "check"
  /\ IF \E i \in 1 .. Len(pages) : Holds(posts, pages[i].slug)
     THEN pc' = "failed" /\ UNCHANGED <<posts, pages>>
     ELSE /\ pc' = "done"
          /\ posts' = StableSort(posts, Newer)
          /\ pages' = StableSort(pages, Lighter)
  /\ UNCHANGED <<claims, work, steady, vanished>>

ScanStep == VisitDir \/ VisitFile \/ NextTree \/ Check

(***************************************************************************)
(* Changes on the disk.                                                    *)
(***************************************************************************)
Inside(l, x) == Parent[x] \in tree[l].dirs \cup {Root}

Put(l, f, doc) ==
  /\ Inside(l, f) /\ tree[l].files[f] # doc
  /\ tree' = [tree EXCEPT ![l].files[f] = doc]

Move(l, f, g) ==
  /\ Inside(l, g) /\ f # g /\ tree[l].files[f] # NoDoc
  /\ tree' = [tree EXCEPT ![l].files[f] = NoDoc, ![l].files[g] = tree[l].files[f]]

MakeDir(l, d) ==
  /\ Inside(l, d) /\ d \notin tree[l].dirs \cup tree[l].shut
  /\ tree' = [tree EXCEPT ![l].dirs = @ \cup {d}]

\* The last step of a recursive removal: the directory is empty.
RemoveDir(l, d) ==
  /\ d \in tree[l].dirs
  /\ \A e \in tree[l].dirs \cup tree[l].shut : Parent[e] # d
  /\ \A f \in Files : Parent[f] = d => tree[l].files[f] = NoDoc
  /\ tree' = [tree EXCEPT ![l].dirs = @ \ {d}, ![l].shut = @ \ {d}]

\* A directory is locked, or a plain file put where there is none.
Shut(l, d) ==
  /\ Inside(l, d) /\ d \notin tree[l].shut
  /\ tree' = [tree EXCEPT ![l].shut = @ \cup {d}]

Unshut(l, d) ==
  /\ d \in tree[l].shut
  /\ tree' = [tree EXCEPT ![l].shut = @ \ {d}]

\* What a walk of the tree of root finds at d: Stat goes by the claim on its root, a
\* listing by the highest layer.
Sees(root, d) == IsDir(tree, d, IF d = root THEN claims[root] ELSE 0)

\* What is there at d goes away as a directory, or comes to be seen as one.
Turns(root, d) ==
  /\ Having(tree, d) # {}
  /\ Sees(root, d) # Sees(root, d)'

Edit ==
  /\ edits < MaxEdits /\ edits' = edits + 1
  /\ \E l \in Mutable :
       \/ \E f \in Files, doc \in Docs \cup {NoDoc} : Put(l, f, doc)
       \/ \E f, g \in Files : Move(l, f, g)
       \/ \E d \in Dirs : MakeDir(l, d) \/ RemoveDir(l, d) \/ Shut(l, d) \/ Unshut(l, d)
  /\ UNCHANGED <<claims, pc, work, posts, pages>>
  /\ steady' = {f \in steady : ReadFile(tree', f, claims[f]) = ReadFile(tree, f, claims[f])}
  /\ vanished' = (vanished \/ \E root \in {PostsDir, PagesDir}, d \in Dirs : Turns(root, d))
=============================================================================
