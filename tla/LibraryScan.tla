---------------------------- MODULE LibraryScan ----------------------------
(***************************************************************************)
(* One series directory and the rows a scan keeps of it: which files and   *)
(* directories are books, when a book is not read again because its file   *)
(* is the one already read, and what is written for a book that was not.   *)
(* A path is a sequence of names from the series directory down; a name is *)
(* a number in the natural order, and says what kind of file it is.  Files *)
(* are edited, with a clock of whole seconds, and a scan may fail to read  *)
(* some of them.  The series directory is <<>>, so a directory is as deep  *)
(* as its path is long.                                                    *)
(* An operator named X_Bug is X with a plausible mistake in it.            *)
(***************************************************************************)
EXTENDS Paths, FiniteSetsExt, TLC

CONSTANTS
  Places,        \* the paths at which there may be a file
  KindOf,        \* from names to "zip", "pdf", "image", "cover", "dot", "text"
  BaseName,      \* the series directory's own name
  MaxDepth,      \* scan.max_depth, 0 for no limit
  CoverMaxLoose, \* scan.cover_max_loose_images
  MaxEdits,      \* bound: edits of the tree, failed scans and changes of build
  SameSecond     \* whether a file may be rewritten within its own second, to its length

VARIABLES
  tree,    \* from the places that hold a file to [size, mtime, body, good]
  dirTime, \* from directories to the second their children last changed
  clock,
  edits,
  pdf,     \* whether this build reads PDFs
  rows,    \* the index: from paths of books to their rows
  series,  \* the index: the series row
  opened,  \* the books the last scan opened
  last     \* what happened last: "edit", "failing", "scan", "full", "upgrade", "measure"

scanVars == <<tree, dirTime, clock, edits, pdf, rows, series, opened, last>>

Parents(p) == {SubSeq(p, 1, n) : n \in 0..(Len(p) - 1)}

\* A path is that of a file or of a directory, never of both.
ASSUME ScanAssumption ==
  /\ Places \subseteq Seq(1..Len(KindOf)) /\ <<>> \notin Places
  /\ \A p, q \in Places : q \notin Parents(p)
  /\ {MaxDepth, CoverMaxLoose, MaxEdits} \subseteq Nat
  /\ SameSecond \in BOOLEAN

Directories == UNION {Parents(p) : p \in Places}
NameOf(p) == Last(p)

------------------------------------------------------------------------------
(* Classification. *)

\* readDir: the direct children of a directory.
Kids(t, dir) == {SubSeq(p, 1, Len(dir) + 1) : p \in {q \in DOMAIN t : dir \in Parents(q)}}
ChildrenOf(dir) == Kids(tree, dir)
IsDir(c) == c \notin Places
Mtime(c) == IF IsDir(c) THEN dirTime[c] ELSE tree[c].mtime

\* ignoredChild and the extensions.
Files(dir, kinds) == {c \in ChildrenOf(dir) : ~ IsDir(c) /\ KindOf[NameOf(c)] \in kinds}
Images(dir) == Files(dir, {"image", "cover"})

Tuple(c) ==
  [at |-> c, size |-> IF IsDir(c) THEN 0 ELSE tree[c].size, mtime |-> Mtime(c), dir |-> IsDir(c)]

fingerprint_Candidates(dir) ==
  {Tuple(c) : c \in {d \in ChildrenOf(dir) : IsDir(d) \/ KindOf[NameOf(d)] \notin {"dot", "text"}}}
fingerprint_Names(dir) == {[at |-> c, dir |-> IsDir(c)] : c \in ChildrenOf(dir)}

\* fingerprintChildren: every direct child, the ones that are no pages too.
fingerprint(dir) == {Tuple(c) : c \in ChildrenOf(dir)}

Newest(dir) ==
  LET times == {dirTime[dir]} \cup {Mtime(c) : c \in ChildrenOf(dir)}
  IN  CHOOSE t \in times : \A u \in times : u <= t

looseBook(dir, beside) ==
  [id |-> dir, kind |-> "dir", size |-> 0, mtime |-> Newest(dir), fp |-> fingerprint(dir),
   loose |-> beside]
fileBook(c) ==
  [id |-> c, kind |-> KindOf[NameOf(c)], size |-> tree[c].size, mtime |-> tree[c].mtime, fp |-> {},
   loose |-> FALSE]

\* Where the walk goes, and the files it meets below a directory.
Visited(dir) == MaxDepth = 0 \/ Len(dir) <= MaxDepth
Met(dir) == {p \in DOMAIN tree : dir \in Parents(p) /\ Visited(Front(p))}

\* Does a directory have a book apart from its own images?  Images in a
\* directory below it are one, for they are that one's own or lie beside others.
Beside(dir) ==
  \E p \in Met(dir) : \/ KindOf[NameOf(p)] \in {"zip", "pdf"}
                      \/ KindOf[NameOf(p)] \in {"image", "cover"} /\ Front(p) # dir
IsLooseBook(dir) ==
  /\ Images(dir) # {}
  /\ ~ Beside(dir) \/ Cardinality(Images(dir)) > CoverMaxLoose

\* collectBooks: archives and PDFs, and each directory whose images are all it
\* has, or are too many to be covers.
collectBooks ==
  {fileBook(p) : p \in {q \in Met(<<>>) : KindOf[NameOf(q)] \in {"zip", "pdf"}}}
    \cup {looseBook(d, Beside(d)) : d \in {e \in Directories : Visited(e) /\ IsLooseBook(e)}}

HasBooksBeside(dir, units) == \E u \in units : u.id # dir
coverCandidates(units) ==
  IF HasBooksBeside(<<>>, units) /\ Cardinality(Images(<<>>)) <= CoverMaxLoose THEN Images(<<>>) ELSE {}

\* The order of the books, by the path from the series directory.
Rel(u) == IF u.id = <<>> THEN <<BaseName>> ELSE u.id
Ord(u, units) == Cardinality({v \in units : Less(Rel(v), Rel(u))})

------------------------------------------------------------------------------
(* One book. *)

contentVersion(u) == IF u.kind = "dir" THEN u.fp ELSE {<<u.size, u.mtime>>}

fileUnchanged_AnyStatus(u, prior) ==
  IF u.kind = "dir" THEN prior.fp # {} /\ prior.fp = u.fp
  ELSE prior.size = u.size /\ prior.mtime = u.mtime
fileUnchanged_SizeOnly(u, prior) ==
  prior.status = "ok" /\ IF u.kind = "dir" THEN prior.fp = u.fp ELSE prior.size = u.size

\* fileUnchanged: the last read succeeded and this is the file it was of.
fileUnchanged(u, prior) ==
  /\ prior.status = "ok"
  /\ IF u.kind = "dir" THEN prior.fp # {} /\ prior.fp = u.fp
     ELSE prior.size = u.size /\ prior.mtime = u.mtime

\* Open and List: the pages, by what they really hold.  A directory lists its
\* images and those whose names start with a dot.
Listing(u, failing) ==
  CASE u.id \in failing -> [status |-> "error", pages |-> {}]
    [] u.id \notin failing /\ u.kind = "dir" ->
         [status |-> "ok",
          pages |-> {<<c, tree[c].body>> : c \in Files(u.id, {"image", "cover", "dot"})}]
    [] u.id \notin failing /\ u.kind = "pdf" /\ ~ pdf -> [status |-> "unsupported", pages |-> {}]
    [] OTHER -> IF tree[u.id].good THEN [status |-> "ok", pages |-> {<<u.id, tree[u.id].body>>}]
                ELSE [status |-> "error", pages |-> {}]

Label(status) == IF status = "ok" THEN "utf-8" ELSE ""

Read(u, failing) ==
  LET l == Listing(u, failing)
  IN  [status |-> l.status, pages |-> l.pages, version |-> contentVersion(u),
       label |-> Label(l.status), dims |-> "none", skipped |-> FALSE, opened |-> TRUE]

Keep(prior, label, look) ==
  [status |-> prior.status, pages |-> prior.pages, version |-> prior.version,
   label |-> label, dims |-> prior.dims, skipped |-> TRUE, opened |-> look]

indexUnit_NoRelabel(u, full, failing) ==
  IF ~ full /\ u.id \in DOMAIN rows /\ fileUnchanged(u, rows[u.id]) /\ rows[u.id].label # ""
    THEN Keep(rows[u.id], rows[u.id].label, FALSE) ELSE Read(u, failing)

\* indexUnit: kept, relabelled, or read.
indexUnit(u, full, failing) ==
  LET known == ~ full /\ u.id \in DOMAIN rows
      prior == rows[u.id]
      enc == Label(Listing(u, failing).status)
  IN  CASE known /\ fileUnchanged(u, prior) /\ prior.label # "" -> Keep(prior, prior.label, FALSE)
        [] known /\ fileUnchanged(u, prior) /\ prior.label = "" /\ enc # "" -> Keep(prior, enc, TRUE)
        [] OTHER -> Read(u, failing)

------------------------------------------------------------------------------
(* The series. *)

\* seriesStatus: one readable book is enough, none at all is empty.
seriesStatus(results) ==
  CASE DOMAIN results = {} -> "empty"
    [] \E u \in DOMAIN results : results[u].status = "ok" -> "ok"
    [] OTHER -> "error"

\* chooseCover: a loose file that says cover, the only candidate, or the first
\* page of the first readable book.
NoCover == [kind |-> "", path |-> <<>>]
chooseCover(units, results) ==
  LET named == Files(<<>>, {"cover"})
      only == coverCandidates(units)
      ok == {u \in units : results[u].status = "ok" /\ results[u].pages # {}}
      First(S) == CHOOSE c \in S : \A d \in S : c = d \/ Less(c, d)
  IN  CASE named # {} -> [kind |-> "file", path |-> First(named)]
        [] named = {} /\ Cardinality(only) = 1 -> [kind |-> "file", path |-> First(only)]
        [] named = {} /\ Cardinality(only) # 1 /\ ok # {} ->
             [kind |-> "page",
              path |-> (CHOOSE u \in ok : \A v \in ok : u = v \/ Less(Rel(u), Rel(v))).id]
        [] OTHER -> NoCover

\* seriesDiskBytes, and the newest time among the books.
SeriesRow(units, results) ==
  LET times == {dirTime[<<>>]} \cup {u.mtime : u \in units}
  IN  [status |-> seriesStatus(results), cover |-> chooseCover(units, results),
       count |-> Cardinality(units), mtime |-> CHOOSE t \in times : \A u \in times : u <= t,
       bytes |-> SumFunction([u \in units |-> IF u.size > 0 THEN u.size
                                              ELSE Cardinality(results[u].pages)])]

Row(u, r, ord, pages) ==
  [kind |-> u.kind, size |-> u.size, mtime |-> u.mtime, fp |-> u.fp, ord |-> ord,
   loose |-> u.loose, status |-> r.status, version |-> r.version, pages |-> pages,
   label |-> r.label, dims |-> r.dims]

WriteBook_Stamps(u, r, ord) ==
  IF r.skipped THEN [rows[u.id] EXCEPT !.label = r.label] ELSE Row(u, r, ord, r.pages)

\* writeSeries: a skipped book that did not move is stamped, one that did is
\* written again with the pages it had.
WriteBook(u, r, ord) ==
  IF r.skipped /\ rows[u.id].ord = ord THEN [rows[u.id] EXCEPT !.label = r.label]
  ELSE Row(u, r, ord, IF r.skipped THEN rows[u.id].pages ELSE r.pages)

Written(units, results) ==
  [id \in {u.id : u \in units} |->
     LET u == CHOOSE v \in units : v.id = id
     IN  WriteBook(u, results[u], Ord(u, units))]

\* A scan that ends sweeps the rows it did not meet.
Scan(full, failing) ==
  /\ failing # {} => edits < MaxEdits
  /\ LET units == collectBooks
         results == [u \in units |-> indexUnit(u, full, failing)]
     IN
      /\ rows' = Written(units, results)
      /\ series' = SeriesRow(units, results)
      /\ opened' = {u.id : u \in {v \in units : results[v].opened}}
      /\ last' = CASE failing # {} -> "failing" [] failing = {} /\ full -> "full" [] OTHER -> "scan"
      /\ edits' = IF failing = {} THEN edits ELSE edits + 1
      /\ UNCHANGED <<tree, dirTime, clock, pdf>>

------------------------------------------------------------------------------
(* The disk, the other builds and the thumbnail worker. *)

File(size, time, body, good) == [size |-> size, mtime |-> time, body |-> body, good |-> good]

scanInit ==
  /\ \E S \in SUBSET Places : tree = [p \in S |-> File(1, 1, 0, TRUE)]
  /\ dirTime = [d \in Directories |-> 1]
  /\ clock = 1 /\ edits = 0 /\ pdf = FALSE
  /\ rows = <<>> /\ series = [status |-> "none"] /\ opened = {} /\ last = "edit"

Edited(t) ==
  /\ edits < MaxEdits
  /\ edits' = edits + 1 /\ clock' = t /\ last' = "edit"
  /\ dirTime' = [d \in Directories |-> IF Kids(tree, d) # Kids(tree', d) THEN t ELSE dirTime[d]]
  /\ UNCHANGED <<pdf, rows, series, opened>>

\* A file is created or rewritten: in a second of its own, or, with a time that
\* was kept, to a length of its own.
Put(p, size, t, good) ==
  /\ KindOf[NameOf(p)] # "zip" => good
  /\ tree' = [q \in DOMAIN tree \cup {p} |->
                IF q = p THEN File(size, t, edits + 1, good) ELSE tree[q]]
  /\ Edited(IF t > clock THEN t ELSE clock)
Rewrite(p, good) ==
  \/ Put(p, 1, clock + 1, good)
  \/ p \in DOMAIN tree /\ Put(p, edits + 2, tree[p].mtime, good)
  \/ p \in DOMAIN tree /\ SameSecond /\ Put(p, tree[p].size, clock, good)
Delete(p) ==
  /\ p \in DOMAIN tree
  /\ tree' = [q \in DOMAIN tree \ {p} |-> tree[q]]
  /\ Edited(clock + 1)

\* A build that reads PDFs is started; an index from before the labels is opened.
NewBuild == /\ ~ pdf /\ pdf' = TRUE /\ last' = "edit"
            /\ edits < MaxEdits /\ edits' = edits + 1
            /\ UNCHANGED <<tree, dirTime, clock, rows, series, opened>>
OldIndex == /\ last \in {"scan", "full", "measure"} /\ rows # <<>> /\ \E id \in DOMAIN rows : rows[id].label # ""
            /\ rows' = [id \in DOMAIN rows |-> [rows[id] EXCEPT !.label = ""]]
            /\ last' = "upgrade"
            /\ edits < MaxEdits /\ edits' = edits + 1
            /\ UNCHANGED <<tree, dirTime, clock, pdf, series, opened>>
\* The thumbnail worker has measured the pages of the readable books.
Measure == /\ last \in {"scan", "full"}
           /\ rows' = [id \in DOMAIN rows |->
                         IF rows[id].status = "ok" THEN [rows[id] EXCEPT !.dims = "done"] ELSE rows[id]]
           /\ last' = "measure"
           /\ UNCHANGED <<tree, dirTime, clock, edits, pdf, series, opened>>

scanNext ==
  \/ \E p \in Places : Delete(p) \/ \E good \in BOOLEAN : Rewrite(p, good)
  \/ \E full \in BOOLEAN : Scan(full, {})
  \/ \E u \in collectBooks : Scan(FALSE, {u.id})
  \/ NewBuild \/ OldIndex \/ Measure

scanSpec == scanInit /\ [][scanNext]_scanVars

------------------------------------------------------------------------------
\* Is nothing below a directory deeper than in its own directories?
Shallow(dir) == \A p \in DOMAIN tree : dir \in Parents(p) => Len(p) <= Len(dir) + 2

\* What a reader sees of a row.  A directory's time may be older, and so may its
\* name: what lies deeper than its directories is not in its fingerprint.
Seen(id, row) ==
  [row EXCEPT !.dims = "none",
              !.mtime = IF row.kind = "dir" THEN 0 ELSE @,
              !.loose = Shallow(id) /\ @]

\* A scan that skips what it has read leaves the rows a scan of everything
\* would: after any edits, failed reads, an index without labels or a build
\* that reads more, "a false skip costs a wrong page list".
IncrementalIsFull ==
  last \in {"scan", "full"} =>
    LET units == collectBooks
        results == [u \in units |-> Read(u, {})]
    IN  /\ DOMAIN rows = {u.id : u \in units}
        /\ \A u \in units :
             Seen(u.id, rows[u.id])
               = Seen(u.id, Row(u, results[u], Ord(u, units), results[u].pages))
        /\ series = SeriesRow(units, results)

\* "The row is already right, so it is stamped forward instead of rewritten":
\* the name of a book says whether its images lie beside other books.
NamesAreRight ==
  last \in {"scan", "full"} => \A u \in collectBooks : rows[u.id].loose = u.loose

Kept ==
  \A id \in DOMAIN rows :
    rows[id].status = "ok" =>
      /\ id \in DOMAIN rows'
      /\ rows'[id] = [rows[id] EXCEPT !.label = "utf-8"]
      /\ rows[id].label # "" => id \notin opened'

\* Nothing changed and nothing failed: a scan opens no book it has read and
\* labelled, and keeps its row, the measured pages too; one without a label is
\* opened for that alone, once.
KeptIfUnchanged ==
  last' = "scan" /\ last \in {"scan", "full", "upgrade", "measure"} => Kept
UnchangedIsKept == [][KeptIfUnchanged]_scanVars
==============================================================================
