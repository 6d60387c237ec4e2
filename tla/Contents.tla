------------------------------ MODULE Contents ------------------------------
(***************************************************************************)
(* What the scan makes of one container file: which entries are pages, in  *)
(* which order, when the file is one book, several chapters or a set of    *)
(* volumes, and which status each book gets.                               *)
(* A name is a number, numbers stand in the natural order of the names,    *)
(* and a path is its directories and then the file, ordered by its first   *)
(* different element.  The directory read itself is in ZipIndex, RarIndex  *)
(* and HvIndex; here it is the sequence of the entries that were read and  *)
(* how the reading ended: of all of them, or of those before a damage, a   *)
(* password or a method that the reader refuses.                           *)
(* An operator named X_Bug is X with a plausible mistake in it.            *)
(***************************************************************************)
EXTENDS Paths

CONSTANTS
  Dirs,         \* directories of the entries, as sequences of names
  FileNames,    \* file names
  OddKinds,     \* kinds of entries that are not ordinary pages
  MaxWeight,    \* bound: entries, those of an odd kind counted twice
  GlobFile      \* a file name that scan.exclude_globs matches

ASSUME ContentsAssumption ==
  /\ Dirs \subseteq Seq(Int) /\ FileNames \subseteq Int
  /\ MaxWeight \in Nat

VARIABLES
  box,     \* the entries that are read, in the container's own order
  books    \* what the scan recorded, <<>> before it

Dot == 0        \* a directory named "."
Hidden == -1    \* a directory whose name starts with a dot
MacOSX == -2    \* __MACOSX

Path(e) == Append(e.dir, e.file)

PathLess(d, e) == Less(Path(d), Path(e))

\* No archiver wrote a directory named "." at the top.
NoDotName == \A d \in Dirs : d # <<>> => Head(d) # Dot

\* The extensions: ContainerKind, SupportedExt, ForeignFormat.
ContainerKind(e) ==
  CASE e.kind \in {"zip", "hollow", "broken", "lockedzip", "blankzip"} -> "zip"
    [] e.kind \in {"rar", "hv3"} -> e.kind
    [] OTHER -> ""
SupportedExt(e) == e.kind \in {"page", "blank", "locked", "fork", "dotpage"}
ForeignFormat(e) == e.kind = "foreign"

Dir(e) == e.kind = "folder"
Blank(e) == e.kind \in {"blank", "blankzip"}
Encrypted(e) == e.kind \in {"locked", "lockedzip"}

------------------------------------------------------------------------------
(* The listing. *)

\* Excluded: folders, forks, what is under a hidden directory, nothing, and
\* whatever is not an image.  A page whose own name starts with a dot is kept.
Excluded(e) ==
  \/ Dir(e) \/ Blank(e) \/ ~ SupportedExt(e)
  \/ MacOSX \in ToSet(e.dir) \/ e.kind = "fork"
  \/ Hidden \in ToSet(e.dir)

ChapterRoot == <<Dot>>

inChapter_Loose(e, chapter) == IF chapter = ChapterRoot THEN Len(e.dir) <= 1 ELSE IsPrefix(chapter, e.dir)

\* inChapter: no chapter is every entry.
inChapter(e, chapter) ==
  CASE chapter = <<>> -> TRUE
    [] chapter = ChapterRoot -> e.dir = <<>>
    [] OTHER -> IsPrefix(chapter, e.dir)

HasVolume(es) == \E e \in es : ~ Dir(e) /\ ~ Blank(e) /\ ~ Encrypted(e) /\ ContainerKind(e) # ""

\* finish: the natural order; a page's number is its place.
finish(pages) == InOrder(pages, {p \in pages \X pages : PathLess(p[1], p[2])})

\* How ReadIndex can end.  A ZIP lists its encrypted entries; a RAR stops at one,
\* as it does at a solid or a split one; an HV3 of an unknown mode lists nothing.
Ends == {"ok", "error", "encrypted", "unsupported"}
ReadIndex(outer, ix) ==
  CASE outer = "zip" -> {"ok", "error"}
    [] outer # "zip" /\ \E e \in ToSet(ix) : Encrypted(e) -> {}
    [] outer = "hv3" /\ ix # <<>> -> {"ok", "error"}
    [] outer = "hv3" /\ ix = <<>> -> {"ok", "error", "unsupported"}
    [] OTHER -> Ends

\* List: the pages and the status of the error.  One encrypted entry is the
\* whole book; a reading that ended early keeps the pages before it, under the
\* status of its error.
List(ix, chapter, ended) ==
  LET mine == {e \in ToSet(ix) : inChapter(e, chapter)}
      pages == finish({e \in mine : ~ Excluded(e)})
      dropped == {e \in mine : Excluded(e)}
      foreign == /\ pages = <<>> /\ ~ HasVolume(dropped)
                 /\ \E e \in dropped : ForeignFormat(e) /\ ~ Dir(e)
  IN  CASE \E e \in ToSet(ix) : Encrypted(e) -> [pages |-> <<>>, err |-> "encrypted"]
        [] OTHER ->
             [pages |-> pages,
              err |-> CASE ended # "ok" -> ended
                        [] ended = "ok" /\ pages = <<>> -> IF foreign THEN "unsupported" ELSE "empty"
                        [] OTHER -> "ok"]

------------------------------------------------------------------------------
(* The expansions. *)

\* commonDir and chapterOf: the first directory under the one all pages share.
commonDir(pages) == LongestCommonPrefix({pages[i].dir : i \in DOMAIN pages})
chapterOf(e, common) ==
  IF e.dir = common THEN ChapterRoot ELSE SubSeq(e.dir, 1, Len(common) + 1)

\* Chapters: the directories, the loose pages first, or <<>> for one book.
Chapters(pages) ==
  IF Len(pages) < 2 THEN <<>>
  ELSE LET common == commonDir(pages)
           all == {chapterOf(pages[i], common) : i \in DOMAIN pages}
           dirs == all \ {ChapterRoot}
           loose == ChapterRoot \in all
       IN  IF Cardinality(dirs) < 2 \/ (loose /\ common # <<>>) THEN <<>>
           ELSE (IF loose THEN <<ChapterRoot>> ELSE <<>>) \o InOrder(dirs, {p \in dirs \X dirs : Less(p[1], p[2])})

\* Volumes: the entries this build opens, in the container's own order.
Volumes(ix) ==
  Selected(ix, {e \in ToSet(ix) : ~ Dir(e) /\ ~ Encrypted(e) /\ ~ Blank(e) /\ ContainerKind(e) # ""})

\* NestedKind: the reader of a volume.
NestedKind(e) == "nested" \o ContainerKind(e)

\* convertPages: what the globs leave, numbered again.
convertPages(pages, globs) == Selected(pages, {e \in ToSet(pages) : ~ (globs /\ e.file = GlobFile)})

Book(inner, kind, status, pages) == [inner |-> inner, kind |-> kind, status |-> status, pages |-> pages]

\* indexUnit, of a book that is a part of a file, which never expands.
indexChapter(ix, chapter, globs) ==
  LET l == List(ix, chapter, "ok")
      kept == convertPages(l.pages, globs)
  IN  Book(chapter, "nesteddir", IF l.err = "ok" /\ kept = <<>> THEN "empty" ELSE l.err, kept)
indexVolume(e) ==
  Book(Path(e), NestedKind(e),
       CASE e.kind = "hollow" -> "empty" [] e.kind = "broken" -> "error" [] OTHER -> "ok", <<>>)

\* expandContainer: only a ZIP file, and only one with no page to show.
Expands(outer, ix) == outer = "zip" /\ Volumes(ix) # <<>>
expandContainer(ix) == [i \in DOMAIN Volumes(ix) |-> indexVolume(Volumes(ix)[i])]

\* expandChapters: from the whole listing, before the globs.
expandChapters(ix, pages, globs) ==
  [i \in DOMAIN Chapters(pages) |-> indexChapter(ix, Chapters(pages)[i], globs)]

\* indexUnit, of a file: its books, in the order they are given their ord.
indexContainer(outer, ix, ended, globs) ==
  LET l == List(ix, <<>>, ended)
      kept == convertPages(l.pages, globs)
      none == kept = <<>> /\ l.err \in {"ok", "empty"}
  IN  CASE none /\ Expands(outer, ix) -> expandContainer(ix)
        [] none /\ ~ Expands(outer, ix) -> <<Book(<<>>, outer, "empty", <<>>)>>
        [] ~ none /\ l.err # "ok" -> <<Book(<<>>, outer, l.err, kept)>>
        [] ~ none /\ l.err = "ok" /\ Chapters(l.pages) # <<>> -> expandChapters(ix, l.pages, globs)
        [] OTHER -> <<Book(<<>>, outer, "ok", kept)>>

------------------------------------------------------------------------------
Weight(s) == FoldLeft(LAMBDA n, e : n + (IF e.kind = "page" THEN 1 ELSE 2), 0, s)

boxInit == box = <<>> /\ books = [from |-> "none"]

\* The file as somebody packed it, as far as it is read.
Pack(e) ==
  /\ books.from = "none"
  /\ Weight(Append(box, e)) <= MaxWeight
  /\ \A i \in DOMAIN box : Path(box[i]) # Path(e)
  /\ box' = Append(box, e)
  /\ UNCHANGED books

ScanIt(outer, ended, globs) ==
  /\ books.from = "none" /\ ended \in ReadIndex(outer, box)
  /\ books' = [from |-> outer, ended |-> ended, globs |-> globs,
               got |-> indexContainer(outer, box, ended, globs)]
  /\ UNCHANGED box

boxNext ==
  \/ \E d \in Dirs, n \in FileNames, k \in OddKinds \cup {"page"} : Pack([dir |-> d, file |-> n, kind |-> k])
  \/ \E outer \in {"zip", "rar", "hv3"}, ended \in Ends, globs \in BOOLEAN :
       (ended # "ok" => ~ globs) /\ ScanIt(outer, ended, globs)

boxSpec == boxInit /\ [][boxNext]_<<box, books>>

------------------------------------------------------------------------------
Scanned == books.from # "none"
Locked == \E e \in ToSet(box) : Encrypted(e)

\* The pages a reader should find: those that are neither excluded nor under a
\* glob, unless an encrypted entry takes the whole file.
Due ==
  IF Locked THEN {}
  ELSE {e \in ToSet(box) : ~ Excluded(e) /\ ~ (books.globs /\ e.file = GlobFile)}

\* "The partition is total: every page belongs to exactly one returned chapter,
\* and no page is dropped": every page that was read is in one book, once, in
\* natural order, and the books differ in what names them.
EveryPageOnce ==
  Scanned =>
    LET got == books.got
        Shows(i) == DOMAIN got[i].pages
    IN  /\ \A i \in DOMAIN got : \A j \in Shows(i) : got[i].pages[j] \in Due
        /\ \A e \in Due : \E i \in DOMAIN got : \E j \in Shows(i) : got[i].pages[j] = e
        /\ \A i, k \in DOMAIN got : \A j \in Shows(i), l \in Shows(k) :
             got[i].pages[j] = got[k].pages[l] => i = k /\ j = l
        /\ \A i \in DOMAIN got : \A j, k \in Shows(i) :
             j < k => PathLess(got[i].pages[j], got[i].pages[k])
        /\ \A i, k \in DOMAIN got : got[i].inner = got[k].inner => i = k

\* A container whose reader did not get to its end, or that holds an encrypted
\* entry, is one book, never a series of what was read of it, and is not called
\* ok or empty.  It is called empty only when no page of it was left and no
\* volume of a ZIP could have been opened; and unsupported exactly when its
\* reader refused it, with the pages before that, or when a foreign archive is
\* what it holds, with no page left.
OnlyForeign ==
  /\ \A e \in ToSet(box) : Excluded(e)
  /\ \E e \in ToSet(box) : ForeignFormat(e)
  /\ Volumes(box) = <<>>
VerdictIsTrue ==
  Scanned =>
    LET got == books.got
        refused == books.ended # "ok" \/ Locked
        whole == \E i \in DOMAIN got : got[i].inner = <<>>
    IN  /\ refused => whole
        /\ whole =>
             /\ Len(got) = 1
             /\ got[1].status = "ok" => ~ refused
             /\ got[1].status = "empty" =>
                  ~ refused /\ Due = {} /\ ~ OnlyForeign /\ (books.from = "zip" => Volumes(box) = <<>>)
             /\ got[1].status = "unsupported" <=>
                  ~ Locked /\ (books.ended = "unsupported" \/ (books.ended = "ok" /\ OnlyForeign))

\* What became of a container.
ContainerIsRead == EveryPageOnce /\ VerdictIsTrue

\* "so sort_key orders volumes inside a container the way natural sort orders
\* any other pair of names": the volumes of a series come in natural order.
VolumesInOrder ==
  Scanned => \A i, j \in DOMAIN books.got : i < j => Less(books.got[i].inner, books.got[j].inner)
                                                       \/ books.got[i].inner = ChapterRoot
==============================================================================
