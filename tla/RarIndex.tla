------------------------------ MODULE RarIndex ------------------------------
(***************************************************************************)
(* The RAR 4 reader: the walk from block to block by the sizes the headers *)
(* declare, what it refuses before it lists anything, and the opening of   *)
(* one entry, a window on the container when it is stored and a spliced    *)
(* one-file archive when it is packed.  A container is a sequence of cells *)
(* as in ZipIndex: a block header is one cell, a payload is as many as it  *)
(* is long.  A 64-bit size has its high half in a field of its own.        *)
(* An operator named X_Bug is X with a plausible mistake in it.            *)
(***************************************************************************)
EXTENDS Extents, FiniteSets

CONSTANTS
  RarPayloads,    \* lengths of an entry's packed payload
  MaxRar,         \* bound: entries of a container
  Low             \* a 32-bit size is modulo this

ASSUME RarAssumption == RarPayloads \subseteq Nat /\ MaxRar \in Nat /\ Low \in Nat \ {0}

MethodStore == 0
PackedMethods == {1}
Methods == {0, 1, 9}   \* stored, packed, unknown

Marker == [t |-> "Rar4"]
Marker5 == [t |-> "Rar5"]
Main(flags) == [t |-> "main", flags |-> flags, add |-> 0]
Comment == [t |-> "sub", flags |-> {}, add |-> 0]
FileHeader(i, size, method, flags) ==
  [t |-> "file", id |-> i, add |-> size % Low, high |-> size \div Low, method |-> method,
   flags |-> flags \cup (IF size >= Low THEN {"large"} ELSE {})]
EndArc == [t |-> "end", flags |-> {}, add |-> 0]
\* A byte of a payload: a raw one is the picture's, a packed one is not.
Byte(i, k, method) == [t |-> "byte", id |-> i, at |-> k, raw |-> method = MethodStore]

VARIABLES
  packed,   \* what the packer was asked for
  rarFile,  \* the container as it is now
  hurt,     \* has it been cut short
  rarIndex  \* the index made of it: [entries, ok], or Unread

rarVars == <<packed, rarFile, hurt, rarIndex>>

Unread == [entries |-> <<>>, ok |-> FALSE, read |-> FALSE]

Item(g, o) == g[o + 1]
Is(g, o, t) == o >= 0 /\ o < Len(g) /\ Item(g, o).t = t

------------------------------------------------------------------------------
(* The walk. *)

\* readBlockHeader: a header whose 32-bit extent is inside the file.
Blocks == {"main", "sub", "file", "end"}
ReadsHeader(g, o) ==
  /\ o < Len(g) /\ Item(g, o).t \in Blocks
  /\ o + 1 + Item(g, o).add <= Len(g)

PackSize_32(b) == b.add
ParsesFile_Unchecked(g, o) == TRUE

\* parseFileBlock: the size with its high half, the extent checked again.
PackSize(b) == b.add + (IF "large" \in b.flags THEN b.high * Low ELSE 0)
ParsesFile(g, o) == o + 1 + PackSize(Item(g, o)) <= Len(g)

\* block.total: how far the walk goes to reach the next block.
blockTotal(b) == 1 + (IF b.t = "file" THEN PackSize(b) ELSE b.add)

\* Blocks the walk ends at with an error, the main header seen or not.
Refuses(g, o, sawMain) ==
  LET b == Item(g, o)
  IN  \/ ~ ReadsHeader(g, o)
      \/ b.t = "main" /\ b.flags \cap {"password", "solid", "volume"} # {}
      \/ b.t = "file" /\ (~ sawMain \/ ~ ParsesFile(g, o))
      \/ b.t = "file" /\ b.flags \cap {"password", "solid", "split"} # {}

\* What the walk does at an offset.
Outcome(g, o, sawMain) ==
  IF o = Len(g) THEN IF sawMain THEN "done" ELSE "bad"
  ELSE IF Refuses(g, o, sawMain) THEN "bad"
  ELSE IF Item(g, o).t = "end" THEN "done" ELSE "go"

EntryOf(b, o) == [id |-> b.id, comp |-> PackSize(b), off |-> o]

\* The walk from the end of the marker: the offset, the entries so far and how
\* it ended, after each step.  A cell is gone past at every step.
walkStart == [o |-> 1, main |-> FALSE, entries |-> <<>>, end |-> "go"]
walkStep(g, s) ==
  LET v == Outcome(g, s.o, s.main)
      b == Item(g, s.o)
  IN  CASE s.end # "go" -> s
        [] s.end = "go" /\ v # "go" -> [s EXCEPT !.end = v]
        [] OTHER -> [ o |-> s.o + blockTotal(b), main |-> s.main \/ b.t = "main", end |-> "go",
                      entries |-> IF b.t = "file" THEN Append(s.entries, EntryOf(b, s.o)) ELSE s.entries ]
Walk(g) ==
  LET after[k \in 0..(Len(g) + 1)] == IF k = 0 THEN walkStart ELSE walkStep(g, after[k - 1])
  IN  after[Len(g) + 1]

\* ReadIndex: readSignature first, which tells RAR 5 from RAR 4.
rarReadIndex(g) ==
  IF Len(g) < 2 \/ ~ Is(g, 0, "Rar4") THEN [entries |-> <<>>, ok |-> FALSE]
  ELSE LET w == Walk(g) IN [entries |-> w.entries, ok |-> w.end = "done"]

------------------------------------------------------------------------------
(* One entry. *)

rarNoStream == [ok |-> FALSE, cells |-> <<>>]
Section(g, from, n) == SubSeq(g, from + 1, IF from + n < Len(g) THEN from + n ELSE Len(g))

\* readMainHeader and splice: a one-file archive with the container's own header.
splice(g, e) == <<Marker, Item(g, 1), Item(g, e.off)>> \o Section(g, e.off + 1, e.comp)

\* The decoder's answer to an archive of one packed file (external).
Unpack(g) ==
  [k \in 1..(Len(g) - 3) |-> LET b == Item(g, k + 2) IN Byte(b.id, b.at, MethodStore)]

rarOpenEntry_Stored(g, e) ==
  IF Is(g, e.off, "file") THEN [ok |-> TRUE, cells |-> Section(g, e.off + 1, e.comp)] ELSE rarNoStream

\* OpenEntry: the method is the container's, not the index's.
rarOpenEntry(g, e) ==
  IF ~ Is(g, e.off, "file") THEN rarNoStream
  ELSE LET b == Item(g, e.off)
       IN  IF b.method = MethodStore
             THEN [ok |-> TRUE, cells |-> Section(g, e.off + 1, e.comp)]
           ELSE IF b.method \in PackedMethods /\ Is(g, 1, "main")
             THEN [ok |-> TRUE, cells |-> Unpack(splice(g, e))]
           ELSE rarNoStream

------------------------------------------------------------------------------
(* The packer: a main header, a comment block perhaps, the files, and an end   *)
(* block perhaps, after which recovery data may look like anything.            *)

RarShapes ==
  [ sizes : UNION {[1..n -> RarPayloads] : n \in 0..MaxRar},
    method : Methods, comment : BOOLEAN, tail : {"none", "end", "recovery"},
    main : {{}, {"password"}, {"solid"}, {"volume"}},
    odd : 0..MaxRar, flag : {"password", "solid", "split"} ]
Sound(s) == s.odd <= Len(s.sizes) /\ (s.odd = 0 => s.flag = "solid")

Lead(s) == <<Marker, Main(s.main)>> \o (IF s.comment THEN <<Comment>> ELSE <<>>)
HeaderAt(s, i) == BlockAt(s.sizes, Len(Lead(s)), i)
Header(s, i) == FileHeader(i, s.sizes[i], s.method, IF i = s.odd THEN {s.flag} ELSE {})
Trailer(s) ==
  CASE s.tail = "none" -> <<>>
    [] s.tail = "end" -> <<EndArc>>
    [] s.tail = "recovery" -> <<EndArc, FileHeader(99, 0, MethodStore, {})>>
\* The cell at an offset among the files.
FileCell(s, o) ==
  LET i == BlockOf(s.sizes, Len(Lead(s)), o)
  IN  IF o = HeaderAt(s, i) THEN Header(s, i) ELSE Byte(i, o - HeaderAt(s, i), s.method)
Archive(s) ==
  LET n == HeaderAt(s, Len(s.sizes) + 1)
  IN  [k \in 1..(n + Len(Trailer(s))) |->
         CASE k <= Len(Lead(s)) -> Lead(s)[k]
           [] k > Len(Lead(s)) /\ k <= n -> FileCell(s, k - 1)
           [] OTHER -> Trailer(s)[k - n]]
FileEntries(s, n) == [i \in 1..n |-> [id |-> i, comp |-> s.sizes[i], off |-> HeaderAt(s, i)]]

rarInit ==
  /\ packed \in {s \in RarShapes : Sound(s)}
  /\ rarFile = Archive(packed)
  /\ hurt = FALSE
  /\ rarIndex = Unread

\* The scanner indexes the container, whole or cut.
ListRar ==
  /\ rarIndex = Unread
  /\ LET a == rarReadIndex(rarFile) IN rarIndex' = [entries |-> a.entries, ok |-> a.ok, read |-> TRUE]
  /\ UNCHANGED <<packed, rarFile, hurt>>

\* A download that stopped early.
CutRar ==
  /\ ~ hurt
  /\ \E k \in 1..(Len(rarFile) - 1) : rarFile' = SubSeq(rarFile, 1, k)
  /\ hurt' = TRUE
  /\ UNCHANGED <<packed, rarIndex>>

\* The container is packed again with another method and the same sizes.
RepackRar ==
  /\ rarIndex.read /\ ~ hurt
  /\ \E m \in Methods \ {packed.method} : packed' = [packed EXCEPT !.method = m]
  /\ rarFile' = Archive(packed')
  /\ UNCHANGED <<hurt, rarIndex>>

rarNext == ListRar \/ CutRar \/ RepackRar
rarSpec == rarInit /\ [][rarNext]_rarVars

------------------------------------------------------------------------------
\* The walk lists every file in order with its true extent, 64-bit ones too, and
\* nothing that comes after the end block; it stops at the first entry it must
\* refuse, and an archive whose main header is refused lists nothing.
WalkIsExact ==
  (~ hurt /\ ~ rarIndex.read) =>
    LET a == rarReadIndex(rarFile)
        n == IF packed.main # {} THEN 0
             ELSE IF packed.odd # 0 THEN packed.odd - 1 ELSE Len(packed.sizes)
    IN  /\ a.ok = (packed.main = {} /\ packed.odd = 0)
        /\ a.entries = FileEntries(packed, n)

\* A container that was cut short keeps the entries before the cut, and one that
\* was cut inside an entry is not reported whole.
CutKeepsThePrefix ==
  (hurt /\ packed.main = {} /\ packed.odd = 0) =>
    LET a == rarReadIndex(rarFile)
        kept == Cardinality({i \in DOMAIN packed.sizes :
                               HeaderAt(packed, i) + 1 + packed.sizes[i] <= Len(rarFile)})
    IN  /\ a.entries = FileEntries(packed, IF Len(rarFile) < 2 THEN 0 ELSE kept)
        /\ a.ok => \A i \in DOMAIN packed.sizes :
                      Len(rarFile) \notin (HeaderAt(packed, i) + 1)..(HeaderAt(packed, i) + packed.sizes[i])

\* A page that opens yields the raw bytes of its own entry, each in its place,
\* also after the container was packed again with another method; and what the
\* decoder is given for a packed page is by itself an archive of that one file.
PageIsItsOwn ==
  \A i \in DOMAIN rarIndex.entries :
    LET e == rarIndex.entries[i]
        s == rarOpenEntry(rarFile, e)
        one == rarReadIndex(splice(rarFile, e))
    IN  s.ok =>
          /\ \A k \in DOMAIN s.cells : s.cells[k] = Byte(e.id, k, MethodStore)
          /\ ~ hurt => Len(s.cells) = e.comp
          /\ (~ hurt /\ Item(rarFile, e.off).method # MethodStore) =>
               one.ok /\ one.entries = <<[e EXCEPT !.off = 2]>>

\* What becomes of a RAR container.
RarIsRead == WalkIsExact /\ CutKeepsThePrefix /\ PageIsItsOwn
==============================================================================
