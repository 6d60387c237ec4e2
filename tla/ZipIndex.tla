------------------------------ MODULE ZipIndex ------------------------------
(***************************************************************************)
(* The ZIP reader: the end record and its two-step tail scan, ZIP64, the   *)
(* base offset of a self-extracting archive, the central directory, the    *)
(* salvage from local headers when the directory is gone, and the opening  *)
(* of one entry.  A container is a sequence of cells: every header and     *)
(* record is one cell, a payload or a comment is as many as it is long.    *)
(* Cell k is at offset k - 1.  A writer makes a container and an accident  *)
(* may damage it; the operators below are what the reader answers.         *)
(* An operator named X_Bug is X with a plausible mistake in it.            *)
(***************************************************************************)
EXTENDS Extents, Paths

CONSTANTS
  Payloads,       \* lengths of an entry's payload
  MaxEntries,     \* bound: entries of a container
  TailSmall,      \* cells of the first tail read
  TailLarge,      \* cells of the second and last one
  MaxDir,         \* maxCentralDirBytes
  Wrap,           \* the entry count of the end record is modulo this
  Saturated       \* zip64Marker: 0xffffffff in a 32-bit slot

\* The second tail shows an end record with the longest comment; a directory of
\* the longest container is not refused, and the limit is below the marker.
ASSUME ZipAssumption ==
  /\ Payloads \subseteq Nat /\ MaxEntries \in Nat
  /\ TailSmall \in Nat /\ TailLarge \in Nat /\ TailLarge >= 2
  /\ Wrap \in Nat \ {0}
  /\ MaxDir \in Nat /\ Saturated \in Nat
  /\ MaxEntries <= MaxDir /\ MaxDir < Saturated

Phantom == 0     \* the name of a header that no writer wrote

Data == [t |-> "data"]
Zero == [t |-> "zero"]
Loc(i, comp, desc) == [t |-> "loc", id |-> i, comp |-> IF desc THEN 0 ELSE comp, desc |-> desc]
Cd(i, comp, off, extra) == [t |-> "cd", id |-> i, comp |-> comp, off |-> off, extra |-> extra]
EndRecord(n, size, off, cmt) == [t |-> "end", n |-> n, size |-> size, off |-> off, cmt |-> cmt]
End64(n, size, off) == [t |-> "end64", n |-> n, size |-> size, off |-> off]
Locator(off, disks) == [t |-> "locator", off |-> off, disks |-> disks]

VARIABLES
  shape,    \* what the writer was asked for
  zipFile,  \* the container as it is now
  damage,   \* what happened to it: "no", "cut", "zeroed", "hole", "size"
  zipIndex  \* what the scanner read of it: entries, ok, salvaged

zipVars == <<shape, zipFile, damage, zipIndex>>

CellAt(g, o) == g[o + 1]
Reads(g, o, t) == o >= 0 /\ o < Len(g) /\ CellAt(g, o).t = t
Smaller(a, b) == IF a < b THEN a ELSE b
Larger(a, b) == IF a > b THEN a ELSE b

------------------------------------------------------------------------------
(* The reader: the end record. *)

\* findEOCD in the last n cells: the last record, unless its comment runs past
\* the end of the file, which ends the scan.  -1 is "not found".
findEOCD(g, n) ==
  LET found == {o \in (Len(g) - n)..(Len(g) - 1) : Reads(g, o, "end")}
      o == CHOOSE p \in found : \A q \in found : q <= p
  IN  IF found = {} \/ o + 1 + CellAt(g, o).cmt > Len(g) THEN -1 ELSE o

\* findZIP64End: the locator just before the end record, unless it is not there
\* or names more than one disk.
findZIP64End(g, o) ==
  IF Reads(g, o - 1, "locator") /\ CellAt(g, o - 1).disks = 1 THEN CellAt(g, o - 1).off ELSE -1

\* readEnd: the end record, with the 64-bit values when a slot holds the marker.
NoEnd == [ok |-> FALSE]
EndOf(e, o) == [ok |-> TRUE, n |-> e.n, size |-> e.size, off |-> e.off, at |-> o]
readEnd(g) ==
  LET small == findEOCD(g, Smaller(TailSmall, Len(g)))
      o == IF small >= 0 THEN small ELSE findEOCD(g, Smaller(TailLarge, Len(g)))
      e == CellAt(g, o)
      big == e.size = Saturated \/ e.off = Saturated \/ e.n = Wrap - 1
      o64 == IF big THEN findZIP64End(g, o) ELSE -1
  IN  IF o < 0 THEN NoEnd
      ELSE IF o64 < 0 THEN EndOf(e, o)
      ELSE IF Reads(g, o64, "end64") THEN EndOf(CellAt(g, o64), o64) ELSE NoEnd

------------------------------------------------------------------------------
(* The reader: the central directory. *)

Escalated_All(c) == <<"comp", "off">>

\* parseZIP64Extra: a member is there only for a slot that holds the marker.
Escalated(c) ==
  (IF c.comp = Saturated THEN <<"comp">> ELSE <<>>) \o (IF c.off = Saturated THEN <<"off">> ELSE <<>>)
Resolve(c) ==
  [ id |-> c.id,
    comp |-> IF c.comp = Saturated THEN c.extra[1] ELSE c.comp,
    off |-> IF c.off = Saturated THEN c.extra[Len(Escalated(c))] ELSE c.off ]

\* parseCentralHeader succeeds: a whole record whose markers are all resolved.
ParsesAt(g, o) == Reads(g, o, "cd") /\ Len(CellAt(g, o).extra) >= Len(Escalated(CellAt(g, o)))

\* usableEntry: geometry that can be served.
usableEntry(e, size) == e.off >= 0 /\ e.off < size /\ e.comp >= 0 /\ e.comp <= size

\* baseOffset: the directory ends where the end record begins, unless a record
\* parses at the uncorrected offset.
baseOffset(g, end) ==
  LET base == end.at - end.size - end.off
  IN  IF base > 0 /\ ParsesAt(g, end.off) THEN 0 ELSE base

\* The records from cdStart on, until one does not parse or the span ends.
Records(g, end, base) ==
  LET start == base + end.off
      stop == Smaller(start + end.size + (Len(g) - end.at), Len(g))
      bad == {o \in start..(stop - 1) : ~ ParsesAt(g, o)}
      past == IF bad = {} THEN stop ELSE Lowest(bad)
      record(i) == Resolve(CellAt(g, start + i - 1))
  IN  [i \in 1..(past - start) |-> [id |-> record(i).id, comp |-> record(i).comp, off |-> record(i).off + base]]

------------------------------------------------------------------------------
(* The reader: salvage. *)

HeaderVerdict_GivesUp(g, o) ==
  CASE ~ Reads(g, o, "loc") -> "stop"
    [] Reads(g, o, "loc") /\ CellAt(g, o).desc -> "skip"
    [] Reads(g, o, "loc") /\ ~ CellAt(g, o).desc -> IF o + 1 + CellAt(g, o).comp > Len(g) THEN "stop" ELSE "ok"

\* parseLocalHeader at an offset.
HeaderVerdict(g, o) ==
  IF o >= Len(g) \/ Reads(g, o, "cd") THEN "stop"
  ELSE IF ~ Reads(g, o, "loc") THEN "bad"
  ELSE IF CellAt(g, o).desc THEN "skip"
  ELSE IF o + 1 + CellAt(g, o).comp > Len(g) THEN "stop" ELSE "ok"

\* findLocalHeader: the offsets from o on at which a header parses.
Heads(g, o) == {p \in o..(Len(g) - 1) : Reads(g, p, "loc")}

\* One step of the walk of salvageLocalHeaders, from the offset o: the chain
\* while it holds, a search inside the suspect payload when it breaks.
Salvaged(h, o) == [id |-> h.id, comp |-> h.comp, off |-> o]
walkBegins == [o |-> 0, lastData |-> 0, searched |-> 0, entries |-> <<>>, over |-> FALSE]
Stopped(s) == [o |-> s.o, lastData |-> s.lastData, searched |-> s.searched, entries |-> s.entries, over |-> TRUE]
Chained(g, s) ==
  [ o |-> s.o + 1 + CellAt(g, s.o).comp, lastData |-> s.o + 1, searched |-> s.searched, over |-> FALSE,
    entries |-> Append(s.entries, Salvaged(CellAt(g, s.o), s.o)) ]
Sought(g, s, data) ==
  LET heads == Heads(g, Larger(data + 1, s.searched))
  IN  IF heads = {} THEN Stopped(s)
      ELSE [ o |-> Lowest(heads), lastData |-> data, searched |-> Lowest(heads) + 1, over |-> FALSE,
             entries |-> s.entries ]
salvageStep(g, s) ==
  LET v == HeaderVerdict(g, s.o)
  IN  IF s.over THEN s
      ELSE CASE v = "stop" -> Stopped(s)
             [] v = "ok" -> Chained(g, s)
             [] v = "bad" -> Sought(g, s, s.lastData)
             [] v = "skip" -> Sought(g, s, s.o + 1)

\* The whole walk.  A search ends at a header, so every second step goes past a
\* cell that no later step comes back to.
Salvage(g) ==
  LET after[k \in 0..(2 * Len(g) + 2)] == IF k = 0 THEN walkBegins ELSE salvageStep(g, after[k - 1])
  IN  after[2 * Len(g) + 2].entries

------------------------------------------------------------------------------
CountAgrees_AtMost(all, end) == Len(all) <= end.n \/ Len(all) % Wrap = end.n % Wrap

\* The 16-bit count of the end record, which wraps.
CountAgrees(all, end) == Len(all) % Wrap = end.n % Wrap

\* ReadCentralDirectory: the entries, and whether the book is healthy.
ZipAnswer(entries, ok, salvaged) == [entries |-> entries, ok |-> ok, salvaged |-> salvaged, read |-> TRUE]
Unlisted == [entries |-> <<>>, ok |-> FALSE, salvaged |-> FALSE, read |-> FALSE]
InFile(all, g) == Selected(all, {e \in {all[k] : k \in DOMAIN all} : usableEntry(e, Len(g))})
ReadCentralDirectory(g) ==
  LET end == readEnd(g)
      start == end.at - end.size
      all == Records(g, end, baseOffset(g, end))
      usable == InFile(all, g)
  IN  IF Len(g) = 0 THEN ZipAnswer(<<>>, FALSE, FALSE)
      ELSE IF ~ end.ok THEN ZipAnswer(Salvage(g), FALSE, TRUE)
      ELSE IF start < 0 \/ start >= Len(g) \/ end.size > MaxDir THEN ZipAnswer(<<>>, FALSE, FALSE)
      ELSE ZipAnswer(usable, CountAgrees(all, end) /\ Len(usable) = Len(all), FALSE)

\* OpenEntry: the cells the stream yields, by the local header at the offset.
OpenEntry(g, e) ==
  IF Reads(g, e.off, "loc")
    THEN [ok |-> TRUE, id |-> CellAt(g, e.off).id, cells |-> (e.off + 1)..(e.off + e.comp)]
    ELSE [ok |-> FALSE]

------------------------------------------------------------------------------
(* The writer.  Entry i is shape.sizes[i] long; stub cells come first, and the *)
(* offsets are counted from the end of the stub; a phantom is a payload whose  *)
(* first cell looks like a local header.                                       *)

ZipShapes ==
  [ sizes : UNION {[1..n -> Payloads] : n \in 0..MaxEntries},
    stub : {0, 1}, comment : {0, 1}, desc : BOOLEAN, phantom : BOOLEAN,
    zip64 : {"no", "off", "all"} ]

EntryAt(s, i) == BlockAt(s.sizes, s.stub, i)
DirAt(s) == EntryAt(s, Len(s.sizes) + 1)
\* A size or an offset that does not fit is written to the 64-bit record.
Fits(s) ==
  /\ s.zip64 = "no" => DirAt(s) < Saturated
  /\ s.zip64 = "off" => \A i \in DOMAIN s.sizes : s.sizes[i] < Saturated

EntryCell(s, o) ==
  LET i == BlockOf(s.sizes, s.stub, o)
  IN  IF o = EntryAt(s, i) THEN Loc(i, s.sizes[i], s.desc)
      ELSE IF s.phantom /\ o = EntryAt(s, i) + 1 THEN Loc(Phantom, 0, FALSE) ELSE Data
DirRecord(s, i) ==
  LET off == EntryAt(s, i) - s.stub
  IN  CASE s.zip64 = "no" -> Cd(i, s.sizes[i], off, <<>>)
        [] s.zip64 = "off" -> Cd(i, s.sizes[i], Saturated, <<off>>)
        [] s.zip64 = "all" -> Cd(i, Saturated, Saturated, <<s.sizes[i], off>>)
Trailing(s) ==
  LET n == Len(s.sizes)
      body == DirAt(s) - s.stub
      plain == <<EndRecord(n % Wrap, n, body, s.comment)>>
      large == <<End64(n, n, body), Locator(DirAt(s) + n, 1), EndRecord(Wrap - 1, Saturated, Saturated, s.comment)>>
  IN  (IF s.zip64 = "no" THEN plain ELSE large) \o (IF s.comment = 1 THEN <<Data>> ELSE <<>>)
ZipContainer(s) ==
  LET d == DirAt(s)
      n == Len(s.sizes)
  IN  [k \in 1..(d + n + Len(Trailing(s))) |->
         CASE k <= s.stub -> Data
           [] k > s.stub /\ k <= d -> EntryCell(s, k - 1)
           [] k > d /\ k <= d + n -> DirRecord(s, k - d)
           [] OTHER -> Trailing(s)[k - d - n]]

\* What is really there, at its real place.
PackedEntries(s) == [i \in DOMAIN s.sizes |-> [id |-> i, comp |-> s.sizes[i], off |-> EntryAt(s, i)]]

zipInit ==
  /\ shape \in {s \in ZipShapes : Fits(s)}
  /\ zipFile = ZipContainer(shape)
  /\ damage = "no"
  /\ zipIndex = Unlisted

\* A download that stopped early, a tail or a middle overwritten with zeroes, a
\* wrong size in a container that lost its end record.
Zeroed(g, S) == [i \in DOMAIN g |-> IF i \in S THEN Zero ELSE g[i]]
CutZip(k) == zipFile' = SubSeq(zipFile, 1, k) /\ damage' = "cut"
ZeroFrom(k) == zipFile' = Zeroed(zipFile, (k + 1)..Len(zipFile)) /\ damage' = "zeroed"
Hole(j, k) == zipFile' = Zeroed(zipFile, j..k) /\ damage' = "hole"
WrongSize(k) ==
  LET h == zipFile[k]
  IN  /\ h.t = "loc" /\ h.id # Phantom /\ ~ h.desc
      /\ zipFile' = [i \in 1..(Len(zipFile) - 1 - shape.comment) |->
                       IF i = k THEN Loc(h.id, h.comp + 1, FALSE) ELSE zipFile[i]]
      /\ damage' = "size"

Damage ==
  /\ damage = "no" /\ ~ zipIndex.read
  /\ \E k \in 1..(Len(zipFile) - 1) : CutZip(k) \/ ZeroFrom(k) \/ WrongSize(k) \/ (\E j \in 1..k : Hole(j, k))
  /\ UNCHANGED <<shape, zipIndex>>

\* The scanner indexes the container, whole or damaged.
ListZip ==
  /\ ~ zipIndex.read
  /\ zipIndex' = ReadCentralDirectory(zipFile)
  /\ UNCHANGED <<shape, zipFile, damage>>

zipNext == Damage \/ ListZip
zipSpec == zipInit /\ [][zipNext]_zipVars

------------------------------------------------------------------------------
\* A healthy container is read exactly: every entry, at its own offset, through
\* a stub, a comment and ZIP64 slots escalated in part, and opening one streams
\* its own payload.
HealthyIsExact ==
  zipIndex.read /\ damage = "no" =>
    /\ zipIndex.ok /\ zipIndex.entries = PackedEntries(shape)
    /\ \A i \in DOMAIN zipIndex.entries :
         OpenEntry(zipFile, zipIndex.entries[i]).ok /\ OpenEntry(zipFile, zipIndex.entries[i]).id = i

\* A damaged container is never reported healthy unless all its entries are
\* listed, and no entry it lists points outside it.  (A directory that lost as
\* many records as the 16-bit count wraps at is not told from a whole one.)
DamageIsSeen ==
  /\ zipIndex.ok /\ Len(shape.sizes) < Wrap => zipIndex.entries = PackedEntries(shape)
  /\ \A i \in DOMAIN zipIndex.entries : usableEntry(zipIndex.entries[i], Len(zipFile))

\* With the directory gone, every entry whose header and payload are intact is
\* recovered, once, unless its sizes come after its payload or a wrong size
\* swallows it; from a container that was only cut short, no look-alike of a
\* header inside a payload is ever listed.
Intact(i) ==
  LET e == PackedEntries(shape)[i]
  IN  /\ e.off + e.comp < Len(zipFile)
      /\ \A o \in e.off..(e.off + e.comp) : zipFile[o + 1] = ZipContainer(shape)[o + 1]
\* A size that claims too much may end exactly on a later header.
Swallowed(i) ==
  /\ i > 1
  /\ LET before == PackedEntries(shape)[i - 1].off
     IN  Reads(zipFile, before, "loc") /\ before + CellAt(zipFile, before).comp >= PackedEntries(shape)[i].off
SalvageKeepsIntact ==
  damage # "no" /\ zipIndex.salvaged /\ ~ shape.desc =>
    LET ids == {zipIndex.entries[k].id : k \in DOMAIN zipIndex.entries}
    IN  /\ \A i \in DOMAIN shape.sizes : Intact(i) /\ ~ Swallowed(i) => i \in ids
        /\ \A j, k \in DOMAIN zipIndex.entries :
             zipIndex.entries[j].off = zipIndex.entries[k].off => j = k
        /\ damage = "cut" => Phantom \notin ids

\* What becomes of a ZIP container.
ZipIsRead == HealthyIsExact /\ DamageIsSeen /\ SalvageKeepsIntact
==============================================================================
