------------------------------ MODULE HvIndex ------------------------------
(***************************************************************************)
(* The HV3 reader: the LIST chunk found by its tag inside the header       *)
(* window and then validated, the ENCR mode looked for only before it, the *)
(* FINF records, and the opening of one entry, masked or plain.  A         *)
(* container is a sequence of cells as in ZipIndex: every header and       *)
(* record is one cell, a payload is as many as it is long.  A container is *)
(* indexed and then cut short or replaced before a page of it is opened.   *)
(* An operator named X_Bug is X with a plausible mistake in it.            *)
(***************************************************************************)
EXTENDS Extents, FiniteSets

CONSTANTS
  HvPayloads,     \* lengths of an entry's payload
  MaxFiles,       \* bound: entries of a container
  Window,         \* headerWindow, in cells
  Modes           \* ENCR values; 0 is plain and 2 is masked

\* The window is long enough for the header of a container and its LIST.
ASSUME HvAssumption ==
  HvPayloads \subseteq Nat /\ MaxFiles \in Nat /\ Window \in Nat /\ Window >= 5 /\ Modes \subseteq Nat

modePlain == 0
modeMasked == 2

Signature == [t |-> "HV30"]
Title == [t |-> "text"]
Encr(m) == [t |-> "ENCR", mode |-> m]
ListChunk(n) == [t |-> "LIST", len |-> n]
Finf(i, size, off, whole) == [t |-> "FINF", id |-> i, size |-> size, off |-> off, whole |-> whole]
FileBlock(n) == [t |-> "FILE", len |-> n]
\* Byte k of a payload, as it is stored under a mode.
Stored(i, k, m) == [t |-> "byte", id |-> i, at |-> k, masked |-> m = modeMasked]

VARIABLES
  hvMade,   \* what the writer was asked for
  hvFile,   \* the container as it is now
  cut,      \* has it been cut short
  listed    \* the index made of an earlier container: [entries, ok], or NotRead

hvVars == <<hvMade, hvFile, cut, listed>>

NotRead == [entries |-> <<>>, ok |-> FALSE, read |-> FALSE]

Cell(g, o) == g[o + 1]
IsTag(g, o, t) == o >= 0 /\ o < Len(g) /\ Cell(g, o).t = t

------------------------------------------------------------------------------
(* The header.  A size of -1 is a size that is not known. *)

Backed_AnyTag(win, o, size) ==
  /\ IsTag(win, o, "LIST")
  /\ size >= 0 => o + 1 + Cell(win, o).len <= size
  /\ Cell(win, o).len > 0

\* Candidates of parseHeader: a LIST tag that fits in the file, and whose first
\* record, if the window shows it, is a record.
Backed(win, o, size) ==
  /\ IsTag(win, o, "LIST")
  /\ size >= 0 => o + 1 + Cell(win, o).len <= size
  /\ Cell(win, o).len > 0
  /\ o + 1 < Len(win) => IsTag(win, o + 1, "FINF")
Bare(win, o, size) == IsTag(win, o, "LIST") /\ Cell(win, o).len = 0 /\ (size >= 0 => o + 1 <= size)

parseHeader(win, size) ==
  LET backed == {o \in 1..(Len(win) - 1) : Backed(win, o, size)}
      bare == {o \in 1..(Len(win) - 1) : Bare(win, o, size)}
      at == IF backed # {} THEN Lowest(backed) ELSE IF bare # {} THEN Lowest(bare) ELSE -1
      limit == IF at >= 0 THEN at ELSE Len(win)
      encr == {o \in 0..(limit - 1) : IsTag(win, o, "ENCR")}
  IN  [ found |-> at >= 0,
        listOff |-> at,
        listSize |-> IF at >= 0 THEN Cell(win, at).len ELSE 0,
        mode |-> IF encr = {} THEN modePlain ELSE Cell(win, Lowest(encr)).mode ]

\* readWindow, and the signature check both readers begin with.
readWindow(g) == SubSeq(g, 1, IF Len(g) < Window THEN Len(g) ELSE Window)
Signed(g) == IsTag(g, 0, "HV30")

------------------------------------------------------------------------------
(* The directory. *)

\* One record is an entry: every field is there and it points inside the file.
Usable(r, size) == r.t = "FINF" /\ r.whole /\ r.off >= 0 /\ r.off + 1 + r.size <= size
parseRecords(meta, mode, size) ==
  LET bad == {k \in DOMAIN meta : ~ Usable(meta[k], size)}
      n == IF bad = {} THEN Len(meta) ELSE Lowest(bad) - 1
  IN  [ entries |-> [k \in 1..n |-> [id |-> meta[k].id, size |-> meta[k].size,
                                     off |-> meta[k].off, mode |-> mode]],
        ok |-> bad = {} ]

Refused == [entries |-> <<>>, ok |-> FALSE]
hvReadIndex(g) ==
  IF ~ Signed(g) THEN Refused
  ELSE LET h == parseHeader(readWindow(g), Len(g))
       IN  IF ~ h.found \/ h.mode \notin {modePlain, modeMasked}
             \/ h.listOff + 1 + h.listSize > Len(g)
             THEN Refused
             ELSE parseRecords(SubSeq(g, h.listOff + 2, h.listOff + 1 + h.listSize), h.mode, Len(g))

------------------------------------------------------------------------------
(* One entry. *)

\* unmask of one byte: right only at the position it was masked at.
Noise == [t |-> "noise"]
unmask(b, pos) ==
  IF b.t = "byte" /\ b.masked /\ b.at = pos THEN Stored(b.id, b.at, modePlain) ELSE Noise

hvOpenEntry_Remembers(g, e) ==
  IF Signed(g) /\ IsTag(g, e.off, "FILE") /\ Cell(g, e.off).len = e.size
    THEN [ok |-> TRUE, base |-> e.off + 1, size |-> e.size, mode |-> e.mode]
    ELSE [ok |-> FALSE]

\* OpenEntry: the mode is read again from the container, the block must hold
\* what the index recorded.
hvNoStream == [ok |-> FALSE]
hvOpenEntry(g, e) ==
  LET h == parseHeader(readWindow(g), -1)
  IN  IF /\ Signed(g)
         /\ IsTag(g, e.off, "FILE") /\ Cell(g, e.off).len = e.size
         /\ h.mode \in {modePlain, modeMasked}
        THEN [ok |-> TRUE, base |-> e.off + 1, size |-> e.size, mode |-> h.mode]
        ELSE hvNoStream

\* maskedReader.Read after a seek to pos (n bytes at most): the position comes
\* from the section, so the first byte is unmasked as byte pos.
ReadFrom(g, s, pos, n) ==
  LET got == {k \in pos..(pos + n - 1) : k < s.size /\ s.base + k < Len(g)}
  IN  [k \in got |-> IF s.mode = modePlain THEN Cell(g, s.base + k)
                     ELSE unmask(Cell(g, s.base + k), k)]

------------------------------------------------------------------------------
(* The writer.  A title may look like a LIST chunk that is empty or claims a   *)
(* length; it lies before the ENCR chunk, as in the HEAD block.  One record    *)
(* may lack a field.                                                           *)

HvShapes ==
  [ sizes : UNION {[1..n -> HvPayloads] : n \in 0..MaxFiles},
    mode : Modes, encr : BOOLEAN, stray : {"no", "bare", "fits", "huge"}, short : 0..MaxFiles ]
\* Without an ENCR chunk a container is plain.
WellMade(s) == (s.encr \/ s.mode = modePlain) /\ s.short <= Len(s.sizes)

Heading(s) ==
  <<Signature>>
    \o (CASE s.stray = "no" -> <<Title>>
          [] s.stray = "bare" -> <<ListChunk(0), Title>>
          [] s.stray = "fits" -> <<ListChunk(1), Title>>
          [] s.stray = "huge" -> <<ListChunk(99), Title>>)
    \o (IF s.encr THEN <<Encr(s.mode)>> ELSE <<>>)
\* Block i begins after the heading, the LIST, the records and the blocks before.
BodyAt(s) == Len(Heading(s)) + 1 + Len(s.sizes)
HvBlockAt(s, i) == BlockAt(s.sizes, BodyAt(s), i)
RecordOf(s, i) == Finf(i, s.sizes[i], HvBlockAt(s, i), i # s.short)
BodyCell(s, o) ==
  LET i == BlockOf(s.sizes, BodyAt(s), o)
  IN  IF o = HvBlockAt(s, i) THEN FileBlock(s.sizes[i]) ELSE Stored(i, o - HvBlockAt(s, i) - 1, s.mode)
Container(s) ==
  LET h == Len(Heading(s))
      n == Len(s.sizes)
  IN  [k \in 1..HvBlockAt(s, n + 1) |->
         CASE k <= h -> Heading(s)[k]
           [] k = h + 1 -> ListChunk(n)
           [] k > h + 1 /\ k <= h + 1 + n -> RecordOf(s, k - h - 1)
           [] OTHER -> BodyCell(s, k - 1)]

hvInit ==
  /\ hvMade \in {s \in HvShapes : WellMade(s)}
  /\ hvFile = Container(hvMade)
  /\ cut = FALSE
  /\ listed = NotRead

\* The scanner indexes the container, whole or cut.
Index ==
  /\ listed = NotRead
  /\ LET r == hvReadIndex(hvFile) IN listed' = [entries |-> r.entries, ok |-> r.ok, read |-> TRUE]
  /\ UNCHANGED <<hvMade, hvFile, cut>>

\* A download that stopped early.
Cut ==
  /\ ~ cut
  /\ \E k \in 1..(Len(hvFile) - 1) : hvFile' = SubSeq(hvFile, 1, k)
  /\ cut' = TRUE
  /\ UNCHANGED <<hvMade, listed>>

\* Somebody packs the container again, with other sizes or another mode.
Repack ==
  /\ listed.read
  /\ ~ cut
  /\ \E s \in HvShapes :
       /\ WellMade(s) /\ s # hvMade
       /\ s.short = 0 /\ s.stray = hvMade.stray
       /\ hvMade' = s
       /\ hvFile' = Container(s)
  /\ UNCHANGED <<cut, listed>>

hvNext == Index \/ Cut \/ Repack
hvSpec == hvInit /\ [][hvNext]_hvVars

------------------------------------------------------------------------------
\* A container read whole gives its files in order up to the first record that
\* lacks a field, and says it is whole only when it is; a stray LIST in a title
\* changes nothing, and an unknown mode is refused before any entry.
DirectoryIsFound ==
  (~ cut /\ ~ listed.read) =>
    LET r == hvReadIndex(hvFile)
        n == IF hvMade.short = 0 THEN Len(hvMade.sizes) ELSE hvMade.short - 1
    IN  IF hvMade.mode \notin {modePlain, modeMasked}
          THEN r.entries = <<>> /\ (hvMade.sizes # <<>> => ~ r.ok)
        ELSE /\ r.ok = (hvMade.short = 0)
             /\ r.entries = [i \in 1..n |-> [id |-> i, size |-> hvMade.sizes[i],
                                             off |-> HvBlockAt(hvMade, i), mode |-> hvMade.mode]]

\* Whatever became of the container since it was indexed, a page that opens
\* yields bytes of one entry of the container as it is now, from the place asked
\* for, and never a byte under the wrong mask.
NeverServesNoise ==
  \A i \in DOMAIN listed.entries :
    LET s == hvOpenEntry(hvFile, listed.entries[i])
    IN  s.ok =>
          \A pos \in 0..(s.size - 1) :
            LET bytes == ReadFrom(hvFile, s, pos, s.size)
            IN  /\ \A k \in DOMAIN bytes :
                     bytes[k].t = "byte" /\ ~ bytes[k].masked /\ bytes[k].at = k
                /\ \A k, l \in DOMAIN bytes : bytes[k].id = bytes[l].id
                /\ ~ cut => DOMAIN bytes = pos..(s.size - 1)

\* What becomes of an HV3 container.
HvIsRead == DirectoryIsFound /\ NeverServesNoise
==============================================================================
