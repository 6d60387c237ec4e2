------------------------ MODULE ReadingHistoryProofs ------------------------
(***************************************************************************)
(* What holds of reading history for every library.  Whatever moves and    *)
(* whatever fails, rows are deleted only for files that a walk did not     *)
(* find, no place is overwritten by an older one, and what a repair        *)
(* spreads over volumes adds up to the place it was.                       *)
(*                                                                         *)
(* That a row is of the file it resolves to, and that progress follows a   *)
(* file that moves, is true where files can be told apart and scans are    *)
(* not disturbed: the operators LengthsTell, Undisturbed, NoTwins,         *)
(* MovesGoBack and Untroubled say what that means, and are hypotheses.     *)
(***************************************************************************)
EXTENDS ReadingHistory, InductionTheorems

-----------------------------------------------------------------------------
(***************************************************************************)
(* The operators.                                                          *)
(***************************************************************************)
\* A location of the model's vocabulary is a root and a path.
LEMMA LocationIs ==
  ASSUME NEW id \in Ids
  PROVE  /\ At(id) \in Locations /\ At(id)[1] = id[1] /\ At(id)[2] = id[2]
         /\ id = <<id[1], id[2], id[3]>>
         /\ id[1] \in RootSet /\ id[2] \in Paths /\ id[3] \in Nat
  BY DEF Ids, At, Locations

\* The scan is at one root.
LEMMA OneIsDue ==
  ASSUME NEW r \in RootSet, NEW s \in RootSet, Due(r), Due(s)
  PROVE  r = s
  <1>1. Position(r) \in DOMAIN Roots /\ Roots[Position(r)] = r
    BY DEF RootSet, Position
  <1>2. Position(s) \in DOMAIN Roots /\ Roots[Position(s)] = s
    BY DEF RootSet, Position
  <1>3. DOMAIN Roots = 1..Len(Roots) /\ Len(Roots) \in Nat
    BY HistoryAssumption DEF HistoryAssumption
  <1>4. Position(r) <= Position(s) /\ Position(s) <= Position(r)
    BY DEF Due
  <1>5. Position(r) = Position(s)
    BY <1>1, <1>2, <1>3, <1>4
  <1>6. QED
    BY <1>1, <1>2, <1>5

\* The place of a root in the configuration is a number.
LEMMA PositionType == \A r \in RootSet : Position(r) \in Nat
  <1>1. DOMAIN Roots = 1..Len(Roots) /\ Len(Roots) \in Nat
    BY HistoryAssumption DEF HistoryAssumption
  <1>2. ASSUME NEW r \in RootSet PROVE Position(r) \in Nat
    <2>1. Position(r) \in DOMAIN Roots
      BY DEF RootSet, Position
    <2>2. QED
      BY <1>1, <2>1
  <1>3. QED
    BY <1>2

\* A file has finitely many volumes, each with a page.
LEMMA VolumesAre ==
  ASSUME NEW f \in Files
  PROVE  /\ Len(Volumes[f]) \in Nat \ {0} /\ DOMAIN Volumes[f] = 1..Len(Volumes[f])
         /\ IsFiniteSet(DOMAIN Volumes[f])
         /\ \A k \in 1..Len(Volumes[f]) : Volumes[f][k] \in Nat \ {0}
  <1>1. Volumes[f] \in Seq(Nat \ {0}) /\ Volumes[f] # <<>>
    BY HistoryAssumption DEF HistoryAssumption
  <1>2. /\ Len(Volumes[f]) \in Nat \ {0} /\ DOMAIN Volumes[f] = 1..Len(Volumes[f])
        /\ \A k \in 1..Len(Volumes[f]) : Volumes[f][k] \in Nat \ {0}
    BY <1>1
  <1>3. IsFiniteSet(1..Len(Volumes[f]))
    BY <1>2, FS_Interval
  <1>4. QED
    BY <1>2, <1>3

\* A file and its volumes have pages.
LEMMA LengthType ==
  ASSUME NEW f \in Files, NEW k \in 0..Len(Volumes[f])
  PROVE  Length(f, k) \in Nat \ {0}
  <1> DEFINE D == DOMAIN Volumes[f]
  <1>1. IsFiniteSet(D) /\ 1 \in D /\ \A i \in D : Volumes[f][i] \in Nat /\ Volumes[f][i] > 0
    BY VolumesAre
  <1>2. Total(f) \in Nat \ {0}
    <2>1. SumFunctionOnSet(Volumes[f], D) \in Nat
      BY <1>1, SumType
    <2>2. Volumes[f][1] <= SumFunctionOnSet(Volumes[f], D)
      BY <1>1, SumBounds
    <2>3. QED
      BY <1>1, <2>1, <2>2 DEF Total
  <1>3. CASE k = 0
    BY <1>2, <1>3 DEF Length
  <1>4. CASE k # 0
    BY <1>4, VolumesAre DEF Length
  <1>5. QED
    BY <1>3, <1>4

\* Of rows that are dated, one is the newest.
LEMMA NewestIs ==
  ASSUME NEW S, S # {}, NEW n \in Nat, \A row \in S : row.at \in 1..n
  PROVE  Newest(S) \in S /\ \A other \in S : other.at <= Newest(S).at
  <1> DEFINE T == {n - row.at : row \in S}
  <1>1. T \subseteq Nat /\ T # {}
    <2>1. \A row \in S : n - row.at \in Nat
      OBVIOUS
    <2>2. QED
      BY <2>1
  <1>2. PICK m \in T : \A l \in T : ~(<<l, m>> \in OpToRel(<, Nat))
    <2> HIDE DEF T
    <2>1. IsWellFoundedOn(OpToRel(<, Nat), Nat)
      BY NatLessThanWellFounded
    <2>2. QED
      BY <1>1, <2>1, WFMin
  <1>3. PICK row \in S : m = n - row.at
    OBVIOUS
  <1>4. ASSUME NEW other \in S PROVE other.at <= row.at
    <2>1. n - other.at \in T /\ n - other.at \in Nat /\ m \in Nat
      BY <1>1
    <2>2. ~(<<n - other.at, m>> \in OpToRel(<, Nat))
      BY <1>2, <2>1
    <2>3. ~(n - other.at < m)
      BY <2>1, <2>2 DEF OpToRel
    <2>4. QED
      BY <1>3, <2>3
  <1>5. QED
    BY <1>4 DEF Newest

-----------------------------------------------------------------------------
(***************************************************************************)
(* The inductive invariant.                                                *)
(***************************************************************************)
(* An id is of a file or of one of its volumes.                            *)
VolumesExist ==
    /\ IsFiniteSet(Resolves)
    /\ \A id \in Resolves : id[3] \in 0..Len(Volumes[books[id]])

(* No row is from the future.                                              *)
Dated == \A id \in DOMAIN progress : progress[id].at <= reads

(* What a run knows is forgotten when it ends.                             *)
AtRest == phase \in {"idle", "startup"} => stamped = {} /\ swept = {} /\ moved = {}

(* A carry leads to a book that this run has seen.                         *)
MovesAreSeen == \A m \in moved : m[2] \in stamped

(* Nothing is listed as volumes before the upgrade.                        *)
Whole == ~upgraded => \A id \in Resolves \cup DOMAIN progress : id[3] = 0

(* What there is to find in a root has been stamped.                       *)
Walked(r) == \A l \in Locations : l[1] = r /\ ~Hidden(l) => \E k \in stamped : At(k) = l

(* A root is swept, and will be, only when it was walked to its end.       *)
SweptAreWalked ==
    /\ \A r \in swept : Walked(r)
    /\ phase = "sweep" /\ SweepAllowed => \A r \in RootSet : Due(r) => Walked(r)

WalkInv ==
    /\ TypeOK /\ VolumesExist /\ Dated /\ AtRest /\ MovesAreSeen /\ Whole /\ SweptAreWalked

-----------------------------------------------------------------------------
(***************************************************************************)
(* Repairs.                                                                *)
(***************************************************************************)
\* The pages of a set of listed books.
LEMMA PagesType ==
  ASSUME TypeOK, VolumesExist, NEW S \in SUBSET Resolves
  PROVE  /\ IsFiniteSet(S) /\ Pages(S) \in Nat
         /\ \A id \in S : PageCount(id) \in Nat \ {0}
  <1>1. IsFiniteSet(S)
    BY FS_Subset DEF VolumesExist
  <1>2. ASSUME NEW id \in S PROVE PageCount(id) \in Nat \ {0}
    <2>1. books[id] \in Files /\ id[3] \in 0..Len(Volumes[books[id]])
      BY DEF TypeOK, VolumesExist
    <2>2. QED
      BY <2>1, LengthType DEF PageCount
  <1>3. Pages(S) \in Nat
    <2> DEFINE c == [id \in S |-> PageCount(id)]
    <2>1. \A id \in S : c[id] \in Nat
      BY <1>2
    <2> HIDE DEF c
    <2>2. SumFunctionOnSet(c, S) \in Nat
      BY <1>1, <2>1, SumType
    <2>3. QED
      BY <2>2 DEF Pages, c
  <1>4. QED
    BY <1>1, <1>2, <1>3

(* What the moves of a repair offer: rows for books of the index.          *)
Offers(moves) ==
    \A m \in moves : /\ DOMAIN m.rows \subseteq Resolves
                     /\ \A id \in DOMAIN m.rows : m.rows[id] \in Rows

\* RepairSplit writes what it was given or keeps what there is, the newer of them.
LEMMA SplitWrites ==
  ASSUME TypeOK, NEW moves, Offers(moves), RepairSplit(moves)
  PROVE  /\ DOMAIN progress' = (DOMAIN progress \cup UNION {DOMAIN m.rows : m \in moves})
                                   \ {m.old : m \in moves}
         /\ \A id \in DOMAIN progress' :
                \/ id \in DOMAIN progress /\ progress'[id] = progress[id]
                \/ \E m \in moves : id \in DOMAIN m.rows /\ progress'[id] = m.rows[id]
         /\ \A id \in DOMAIN progress' \cap DOMAIN progress :
                progress'[id].at >= progress[id].at
  <1> DEFINE dest == UNION {DOMAIN m.rows : m \in moves}
             retired == {m.old : m \in moves}
             kept == (DOMAIN progress \cup dest) \ retired
             offered(id) == {m.rows[id] : m \in {n \in moves : id \in DOMAIN n.rows}}
             local(id) == {progress[i] : i \in {id} \cap DOMAIN progress}
             row(id) == IF id \in dest THEN Newest(offered(id) \cup local(id)) ELSE progress[id]
  <1>1. progress' = [id \in kept |-> row(id)]
    BY DEF RepairSplit
  <1>2. ASSUME NEW id \in kept, id \in dest
        PROVE  /\ row(id) \in offered(id) \cup local(id)
               /\ \A other \in offered(id) \cup local(id) : other.at <= row(id).at
    <2>1. offered(id) \cup local(id) # {}
      BY <1>2
    <2>2. ASSUME NEW r \in offered(id) \cup local(id) PROVE r.at \in 1..MaxReads
      <3>1. r \in Rows
        BY DEF Offers, TypeOK
      <3>2. QED
        BY <3>1 DEF Rows
    <2>3. MaxReads \in Nat
      BY HistoryAssumption DEF HistoryAssumption
    <2>4. row(id) = Newest(offered(id) \cup local(id))
      BY <1>2
    <2> HIDE DEF offered, local, row
    <2>5. QED
      BY <2>1, <2>2, <2>3, <2>4, NewestIs
  <1>3. ASSUME NEW id \in kept
        PROVE  \/ id \in DOMAIN progress /\ row(id) = progress[id]
               \/ \E m \in moves : id \in DOMAIN m.rows /\ row(id) = m.rows[id]
    <2>1. CASE id \in dest
      <3>1. row(id) \in offered(id) \cup local(id)
        BY <1>2, <2>1
      <3> HIDE DEF row
      <3>2. QED
        BY <3>1
    <2>2. CASE id \notin dest
      BY <2>2
    <2>3. QED
      BY <2>1, <2>2
  <1>4. ASSUME NEW id \in kept, id \in DOMAIN progress
        PROVE  row(id).at >= progress[id].at
    <2>1. progress[id] \in local(id) /\ progress[id].at \in Nat
      BY <1>4 DEF TypeOK, Rows
    <2>2. CASE id \in dest
      <3>1. progress[id].at <= row(id).at
        BY <1>2, <2>1, <2>2
      <3>2. row(id) \in Rows
        <4>1. \/ id \in DOMAIN progress /\ row(id) = progress[id]
              \/ \E m \in moves : id \in DOMAIN m.rows /\ row(id) = m.rows[id]
          BY <1>3
        <4> HIDE DEF row
        <4>2. QED
          BY <4>1 DEF TypeOK, Offers
      <3> HIDE DEF row
      <3>3. row(id).at \in Nat
        BY <3>2 DEF Rows
      <3>4. QED
        BY <2>1, <3>1, <3>3
    <2>3. CASE id \notin dest
      BY <2>1, <2>3
    <2>4. QED
      BY <2>2, <2>3
  <1>5. /\ DOMAIN progress' = kept
        /\ \A id \in kept : progress'[id] = row(id)
    <2> HIDE DEF kept, row
    <2>1. QED
      BY <1>1
  <1> HIDE DEF row
  <1>6. QED
    BY <1>3, <1>4, <1>5

\* A carry takes the row of the old id to the new one as it is.
LEMMA CarryWrites ==
  ASSUME TypeOK, NEW m \in CarryMoves
  PROVE  \E n \in moved :
            /\ n[1] \in DOMAIN progress /\ m.old = n[1] /\ DOMAIN m.rows = {n[2]}
            /\ m.rows[n[2]] \in Rows
            /\ m.rows[n[2]].of = progress[n[1]].of
            /\ m.rows[n[2]].at = progress[n[1]].at
            /\ m.rows[n[2]].count = progress[n[1]].count
            /\ m.rows[n[2]].page = progress[n[1]].page
            /\ progress[n[1]].count = PageCount(n[2])
            /\ progress[n[1]].page \in 1..PageCount(n[2])
  <1>1. PICK n \in moved :
           /\ m = CarryMove(n) /\ n[1] \in DOMAIN progress
           /\ progress[n[1]].count = PageCount(n[2])
           /\ progress[n[1]].page \in 1..PageCount(n[2])
    BY DEF CarryMoves
  <1>2. n[2] \in Ids /\ n[2][1] \in RootSet /\ n[2][2] \in Paths
    BY LocationIs DEF TypeOK
  <1>3. progress[n[1]] \in Rows
    BY <1>1 DEF TypeOK
  <1>4. m.old = n[1] /\ DOMAIN m.rows = {n[2]}
        /\ m.rows[n[2]] = [progress[n[1]] EXCEPT !.root = n[2][1], !.path = n[2][2]]
    BY <1>1 DEF CarryMove
  <1>5. /\ m.rows[n[2]] \in Rows
        /\ m.rows[n[2]].of = progress[n[1]].of /\ m.rows[n[2]].at = progress[n[1]].at
        /\ m.rows[n[2]].count = progress[n[1]].count
        /\ m.rows[n[2]].page = progress[n[1]].page
    <2> DEFINE row == progress[n[1]]
               new == m.rows[n[2]]
    <2>1. row \in Rows /\ new = [row EXCEPT !.root = n[2][1], !.path = n[2][2]]
      BY <1>3, <1>4
    <2> HIDE DEF row, new
    <2>2. new \in Rows /\ new.of = row.of /\ new.at = row.at
          /\ new.count = row.count /\ new.page = row.page
      BY <1>2, <2>1 DEF Rows
    <2>3. QED
      BY <2>2 DEF row, new
  <1>6. QED
    BY <1>1, <1>4, <1>5

\* A repair spreads the row of an orphan over books at the one place it points to.
LEMMA RepairWrites ==
  ASSUME TypeOK, VolumesExist, NEW m \in RepairMoves
  PROVE  \E o \in Orphans :
            /\ Repairable(o) /\ m.old = o
            /\ DOMAIN m.rows \subseteq Resolves
            /\ \A id \in DOMAIN m.rows :
                  /\ At(id) \in Hits(o)
                  /\ m.rows[id] \in Rows
                  /\ m.rows[id].of = progress[o].of
                  /\ m.rows[id].at = progress[o].at
                  /\ m.rows[id].count = PageCount(id)
                  /\ m.rows[id].page \in 1..PageCount(id)
            /\ m = RepairMove(o)
  <1>1. PICK o \in Orphans : Repairable(o) /\ m = RepairMove(o)
    BY DEF RepairMoves
  <1> DEFINE dest == UNION {BooksAt(loc) : loc \in Hits(o)}
             reached == {id \in dest : progress[o].done \/ PagesBefore(id) < progress[o].page}
  <1>2. m.old = o /\ DOMAIN m.rows = reached
        /\ \A id \in reached : m.rows[id] = RepairRow(o, id)
    BY <1>1 DEF RepairMove
  <1>3. progress[o] \in Rows
    BY DEF TypeOK, Orphans
  <1>4. ASSUME NEW id \in reached
        PROVE  /\ id \in Resolves /\ At(id) \in Hits(o)
               /\ m.rows[id] \in Rows
               /\ m.rows[id].of = progress[o].of
               /\ m.rows[id].at = progress[o].at
               /\ m.rows[id].count = PageCount(id)
               /\ m.rows[id].page \in 1..PageCount(id)
    <2> DEFINE before == PagesBefore(id)
               local == progress[o].page - before
               done == progress[o].done \/ local >= PageCount(id)
               page == IF done THEN PageCount(id) ELSE local
    <2>1. id \in Resolves /\ At(id) \in Hits(o)
      BY DEF BooksAt
    <2>2. before \in Nat /\ PageCount(id) \in Nat \ {0}
      <3>1. {v \in BooksAt(At(id)) : v[3] < id[3]} \in SUBSET Resolves
        BY DEF BooksAt
      <3>2. QED
        BY <2>1, <3>1, PagesType DEF PagesBefore
    <2>3. progress[o].page \in Nat \ {0} /\ progress[o].done \in BOOLEAN
      BY <1>3 DEF Rows
    <2>4. progress[o].done \/ before < progress[o].page
      OBVIOUS
    <2>5. m.rows[id] = [progress[o] EXCEPT !.page = page, !.count = PageCount(id), !.done = done]
      BY <1>2 DEF RepairRow
    <2>6. page \in 1..PageCount(id) /\ done \in BOOLEAN
      <3> HIDE DEF before
      <3>1. QED
        BY <2>2, <2>3, <2>4
    <2>7. page \in Nat \ {0}
      <3> HIDE DEF page
      <3>1. QED
        BY <2>2, <2>6
    <2> HIDE DEF page, done
    <2>8. /\ m.rows[id] \in Rows /\ m.rows[id].of = progress[o].of
          /\ m.rows[id].at = progress[o].at
          /\ m.rows[id].page = page /\ m.rows[id].count = PageCount(id)
      <3> DEFINE row == progress[o]
                 new == m.rows[id]
      <3>1. row \in Rows
            /\ new = [row EXCEPT !.page = page, !.count = PageCount(id), !.done = done]
        BY <1>3, <2>5
      <3> HIDE DEF row, new
      <3>2. /\ new \in Rows /\ new.of = row.of /\ new.at = row.at
            /\ new.page = page /\ new.count = PageCount(id)
        BY <2>2, <2>6, <2>7, <3>1 DEF Rows
      <3>3. QED
        BY <3>2 DEF row, new
    <2>9. QED
      BY <2>1, <2>6, <2>8
  <1>5. QED
    <2> HIDE DEF reached
    <2>1. QED
      BY <1>1, <1>2, <1>4

\* What the two repairs offer are rows for books of the index.
LEMMA CarryOffers ==
  ASSUME TypeOK, MovesAreSeen PROVE Offers(CarryMoves)
  <1>1. ASSUME NEW m \in CarryMoves
        PROVE  DOMAIN m.rows \subseteq Resolves /\ \A id \in DOMAIN m.rows : m.rows[id] \in Rows
    <2>1. PICK n \in moved : DOMAIN m.rows = {n[2]} /\ m.rows[n[2]] \in Rows
      BY CarryWrites
    <2>2. n[2] \in Resolves
      BY DEF MovesAreSeen, TypeOK
    <2>3. QED
      BY <2>1, <2>2
  <1>2. QED
    BY <1>1 DEF Offers

\* The rows a repair writes are of books of the index.
LEMMA RepairOffers ==
  ASSUME TypeOK, VolumesExist PROVE Offers(RepairMoves)
  BY RepairWrites DEF Offers

-----------------------------------------------------------------------------
(***************************************************************************)
(* What a walk writes.                                                     *)
(***************************************************************************)
LEMMA RootsAreFinite ==
  IsFiniteSet(RootSet) /\ IsFiniteSet(Locations)
  <1>1. DOMAIN Roots = 1..Len(Roots) /\ Len(Roots) \in Nat /\ IsFiniteSet(Paths)
    BY HistoryAssumption DEF HistoryAssumption
  <1>2. IsFiniteSet(DOMAIN Roots)
    BY <1>1, FS_Interval
  <1>3. IsFiniteSet(RootSet)
    BY <1>2, FiniteImage DEF RootSet
  <1>4. QED
    BY <1>1, <1>3, FS_Product DEF Locations

\* The file at a location is listed as itself or as all of its volumes, and only
\* after the upgrade as volumes.
LEMMA ListedIs ==
  ASSUME NEW l \in Locations, disk[l] \in Files
  PROVE  /\ \/ Listed(l) = {<<l[1], l[2], 0>>}
            \/ /\ upgraded
               /\ Listed(l) = {<<l[1], l[2], k>> : k \in 1..Len(Volumes[disk[l]])}
         /\ Listed(l) # {} /\ IsFiniteSet(Listed(l))
         /\ \A id \in Listed(l) :
               id \in Ids /\ At(id) = l /\ id[3] \in 0..Len(Volumes[disk[l]])
  <1> DEFINE n == Len(Volumes[disk[l]])
             g == [k \in 1..n |-> <<l[1], l[2], k>>]
  <1>1. n \in Nat \ {0} /\ DOMAIN Volumes[disk[l]] = 1..n
    BY VolumesAre
  <1>2. l = <<l[1], l[2]>> /\ l[1] \in RootSet /\ l[2] \in Paths
    BY DEF Locations
  <1>3. \/ Listed(l) = {<<l[1], l[2], 0>>}
        \/ upgraded /\ Listed(l) = {<<l[1], l[2], k>> : k \in 1..n}
    BY <1>1 DEF Listed
  <1>4. IsFiniteSet({<<l[1], l[2], 0>>})
    BY FS_Singleton
  <1>5. IsFiniteSet({<<l[1], l[2], k>> : k \in 1..n})
    <2>1. IsFiniteSet(1..n)
      BY <1>1, FS_Interval
    <2>2. {<<l[1], l[2], k>> : k \in 1..n} = {g[k] : k \in 1..n}
      OBVIOUS
    <2>3. DOMAIN g = 1..n
      OBVIOUS
    <2> HIDE DEF g, n
    <2>4. QED
      BY <2>1, <2>2, <2>3, FiniteImage
  <1>6. 1 \in 1..n
    BY <1>1
  <1> HIDE DEF n
  <1>7. ASSUME NEW id \in Listed(l)
        PROVE  id \in Ids /\ At(id) = l /\ id[3] \in 0..n
    BY <1>1, <1>2, <1>3 DEF Ids, At
  <1>8. QED
    BY <1>3, <1>4, <1>5, <1>6, <1>7 DEF n

(* The ids of a location.                                                  *)
IdsAt(S, l) == {k \in S : At(k) = l}

\* The rows a walk writes are of what it found.
LEMMA IndexWrites ==
  ASSUME TypeOK, NEW found \in SUBSET Locations,
         \A l \in found : disk[l] # None, Index(found)
  PROVE  \E ids :
         /\ DOMAIN books' = Resolves \cup ids /\ stamped' = stamped \cup ids
         /\ \A id \in Resolves \cup ids :
               books'[id] = IF id \in ids THEN disk[At(id)] ELSE books[id]
         /\ \A id \in ids :
               /\ id \in Ids /\ At(id) \in found /\ disk[At(id)] \in Files
               /\ id[3] \in 0..Len(Volumes[disk[At(id)]])
               /\ ~upgraded => id[3] = 0
         /\ \A l \in found : \E k \in ids : At(k) = l
         /\ \A l \in Locations : IdsAt(ids, l) = IF l \in found THEN Listed(l) ELSE {}
         /\ IsFiniteSet(ids)
  <1> DEFINE ids == UNION {Listed(l) : l \in found}
  <1>1. \A l \in found : disk[l] \in Files
    BY DEF TypeOK
  <1>2. ASSUME NEW id \in ids
        PROVE  /\ id \in Ids /\ At(id) \in found /\ disk[At(id)] \in Files
               /\ id[3] \in 0..Len(Volumes[disk[At(id)]])
               /\ ~upgraded => id[3] = 0
    <2>1. PICK l \in found : id \in Listed(l)
      OBVIOUS
    <2>2. id \in Ids /\ At(id) = l /\ id[3] \in 0..Len(Volumes[disk[l]])
      BY <1>1, <2>1, ListedIs
    <2>3. ~upgraded => id = <<l[1], l[2], 0>>
      BY <1>1, <2>1, ListedIs
    <2>4. QED
      BY <1>1, <2>2, <2>3
  <1>3. ASSUME NEW l \in found PROVE \E k \in ids : At(k) = l
    BY <1>1, ListedIs
  <1>6. ASSUME NEW l \in Locations
        PROVE  IdsAt(ids, l) = IF l \in found THEN Listed(l) ELSE {}
    BY <1>1, ListedIs DEF IdsAt
  <1>4. IsFiniteSet(ids)
    <2> DEFINE g == [l \in found |-> Listed(l)]
               G == {g[l] : l \in found}
    <2>1. IsFiniteSet(found)
      BY RootsAreFinite, FS_Subset
    <2>2. DOMAIN g = found
      OBVIOUS
    <2>3. IsFiniteSet(G)
      <3> HIDE DEF g
      <3>1. QED
        BY <2>1, <2>2, FiniteImage
    <2>4. \A T \in G : IsFiniteSet(T)
      BY <1>1, ListedIs
    <2>5. ids = UNION G
      OBVIOUS
    <2> HIDE DEF G
    <2>6. QED
      BY <2>3, <2>4, <2>5, FS_UNION
  <1>5. /\ books' = [id \in Resolves \cup ids |-> IF id \in ids THEN disk[At(id)] ELSE books[id]]
        /\ stamped' = stamped \cup ids
    BY DEF Index
  <1> HIDE DEF ids
  <1>7. QED
    BY <1>2, <1>3, <1>4, <1>5, <1>6 DEF Resolves

-----------------------------------------------------------------------------
(***************************************************************************)
(* The invariant holds at first and after every step.                      *)
(***************************************************************************)
\* The index at first: the file at each location, as itself.
LEMMA WalkInit == Init => WalkInv
  <1> SUFFICES ASSUME Init PROVE WalkInv
    OBVIOUS
  <1> DEFINE there == {m \in Locations : Start[m] # None}
             ids == {<<l[1], l[2], 0>> : l \in there}
  <1>1. /\ disk = Start /\ offline = {} /\ unreadable = {} /\ upgraded = FALSE
        /\ books = [id \in ids |-> Start[At(id)]]
        /\ stamped = {} /\ progress = [id \in {} |-> None] /\ reads = 0 /\ opened = {}
        /\ phase = "idle" /\ queue = {} /\ full = FALSE /\ targeted = FALSE
        /\ cancelled = FALSE /\ rootErr = FALSE /\ swept = {} /\ moved = {}
    BY DEF Init
  <1>2. Start \in [Locations -> Files \cup {None}] /\ MaxReads \in Nat
    BY HistoryAssumption DEF HistoryAssumption
  <1>3. ASSUME NEW id \in ids
        PROVE  id \in Ids /\ At(id) \in there /\ id[3] = 0 /\ Start[At(id)] \in Files
    <2>1. PICK l \in there : id = <<l[1], l[2], 0>>
      OBVIOUS
    <2>2. l = <<l[1], l[2]>> /\ l[1] \in RootSet /\ l[2] \in Paths
      BY DEF Locations
    <2>3. QED
      BY <1>2, <2>1, <2>2 DEF Ids, At
  <1>4. DOMAIN books = ids /\ \A id \in ids : books[id] = Start[At(id)]
    BY <1>1
  <1>5. IsFiniteSet(ids)
    <2> DEFINE g == [l \in there |-> <<l[1], l[2], 0>>]
    <2>1. IsFiniteSet(there)
      BY RootsAreFinite, FS_Subset
    <2>2. DOMAIN g = there
      OBVIOUS
    <2>3. ids = {g[l] : l \in there}
      OBVIOUS
    <2> HIDE DEF g, ids, there
    <2>4. QED
      BY <2>1, <2>2, <2>3, FiniteImage
  <1> HIDE DEF ids, there
  <1>6. DOMAIN progress = {}
    BY <1>1
  <1>7. TypeOK
    <2>1. /\ Resolves \subseteq Ids /\ \A id \in Resolves : books[id] \in Files
          /\ DOMAIN progress \subseteq Ids /\ \A id \in DOMAIN progress : progress[id] \in Rows
      BY <1>3, <1>4, <1>6 DEF Resolves
    <2>2. {upgraded, full, targeted, cancelled, rootErr} \subseteq BOOLEAN
      BY <1>1
    <2>3. reads \in 0..MaxReads
      BY <1>1, <1>2
    <2>4. QED
      BY <1>1, <1>2, <2>1, <2>2, <2>3 DEF TypeOK
  <1>8. VolumesExist
    <2>1. \A id \in ids : 0 \in 0..Len(Volumes[books[id]])
      BY <1>3, <1>4, VolumesAre
    <2>2. QED
      BY <1>3, <1>4, <1>5, <2>1 DEF VolumesExist, Resolves
  <1>9. Dated /\ AtRest /\ MovesAreSeen /\ SweptAreWalked
    BY <1>1, <1>6 DEF Dated, AtRest, MovesAreSeen, SweptAreWalked
  <1>10. Whole
    BY <1>3, <1>4, <1>6 DEF Whole, Resolves
  <1>11. QED
    BY <1>7, <1>8, <1>9, <1>10 DEF WalkInv

\* The world changes only what a walk will find, and between scans.
LEMMA WorldSteps == WalkInv /\ (Move \/ Delete \/ Unplug \/ Deny \/ Upgrade) => WalkInv'
  <1> SUFFICES ASSUME WalkInv, Move \/ Delete \/ Unplug \/ Deny \/ Upgrade PROVE WalkInv'
    OBVIOUS
  <1> USE DEF WalkInv
  <1>1. /\ UNCHANGED <<books, stamped, reader, request, cancelled, rootErr, swept, moved>>
        /\ disk' \in [Locations -> Files \cup {None}]
        /\ offline' \subseteq RootSet /\ unreadable' \subseteq Locations
        /\ upgraded' \in BOOLEAN
        /\ upgraded => upgraded'
        /\ \/ phase' = phase
           \/ phase = "idle" /\ phase' = "startup"
        /\ phase # "idle" => UNCHANGED <<disk, unreadable, upgraded>>
    <2>1. CASE Move
      <3>1. PICK m \in Moves : /\ disk[m[1]] # None
                               /\ disk' = [disk EXCEPT ![m[2]] = disk[m[1]], ![m[1]] = None]
        BY <2>1 DEF Move
      <3>2. m[1] \in Locations /\ m[2] \in Locations
        BY HistoryAssumption DEF HistoryAssumption
      <3>3. disk' \in [Locations -> Files \cup {None}]
        BY <3>1, <3>2 DEF TypeOK
      <3>4. QED
        BY <2>1, <3>3 DEF Move, scan, TypeOK
    <2>2. CASE Delete
      BY <2>2 DEF Delete, scan, TypeOK
    <2>3. CASE Unplug
      BY <2>3 DEF Unplug, scan, TypeOK
    <2>4. CASE Deny
      BY <2>4 DEF Deny, scan, TypeOK
    <2>5. CASE Upgrade
      BY <2>5 DEF Upgrade, TypeOK
    <2>6. QED
      BY <2>1, <2>2, <2>3, <2>4, <2>5
  <1>2. TypeOK'
    <2>1. {upgraded', full', targeted', cancelled', rootErr'} \subseteq BOOLEAN
      <3>1. {upgraded, full, targeted, cancelled, rootErr} \subseteq BOOLEAN
        BY DEF TypeOK
      <3>2. full' = full /\ targeted' = targeted /\ cancelled' = cancelled /\ rootErr' = rootErr
        BY <1>1 DEF request
      <3>3. QED
        BY <1>1, <3>1, <3>2
    <2>2. /\ Resolves' \subseteq Ids /\ \A id \in Resolves' : books'[id] \in Files
          /\ stamped' \subseteq Resolves'
      BY <1>1 DEF TypeOK, Resolves
    <2>3. phase' \in {"startup", "idle", "walk", "sweep", "carry", "repair", "purge"}
      BY <1>1 DEF TypeOK
    <2>4. QED
      BY <1>1, <2>1, <2>2, <2>3 DEF TypeOK, reader, request
  <1>3. VolumesExist' /\ Dated' /\ AtRest' /\ MovesAreSeen' /\ Whole'
    <2>1. VolumesExist' /\ MovesAreSeen' /\ AtRest'
      BY <1>1 DEF VolumesExist, MovesAreSeen, AtRest, Resolves
    <2>2. Dated'
      BY <1>1 DEF Dated, reader
    <2>3. Whole'
      <3>1. progress' = progress /\ books' = books
        BY <1>1 DEF reader
      <3>2. ASSUME ~upgraded', NEW id \in Resolves' \cup DOMAIN progress' PROVE id[3] = 0
        <4>1. ~upgraded
          BY <1>1, <3>2
        <4>2. id \in Resolves \cup DOMAIN progress
          BY <3>1 DEF Resolves
        <4>3. QED
          BY <4>1, <4>2 DEF Whole
      <3>3. QED
        BY <3>2 DEF Whole
    <2>4. QED
      BY <2>1, <2>2, <2>3
  <1>4. SweptAreWalked'
    <2>1. CASE phase = "idle"
      <3>1. swept' = {} /\ phase' # "sweep"
        BY <1>1, <2>1 DEF AtRest
      <3>2. QED
        BY <3>1 DEF SweptAreWalked
    <2>2. CASE phase # "idle"
      BY <1>1, <2>2 DEF SweptAreWalked, Walked, Hidden, SweepAllowed, Due, request
    <2>3. QED
      BY <2>1, <2>2
  <1>5. QED
    BY <1>2, <1>3, <1>4

\* A page turn writes a row of a book of the index, dated now.
LEMMA ReadStep == WalkInv /\ Read => WalkInv'
  <1> SUFFICES ASSUME WalkInv, Read PROVE WalkInv'
    OBVIOUS
  <1> USE DEF WalkInv
  <1>1. reads < MaxReads /\ reads' = reads + 1 /\ UNCHANGED <<world, books, stamped, scan>>
    BY DEF Read
  <1>2. PICK id \in Resolves : \E page \in Clamped(id), done, staleSeen \in BOOLEAN :
           /\ progress' = [i \in DOMAIN progress \cup {id} |->
                 IF i = id
                 THEN [root |-> id[1], path |-> id[2], page |-> page,
                       count |-> IF id \in DOMAIN progress /\ ~staleSeen
                                 THEN progress[id].count ELSE PageCount(id),
                       done |-> done, at |-> reads + 1, of |-> books[id]]
                 ELSE progress[i]]
           /\ opened' = opened \cup {books[id]}
    BY DEF Read
  <1>3. id \in Ids /\ id[1] \in RootSet /\ id[2] \in Paths /\ books[id] \in Files
        /\ PageCount(id) \in Nat \ {0} /\ reads \in Nat /\ MaxReads \in Nat
    <2>1. id \in Ids /\ books[id] \in Files
      BY DEF TypeOK
    <2>2. PageCount(id) \in Nat \ {0}
      BY PagesType, {id} \in SUBSET Resolves
    <2>3. MaxReads \in Nat
      BY HistoryAssumption DEF HistoryAssumption
    <2>4. QED
      BY <2>1, <2>2, <2>3, LocationIs DEF TypeOK
  <1>4. PICK row : /\ row \in Rows /\ row.at = reads + 1
                   /\ progress' = [i \in DOMAIN progress \cup {id} |->
                                      IF i = id THEN row ELSE progress[i]]
    <2>0. PICK page \in Clamped(id), done \in BOOLEAN, staleSeen \in BOOLEAN :
             progress' = [i \in DOMAIN progress \cup {id} |->
                 IF i = id
                 THEN [root |-> id[1], path |-> id[2], page |-> page,
                       count |-> IF id \in DOMAIN progress /\ ~staleSeen
                                 THEN progress[id].count ELSE PageCount(id),
                       done |-> done, at |-> reads + 1, of |-> books[id]]
                 ELSE progress[i]]
      BY <1>2
    <2> DEFINE count == IF id \in DOMAIN progress /\ ~staleSeen
                        THEN progress[id].count ELSE PageCount(id)
               row == [root |-> id[1], path |-> id[2], page |-> page, count |-> count,
                       done |-> done, at |-> reads + 1, of |-> books[id]]
    <2>1. page \in Nat \ {0}
      BY <1>3 DEF Clamped
    <2>2. count \in Nat \ {0}
      <3>1. id \in DOMAIN progress => progress[id].count \in Nat \ {0}
        BY DEF TypeOK, Rows
      <3>2. QED
        BY <1>3, <3>1
    <2>3. reads + 1 \in 1..MaxReads
      BY <1>1, <1>3
    <2>4. row \in Rows /\ row.at = reads + 1
      <3> HIDE DEF count
      <3>1. QED
        BY <1>3, <2>1, <2>2, <2>3 DEF Rows
    <2> HIDE DEF row
    <2>5. QED
      BY <2>0, <2>4 DEF row
  <1>5. DOMAIN progress' = DOMAIN progress \cup {id}
        /\ \A i \in DOMAIN progress' : progress'[i] = IF i = id THEN row ELSE progress[i]
    BY <1>4
  <1>6. TypeOK'
    <2>1. \A i \in DOMAIN progress' : i \in Ids /\ progress'[i] \in Rows
      BY <1>3, <1>4, <1>5 DEF TypeOK
    <2>2. reads' \in 0..MaxReads /\ opened' \subseteq Files
      BY <1>1, <1>2, <1>3 DEF TypeOK
    <2>3. QED
      BY <1>1, <2>1, <2>2 DEF TypeOK, Resolves, world, scan, request
  <1>7. Dated'
    <2>1. \A i \in DOMAIN progress : progress[i].at \in Nat /\ progress[i].at <= reads
      BY DEF Dated, TypeOK, Rows
    <2>2. QED
      BY <1>1, <1>3, <1>4, <1>5, <2>1 DEF Dated
  <1>8. VolumesExist' /\ AtRest' /\ MovesAreSeen' /\ Whole'
    BY <1>1, <1>5 DEF VolumesExist, AtRest, MovesAreSeen, Whole, Resolves, world, scan
  <1>9. SweptAreWalked'
    BY <1>1 DEF SweptAreWalked, Walked, Hidden, SweepAllowed, Due, world, scan, request
  <1>10. QED
    BY <1>6, <1>7, <1>8, <1>9

\* A run that begins, and one that is lost, forgets what the last one knew.
LEMMA NewRunSteps == WalkInv /\ (Begin \/ Crash \/ Rebuild) => WalkInv'
  <1> SUFFICES ASSUME WalkInv, Begin \/ Crash \/ Rebuild PROVE WalkInv'
    OBVIOUS
  <1> USE DEF WalkInv
  <1>1. /\ UNCHANGED <<world, reader>> /\ NewRun
        /\ \/ books' = books
           \/ books' = [id \in {} |-> None]
        /\ phase' \in {"walk", "startup"}
        /\ queue' \subseteq RootSet /\ full' \in BOOLEAN /\ targeted' \in BOOLEAN
    <2>1. CASE Begin
      BY <2>1 DEF Begin
    <2>2. CASE Crash
      BY <2>2 DEF Crash
    <2>3. CASE Rebuild
      BY <2>3 DEF Rebuild
    <2>4. QED
      BY <2>1, <2>2, <2>3
  <1>2. /\ stamped' = {} /\ swept' = {} /\ moved' = {}
        /\ cancelled' = FALSE /\ rootErr' = FALSE
        /\ disk' = disk /\ offline' = offline /\ unreadable' = unreadable /\ upgraded' = upgraded
        /\ progress' = progress /\ reads' = reads /\ opened' = opened
    BY <1>1 DEF NewRun, world, reader
  <1>3. Resolves' \in SUBSET Resolves /\ \A id \in Resolves' : books'[id] = books[id]
    <2>1. CASE books' = books
      BY <2>1 DEF Resolves
    <2>2. CASE books' = [id \in {} |-> None]
      BY <2>2 DEF Resolves
    <2>3. QED
      BY <1>1, <2>1, <2>2
  <1>4. TypeOK'
    <2>1. {upgraded', full', targeted', cancelled', rootErr'} \subseteq BOOLEAN
      <3>1. upgraded \in BOOLEAN
        BY DEF TypeOK
      <3>2. QED
        BY <1>1, <1>2, <3>1
    <2>2. /\ Resolves' \subseteq Ids /\ \A id \in Resolves' : books'[id] \in Files
          /\ stamped' \subseteq Resolves'
      BY <1>2, <1>3 DEF TypeOK
    <2>3. phase' \in {"startup", "idle", "walk", "sweep", "carry", "repair", "purge"}
      BY <1>1
    <2>4. QED
      BY <1>1, <1>2, <2>1, <2>2, <2>3 DEF TypeOK
  <1>5. VolumesExist'
    <2>1. IsFiniteSet(Resolves')
      BY <1>3, FS_Subset DEF VolumesExist
    <2>2. QED
      BY <1>3, <2>1 DEF VolumesExist
  <1>6. Dated' /\ AtRest' /\ MovesAreSeen'
    BY <1>2 DEF Dated, AtRest, MovesAreSeen
  <1>7. Whole'
    BY <1>2, <1>3 DEF Whole
  <1>8. SweptAreWalked'
    BY <1>1, <1>2 DEF SweptAreWalked
  <1>9. QED
    BY <1>4, <1>5, <1>6, <1>7, <1>8

\* What the walk of the root at hand keeps, to its end or to a cancellation.
LEMMA WalkSteps == WalkInv /\ (WalkRoot \/ WalkCancelled) => WalkInv'
  <1> SUFFICES ASSUME WalkInv, WalkRoot \/ WalkCancelled PROVE WalkInv'
    OBVIOUS
  <1> USE DEF WalkInv
  <1>1. /\ UNCHANGED <<world, reader, request, swept, moved>> /\ phase = "walk" /\ phase' = "sweep"
        /\ cancelled' \in BOOLEAN /\ rootErr' \in BOOLEAN
    <2>1. CASE WalkRoot
      BY <2>1 DEF WalkRoot, TypeOK
    <2>2. CASE WalkCancelled
      BY <2>2 DEF WalkCancelled
    <2>3. QED
      BY <2>1, <2>2
  <1>2. PICK ids :
           /\ DOMAIN books' = Resolves \cup ids /\ stamped' = stamped \cup ids
           /\ \A id \in Resolves \cup ids :
                 books'[id] = IF id \in ids THEN disk[At(id)] ELSE books[id]
           /\ \A id \in ids :
                 /\ id \in Ids /\ disk[At(id)] \in Files
                 /\ id[3] \in 0..Len(Volumes[disk[At(id)]])
                 /\ ~upgraded => id[3] = 0
           /\ IsFiniteSet(ids)
           /\ WalkRoot => \E r \in RootSet : Due(r) /\
                 (r \notin offline /\ ~targeted => \A l \in Present(r) : \E k \in ids : At(k) = l)
    <2>1. CASE UNCHANGED <<books, stamped>> /\ \E r \in RootSet : Due(r) /\ r \in offline
      <3> DEFINE none == {}
      <3>1. IsFiniteSet(none)
        BY FS_EmptySet
      <3>2. DOMAIN books' = Resolves \cup none /\ stamped' = stamped \cup none
            /\ \A id \in Resolves : books'[id] = books[id]
        BY <2>1 DEF Resolves
      <3>3. QED
        BY <2>1, <3>1, <3>2
    <2>2. CASE \E r \in RootSet : \E found \in SUBSET Present(r) :
                  Due(r) /\ (WalkRoot => targeted \/ found = Present(r)) /\ Index(found)
      <3>1. PICK r \in RootSet, found \in SUBSET Locations :
               /\ found \subseteq Present(r) /\ Due(r)
               /\ WalkRoot => targeted \/ found = Present(r)
               /\ Index(found)
        BY <2>2 DEF Present
      <3>3. \A l \in found : disk[l] # None
        BY <3>1 DEF Present
      <3>4. PICK ids :
            /\ DOMAIN books' = Resolves \cup ids /\ stamped' = stamped \cup ids
            /\ \A id \in Resolves \cup ids :
                  books'[id] = IF id \in ids THEN disk[At(id)] ELSE books[id]
            /\ \A id \in ids :
                  /\ id \in Ids /\ disk[At(id)] \in Files
                  /\ id[3] \in 0..Len(Volumes[disk[At(id)]])
                  /\ ~upgraded => id[3] = 0
            /\ \A l \in found : \E k \in ids : At(k) = l
            /\ IsFiniteSet(ids)
        BY <3>1, <3>3, IndexWrites
      <3>5. WalkRoot /\ ~targeted => \A l \in Present(r) : \E k \in ids : At(k) = l
        BY <3>1, <3>4
      <3>6. QED
        BY <3>1, <3>4, <3>5
    <2>3. CASE WalkRoot
      BY <2>1, <2>2, <2>3 DEF WalkRoot
    <2>4. CASE WalkCancelled /\ ~WalkRoot
      BY <2>2, <2>4 DEF WalkCancelled
    <2>5. QED
      BY <2>3, <2>4
  <1>3. TypeOK'
    <2>1. {upgraded', full', targeted', cancelled', rootErr'} \subseteq BOOLEAN
      <3>1. {upgraded, full, targeted} \subseteq BOOLEAN
        BY DEF TypeOK
      <3>2. QED
        BY <1>1, <3>1 DEF world, request
    <2>2. /\ Resolves' \subseteq Ids /\ \A id \in Resolves' : books'[id] \in Files
          /\ stamped' \subseteq Resolves'
      BY <1>2 DEF TypeOK, Resolves
    <2>3. phase' \in {"startup", "idle", "walk", "sweep", "carry", "repair", "purge"}
      BY <1>1
    <2>4. QED
      BY <1>1, <2>1, <2>2, <2>3 DEF TypeOK, world, reader, request
  <1>4. VolumesExist'
    <2>1. IsFiniteSet(Resolves')
      BY <1>2, FS_Union DEF VolumesExist, Resolves
    <2>2. \A id \in Resolves' : id[3] \in 0..Len(Volumes[books'[id]])
      BY <1>2 DEF VolumesExist, Resolves
    <2>3. QED
      BY <2>1, <2>2 DEF VolumesExist
  <1>5. Dated' /\ AtRest' /\ MovesAreSeen'
    BY <1>1, <1>2 DEF Dated, AtRest, MovesAreSeen, reader
  <1>6. Whole'
    BY <1>1, <1>2 DEF Whole, Resolves, world, reader
  <1>7. SweptAreWalked'
    <2>1. \A r \in RootSet : Walked(r) => Walked(r)'
      BY <1>1, <1>2 DEF Walked, Hidden, world
    <2>2. ASSUME SweepAllowed', NEW r \in RootSet, Due(r)' PROVE Walked(r)'
      <3>1. WalkRoot /\ ~targeted
        BY <1>1, <2>2 DEF WalkCancelled, SweepAllowed, request
      <3>2. PICK s \in RootSet : Due(s) /\
               (s \notin offline /\ ~targeted => \A l \in Present(s) : \E k \in stamped' : At(k) = l)
        BY <1>2, <3>1
      <3>3. Due(r)
        BY <1>1, <2>2 DEF Due, request
      <3>4. r = s
        BY <3>2, <3>3, OneIsDue
      <3>5. PICK t \in RootSet : Due(t) /\ rootErr' = (t \in offline)
        BY <3>1 DEF WalkRoot
      <3>6. r = t
        BY <3>3, <3>5, OneIsDue
      <3>7. r \notin offline
        BY <2>2, <3>5, <3>6 DEF SweepAllowed
      <3>8. \A l \in Present(r) : \E k \in stamped' : At(k) = l
        BY <3>1, <3>2, <3>4, <3>7
      <3>9. QED
        BY <1>1, <3>8 DEF Walked, Hidden, Present, world
    <2>3. \A r \in swept : Walked(r)'
      BY <2>1 DEF SweptAreWalked, TypeOK
    <2>4. QED
      BY <1>1, <2>2, <2>3 DEF SweptAreWalked
  <1>8. QED
    BY <1>3, <1>4, <1>5, <1>6, <1>7

\* A sweep deletes what the run has not stamped, and leads to what it has.
LEMMA SweepStep == WalkInv /\ SweepRoot => WalkInv'
  <1> SUFFICES ASSUME WalkInv, SweepRoot PROVE WalkInv'
    OBVIOUS
  <1> USE DEF WalkInv
  <1>1. /\ UNCHANGED <<world, stamped, reader, full, targeted, cancelled, rootErr>>
        /\ phase = "sweep" /\ phase' = "walk"
    BY DEF SweepRoot
  <1>2. PICK r \in RootSet :
           /\ Due(r) /\ queue' = queue \ {r}
           /\ IF SweepAllowed
              THEN /\ moved' = moved \cup Relocations(r)
                   /\ books' = [id \in Resolves \ Gone(r) |-> books[id]]
                   /\ swept' = swept \cup {r}
              ELSE UNCHANGED <<moved, books, swept>>
    BY DEF SweepRoot
  <1>3. /\ Resolves' \in SUBSET Resolves /\ \A id \in Resolves' : books'[id] = books[id]
        /\ stamped \subseteq Resolves'
        /\ moved' \subseteq moved \cup Relocations(r)
        /\ swept' \subseteq swept \cup {r}
        /\ swept' # swept => SweepAllowed
    <2>1. stamped \subseteq Resolves /\ stamped \cap Gone(r) = {}
      BY DEF TypeOK, Gone
    <2>2. CASE SweepAllowed
      BY <1>2, <2>1, <2>2 DEF Resolves
    <2>3. CASE ~SweepAllowed
      BY <1>2, <2>1, <2>3 DEF Resolves
    <2>4. QED
      BY <2>2, <2>3
  <1>4. \A m \in Relocations(r) : m \in Ids \X Ids /\ m[2] \in stamped
    BY DEF Relocations, Gone, TypeOK
  <1>5. TypeOK'
    <2>1. {upgraded', full', targeted', cancelled', rootErr'} \subseteq BOOLEAN
      BY <1>1 DEF TypeOK, world
    <2>2. /\ Resolves' \subseteq Ids /\ \A id \in Resolves' : books'[id] \in Files
          /\ stamped' \subseteq Resolves'
      BY <1>1, <1>3 DEF TypeOK
    <2>3. moved' \subseteq Ids \X Ids /\ swept' \subseteq RootSet /\ queue' \subseteq RootSet
      BY <1>2, <1>3, <1>4 DEF TypeOK
    <2>4. phase' \in {"startup", "idle", "walk", "sweep", "carry", "repair", "purge"}
      BY <1>1
    <2>5. QED
      BY <1>1, <2>1, <2>2, <2>3, <2>4 DEF TypeOK, world, reader
  <1>6. VolumesExist'
    <2>1. IsFiniteSet(Resolves')
      BY <1>3, FS_Subset DEF VolumesExist
    <2>2. QED
      BY <1>3, <2>1 DEF VolumesExist
  <1>7. Dated' /\ AtRest' /\ MovesAreSeen'
    BY <1>1, <1>3, <1>4 DEF Dated, AtRest, MovesAreSeen, reader
  <1>8. Whole'
    BY <1>1, <1>3 DEF Whole, world, reader
  <1>9. SweptAreWalked'
    <2>1. \A s \in RootSet : Walked(s) => Walked(s)'
      BY <1>1 DEF Walked, Hidden, world
    <2>2. \A s \in swept' : Walked(s)
      BY <1>1, <1>2, <1>3 DEF SweptAreWalked
    <2>3. QED
      BY <1>1, <1>5, <2>1, <2>2 DEF SweptAreWalked, TypeOK
  <1>10. QED
    BY <1>5, <1>6, <1>7, <1>8, <1>9

\* A cancellation is only remembered; the roots that are left are not walked.
LEMMA ControlSteps == WalkInv /\ (RootsDone \/ Cancel) => WalkInv'
  <1> SUFFICES ASSUME WalkInv, RootsDone \/ Cancel PROVE WalkInv'
    OBVIOUS
  <1> USE DEF WalkInv
  <1>1. /\ UNCHANGED <<world, books, stamped, reader, request, rootErr, swept, moved>>
        /\ cancelled' \in BOOLEAN
        /\ \/ phase' = "carry" /\ phase = "walk"
           \/ phase' = phase /\ phase # "idle" /\ phase # "startup" /\ cancelled' = TRUE
    <2>1. CASE RootsDone
      BY <2>1 DEF RootsDone, TypeOK
    <2>2. CASE Cancel
      BY <2>2 DEF Cancel
    <2>3. QED
      BY <2>1, <2>2
  <1>2. TypeOK'
    <2>1. {upgraded', full', targeted', cancelled', rootErr'} \subseteq BOOLEAN
      <3>1. {upgraded, full, targeted, rootErr} \subseteq BOOLEAN
        BY DEF TypeOK
      <3>2. QED
        BY <1>1, <3>1 DEF world, request
    <2>2. /\ Resolves' \subseteq Ids /\ \A id \in Resolves' : books'[id] \in Files
          /\ stamped' \subseteq Resolves'
      BY <1>1 DEF TypeOK, Resolves
    <2>3. phase' \in {"startup", "idle", "walk", "sweep", "carry", "repair", "purge"}
      BY <1>1 DEF TypeOK
    <2>4. QED
      BY <1>1, <2>1, <2>2, <2>3 DEF TypeOK, world, reader, request
  <1>3. VolumesExist' /\ Dated' /\ AtRest' /\ MovesAreSeen'
    BY <1>1 DEF VolumesExist, Dated, AtRest, MovesAreSeen, Resolves, reader
  <1>4. Whole'
    BY <1>1 DEF Whole, Resolves, world, reader
  <1>5. SweptAreWalked'
    <2>1. \A s \in RootSet : Walked(s) => Walked(s)'
      BY <1>1 DEF Walked, Hidden, world
    <2>2. \A s \in swept' : Walked(s)
      BY <1>1 DEF SweptAreWalked
    <2>3. ~(phase' = "sweep" /\ SweepAllowed')
      BY <1>1 DEF SweepAllowed
    <2>4. QED
      BY <1>2, <2>1, <2>2, <2>3 DEF SweptAreWalked, TypeOK
  <1>6. QED
    BY <1>2, <1>3, <1>4, <1>5

\* The two repairs of the hook, and the one at startup, write rows of books of the
\* index.
LEMMA HookSteps == WalkInv /\ (Carry \/ Repair \/ Startup) => WalkInv' /\ KeepsNewest
  <1> SUFFICES ASSUME WalkInv, Carry \/ Repair \/ Startup PROVE WalkInv' /\ KeepsNewest
    OBVIOUS
  <1> USE DEF WalkInv
  <1>1. /\ UNCHANGED <<world, books, stamped, reads, opened, request, cancelled, rootErr,
                       swept, moved>>
        /\ \/ phase = "carry" /\ phase' = "repair"
           \/ phase = "repair" /\ phase' = "purge"
           \/ phase = "startup" /\ phase' = "idle"
        /\ \/ RepairSplit(CarryMoves)
           \/ RepairSplit(RepairMoves)
           \/ UNCHANGED progress
    <2>1. CASE Carry
      BY <2>1 DEF Carry
    <2>2. CASE Repair
      BY <2>2 DEF Repair
    <2>3. CASE Startup
      BY <2>3 DEF Startup
    <2>4. QED
      BY <2>1, <2>2, <2>3
  <1>2. /\ DOMAIN progress' \subseteq DOMAIN progress \cup Resolves
        /\ \A id \in DOMAIN progress' :
              /\ progress'[id] \in Rows /\ progress'[id].at <= reads
        /\ \A id \in DOMAIN progress' \cap DOMAIN progress :
              progress'[id].at >= progress[id].at
    <2>1. \A id \in DOMAIN progress : progress[id] \in Rows /\ progress[id].at <= reads
      BY DEF TypeOK, Dated
    <2>2. CASE UNCHANGED progress
      <3>1. \A id \in DOMAIN progress : progress[id].at \in Nat
        BY <2>1 DEF Rows
      <3>2. QED
        BY <2>1, <2>2, <3>1
    <2>3. CASE RepairSplit(CarryMoves)
      <3>1. Offers(CarryMoves)
        BY CarryOffers
      <3>2. \A m \in CarryMoves : \A id \in DOMAIN m.rows : m.rows[id].at <= reads
        <4>1. ASSUME NEW m \in CarryMoves, NEW id \in DOMAIN m.rows
              PROVE  m.rows[id].at <= reads
          BY <2>1, CarryWrites
        <4>2. QED
          BY <4>1
      <3>3. QED
        BY <2>1, <2>3, <3>1, <3>2, SplitWrites DEF Offers
    <2>4. CASE RepairSplit(RepairMoves)
      <3>1. Offers(RepairMoves)
        BY RepairOffers
      <3>2. \A m \in RepairMoves : \A id \in DOMAIN m.rows : m.rows[id].at <= reads
        <4>1. ASSUME NEW m \in RepairMoves, NEW id \in DOMAIN m.rows
              PROVE  m.rows[id].at <= reads
          <5>1. PICK o \in Orphans : m.rows[id].at = progress[o].at
            BY <4>1, RepairWrites
          <5>2. QED
            BY <2>1, <5>1 DEF Orphans
        <4>2. QED
          BY <4>1
      <3>3. QED
        BY <2>1, <2>4, <3>1, <3>2, SplitWrites DEF Offers
    <2>5. QED
      BY <1>1, <2>2, <2>3, <2>4
  <1>3. TypeOK'
    <2>1. {upgraded', full', targeted', cancelled', rootErr'} \subseteq BOOLEAN
      BY <1>1 DEF TypeOK, world, request
    <2>2. /\ Resolves' \subseteq Ids /\ \A id \in Resolves' : books'[id] \in Files
          /\ stamped' \subseteq Resolves'
      BY <1>1 DEF TypeOK, Resolves
    <2>3. DOMAIN progress' \subseteq Ids /\ \A id \in DOMAIN progress' : progress'[id] \in Rows
      BY <1>2 DEF TypeOK
    <2>4. phase' \in {"startup", "idle", "walk", "sweep", "carry", "repair", "purge"}
      BY <1>1
    <2>5. QED
      BY <1>1, <2>1, <2>2, <2>3, <2>4 DEF TypeOK, world, request
  <1>4. VolumesExist' /\ MovesAreSeen' /\ AtRest'
    BY <1>1 DEF VolumesExist, AtRest, MovesAreSeen, Resolves
  <1>5. Dated' /\ Whole'
    BY <1>1, <1>2 DEF Dated, Whole, Resolves, world
  <1>6. SweptAreWalked'
    BY <1>1 DEF SweptAreWalked, Walked, Hidden, world
  <1>7. KeepsNewest
    BY <1>2 DEF KeepsNewest
  <1>8. QED
    BY <1>3, <1>4, <1>5, <1>6, <1>7

\* A purge deletes rows and ends the run.
LEMMA PurgeStep == WalkInv /\ Purge => WalkInv'
  <1> SUFFICES ASSUME WalkInv, Purge PROVE WalkInv'
    OBVIOUS
  <1> USE DEF WalkInv
  <1>1. /\ UNCHANGED <<world, books, reads, opened, request>> /\ phase' = "idle" /\ NewRun
    BY DEF Purge
  <1>2. DOMAIN progress' \subseteq DOMAIN progress
        /\ \A id \in DOMAIN progress' : progress'[id] = progress[id]
    BY DEF Purge
  <1>3. TypeOK'
    <2>1. {upgraded', full', targeted', cancelled', rootErr'} \subseteq BOOLEAN
      <3>1. {upgraded, full, targeted} \subseteq BOOLEAN
        BY DEF TypeOK
      <3>2. QED
        BY <1>1, <3>1 DEF world, request, NewRun
    <2>2. /\ Resolves' \subseteq Ids /\ \A id \in Resolves' : books'[id] \in Files
          /\ stamped' \subseteq Resolves'
      BY <1>1 DEF TypeOK, Resolves, NewRun
    <2>3. DOMAIN progress' \subseteq Ids /\ \A id \in DOMAIN progress' : progress'[id] \in Rows
      BY <1>2 DEF TypeOK
    <2>4. phase' \in {"startup", "idle", "walk", "sweep", "carry", "repair", "purge"}
      BY <1>1
    <2>5. QED
      BY <1>1, <2>1, <2>2, <2>3, <2>4 DEF TypeOK, world, request, NewRun
  <1>4. VolumesExist' /\ MovesAreSeen' /\ AtRest' /\ SweptAreWalked'
    BY <1>1 DEF VolumesExist, AtRest, MovesAreSeen, SweptAreWalked, Resolves, NewRun
  <1>5. Dated' /\ Whole'
    BY <1>1, <1>2 DEF Dated, Whole, Resolves, world
  <1>6. QED
    BY <1>3, <1>4, <1>5

\* Every step keeps what the walks know.
LEMMA WalkNext == WalkInv /\ [Next]_vars => WalkInv'
  <1> SUFFICES ASSUME WalkInv, [Next]_vars PROVE WalkInv'
    OBVIOUS
  <1>1. CASE UNCHANGED vars
    BY <1>1 DEF vars, world, reader, scan, request, WalkInv, TypeOK, VolumesExist, Dated,
                AtRest, MovesAreSeen, Whole, SweptAreWalked, Walked, Hidden, SweepAllowed,
                Due, Resolves
  <1>2. QED
    BY <1>1, WorldSteps, ReadStep, NewRunSteps, WalkSteps, SweepStep, ControlSteps,
       HookSteps, PurgeStep DEF Next

\* What a scan knows of the roots it has walked, in every reachable state: who is
\* swept was walked to its end, and what a carry leads to was seen.
THEOREM HistoryInvariant == Spec => []WalkInv
  <1>1. QED
    BY WalkInit, WalkNext, PTL DEF Spec

-----------------------------------------------------------------------------
(***************************************************************************)
(* What is deleted was not there to be found.                              *)
(***************************************************************************)
LEMMA PurgeIsOfHidden == WalkInv /\ [Next]_vars => PurgesHidden
  <1> SUFFICES ASSUME WalkInv, [Next]_vars,
                      NEW id \in DOMAIN progress \ DOMAIN progress',
                      phase = "purge", progress[id].root = id[1]
               PROVE  Hidden(At(id)) \/ (upgraded /\ \E k \in Resolves : At(k) = At(id))
    BY DEF PurgesHidden
  <1> USE DEF WalkInv
  <1>1. id \in Vanished
    <2>1. progress' # progress
      OBVIOUS
    <2>2. Read => DOMAIN progress \subseteq DOMAIN progress'
      BY DEF Read
    <2>3. Purge
      BY <2>1, <2>2 DEF Next, vars, reader, Move, Delete, Unplug, Deny, Upgrade, Begin, WalkRoot,
                        WalkCancelled, RootsDone, SweepRoot, Cancel, Carry, Repair, Crash,
                        Rebuild, Startup
    <2>4. DOMAIN progress' = DOMAIN progress \ Vanished
      BY <2>1, <2>3 DEF Purge
    <2>5. QED
      BY <2>4
  <1>2. id \notin Resolves /\ id[1] \in swept
    BY <1>1 DEF Vanished, Orphans
  <1>3. id \in Ids /\ At(id) \in Locations /\ At(id)[1] = id[1]
    BY LocationIs DEF TypeOK
  <1>4. SUFFICES ASSUME ~Hidden(At(id)) PROVE upgraded /\ \E k \in Resolves : At(k) = At(id)
    OBVIOUS
  <1>5. PICK k \in stamped : At(k) = At(id)
    BY <1>2, <1>3, <1>4 DEF SweptAreWalked, Walked
  <1>6. k \in Resolves /\ k \in Ids
    BY DEF TypeOK
  <1>7. ASSUME ~upgraded PROVE FALSE
    <2>1. id[3] = 0 /\ k[3] = 0
      BY <1>6, <1>7 DEF Whole
    <2>2. id = k
      BY <1>3, <1>5, <1>6, <2>1, LocationIs DEF At
    <2>3. QED
      BY <1>2, <1>6, <2>2
  <1>8. upgraded \in BOOLEAN
    BY DEF TypeOK
  <1>9. QED
    BY <1>5, <1>6, <1>7, <1>8

\* No step deletes a row of a file that can be seen.
LEMMA SweepIsOfHidden == WalkInv /\ [Next]_vars => SweepsHidden
  <1> SUFFICES ASSUME WalkInv, [Next]_vars,
                      NEW id \in Resolves \ DOMAIN books', phase = "sweep"
               PROVE  Hidden(At(id)) \/ \E k \in stamped : At(k) = At(id)
    BY DEF SweepsHidden
  <1> USE DEF WalkInv
  <1>1. SweepRoot
    <2>1. books' # books
      BY DEF Resolves
    <2>2. QED
      BY <2>1 DEF Next, vars, Move, Delete, Unplug, Deny, Upgrade, Read, Begin, WalkRoot,
                  WalkCancelled, RootsDone, Cancel, Carry, Repair, Purge, Crash, Rebuild, Startup
  <1>2. PICK r \in RootSet :
           /\ Due(r)
           /\ IF SweepAllowed THEN books' = [k \in Resolves \ Gone(r) |-> books[k]]
                              ELSE books' = books
    BY <1>1 DEF SweepRoot
  <1>3. SweepAllowed /\ id \in Gone(r)
    <2>1. CASE SweepAllowed
      <3>1. DOMAIN books' = Resolves \ Gone(r)
        BY <1>2, <2>1
      <3>2. QED
        BY <2>1, <3>1
    <2>2. CASE ~SweepAllowed
      BY <1>2, <2>2 DEF Resolves
    <2>3. QED
      BY <2>1, <2>2
  <1>4. Walked(r)
    BY <1>2, <1>3 DEF SweptAreWalked
  <1>5. At(id) \in Locations /\ At(id)[1] = r
    BY <1>3, LocationIs DEF TypeOK, Gone
  <1>6. QED
    BY <1>4, <1>5 DEF Walked

\* No step puts an older place over a newer one.
LEMMA NewestStays == WalkInv /\ [Next]_vars => KeepsNewest
  <1> SUFFICES ASSUME WalkInv, [Next]_vars PROVE KeepsNewest
    OBVIOUS
  <1> USE DEF WalkInv
  <1>1. \A id \in DOMAIN progress : progress[id].at \in Nat /\ progress[id].at <= reads
    BY DEF TypeOK, Rows, Dated
  <1>2. CASE progress' = progress
    BY <1>1, <1>2 DEF KeepsNewest
  <1>3. CASE Read
    <2>1. PICK id \in Resolves : \E page \in Clamped(id), done, staleSeen \in BOOLEAN :
             progress' = [i \in DOMAIN progress \cup {id} |->
                 IF i = id
                 THEN [root |-> id[1], path |-> id[2], page |-> page,
                       count |-> IF id \in DOMAIN progress /\ ~staleSeen
                                 THEN progress[id].count ELSE PageCount(id),
                       done |-> done, at |-> reads + 1, of |-> books[id]]
                 ELSE progress[i]]
      BY <1>3 DEF Read
    <2>2. \A i \in DOMAIN progress : \/ progress'[i].at = reads + 1
                                     \/ progress'[i] = progress[i]
      BY <2>1
    <2>3. reads \in Nat
      BY HistoryAssumption DEF HistoryAssumption, TypeOK
    <2>4. QED
      BY <1>1, <2>2, <2>3 DEF KeepsNewest
  <1>4. CASE Purge
    <2>1. \A id \in DOMAIN progress' : progress'[id] = progress[id]
      BY <1>4 DEF Purge
    <2>2. QED
      BY <1>1, <2>1 DEF KeepsNewest
  <1>5. QED
    BY <1>2, <1>3, <1>4, HookSteps
       DEF Next, vars, reader, Move, Delete, Unplug, Deny, Upgrade, Begin, WalkRoot,
           WalkCancelled, RootsDone, SweepRoot, Cancel, Crash, Rebuild

\* Whatever library, whatever moves, whichever roots are unplugged, requests partial,
\* targeted, cancelled or lost in a crash, and whichever steps of the hook fail:
\* reading history and rows of the index are deleted only for files that the walk of
\* their root did not find, or that are listed as their volumes now, and no place is
\* overwritten by an older one.
THEOREM HistoryStaysKept == Spec => HistoryIsKept
  <1>1. WalkInv /\ [Next]_vars => (PurgesHidden /\ SweepsHidden /\ KeepsNewest)
    BY PurgeIsOfHidden, SweepIsOfHidden, NewestStays
  <1>2. QED
    BY <1>1, HistoryInvariant, PTL DEF Spec, HistoryIsKept

-----------------------------------------------------------------------------
(***************************************************************************)
(* What a repair spreads over volumes.                                     *)
(***************************************************************************)
\* An orphan is repaired onto one place.
LEMMA OneHit ==
  ASSUME TypeOK, NEW o \in Orphans, Repairable(o)
  PROVE  \E loc \in Locations : Hits(o) = {loc}
  <1>1. progress[o] \in Rows
    BY DEF TypeOK, Orphans
  <1>2. progress[o].root \in RootSet /\ progress[o].path \in Paths
        /\ Untagged[progress[o].path] \in Paths
    BY <1>1, HistoryAssumption DEF Rows, HistoryAssumption
  <1>3. Hits(o) \subseteq Locations
    BY <1>2 DEF Hits, Candidates, Locations
  <1>4. IsFiniteSet(Hits(o)) /\ Cardinality(Hits(o)) = 1
    BY <1>3, RootsAreFinite, FS_Subset DEF Repairable
  <1>5. QED
    BY <1>3, <1>4, FS_Singleton

\* The rows a repair makes of an orphan add up to its page: whichever volumes there
\* are at the place and however long they are, the pages of those before it, and the
\* page within the one that it falls in.
LEMMA SpreadAddsUp ==
  ASSUME TypeOK, VolumesExist, NEW o \in Orphans, Repairable(o), ~progress[o].done,
         NEW rows, rows = RepairMove(o).rows
  PROVE  Depth(rows, DOMAIN rows) = progress[o].page
  <1>1. PICK loc \in Locations : Hits(o) = {loc}
    BY OneHit
  <1> DEFINE S == BooksAt(loc)
             D == DOMAIN rows
             total == progress[o].page
             key == [id \in S |-> id[3]]
             c == [id \in S |-> PageCount(id)]
             earlier(id) == {v \in S : key[v] < key[id]}
             f == [id \in S |-> Share(total, SumFunctionOnSet(c, earlier(id)), c[id])]
             g == [id \in D |-> rows[id].page]
  <1>2. /\ D = {id \in S : PagesBefore(id) < total}
        /\ \A id \in D : rows[id] = RepairRow(o, id)
    BY <1>1 DEF RepairMove
  <1>3. S \in SUBSET Resolves /\ \A id \in S : At(id) = loc
    BY DEF BooksAt
  <1>4. IsFiniteSet(S) /\ \A id \in S : c[id] \in Nat \ {0}
    BY <1>3, PagesType
  <1>5. \A id \in S : id = <<loc[1], loc[2], id[3]>> /\ id[3] \in Nat
    BY <1>3, LocationIs DEF TypeOK
  <1>6. \A id \in S : key[id] \in Nat
    BY <1>5
  <1>7. \A i, j \in S : key[i] = key[j] => i = j
    BY <1>5
  <1>8. ASSUME NEW id \in S
        PROVE  SumFunctionOnSet(c, earlier(id)) = PagesBefore(id) /\ PagesBefore(id) \in Nat
    <2> DEFINE E == earlier(id)
               d == [v \in E |-> PageCount(v)]
    <2>1. E = {v \in BooksAt(At(id)) : v[3] < id[3]}
      BY <1>3
    <2>2. E \subseteq S /\ E \in SUBSET Resolves
      BY <1>3
    <2>3. IsFiniteSet(E) /\ Pages(E) \in Nat
      BY <2>2, PagesType
    <2>4. \A v \in E : d[v] \in Nat /\ c[v] = d[v]
      BY <1>4, <2>2
    <2>5. Pages(E) = SumFunctionOnSet(d, E)
      BY DEF Pages
    <2>6. PagesBefore(id) = Pages(E)
      BY <2>1 DEF PagesBefore
    <2> HIDE DEF E, d, c
    <2>7. SumFunctionOnSet(c, E) = SumFunctionOnSet(d, E)
      BY <2>3, <2>4, SumAgree
    <2>8. QED
      BY <2>3, <2>5, <2>6, <2>7 DEF E
  <1>9. total \in Nat /\ total <= SumFunctionOnSet(c, S)
    <2>1. progress[o] \in Rows
      BY DEF TypeOK, Orphans
    <2>2. total <= Pages(S)
      BY <1>1 DEF Repairable
    <2>3. QED
      BY <2>1, <2>2 DEF Rows, Pages
  <1>10. ASSUME NEW id \in S
         PROVE  f[id] = IF id \in D THEN g[id] ELSE 0
    <2> DEFINE before == PagesBefore(id)
    <2>1. f[id] = Share(total, before, PageCount(id)) /\ before \in Nat /\ PageCount(id) \in Nat
      BY <1>4, <1>8
    <2>2. CASE id \in D
      <3>1. before < total
        BY <1>2, <2>2
      <3>2. g[id] = RepairRow(o, id).page
        BY <1>2, <2>2
      <3>3. progress[o] \in Rows
        BY DEF TypeOK, Orphans
      <3>4. g[id] = IF total - before >= PageCount(id) THEN PageCount(id) ELSE total - before
        BY <3>2, <3>3 DEF RepairRow, Rows
      <3> HIDE DEF f, g, D, total, before
      <3>5. QED
        BY <1>9, <2>1, <2>2, <3>1, <3>4 DEF Share
    <2>3. CASE id \notin D
      <3>1. ~(before < total)
        BY <1>2, <2>3
      <3> HIDE DEF f, g, D, total, before
      <3>2. QED
        BY <1>9, <2>1, <2>3, <3>1 DEF Share
    <2>4. QED
      BY <2>2, <2>3
  <1>11. \A id \in S : f[id] \in Nat
    <2>1. ASSUME NEW id \in S PROVE f[id] \in Nat
      <3>1. f[id] = Share(total, PagesBefore(id), c[id]) /\ PagesBefore(id) \in Nat /\ c[id] \in Nat
        BY <1>4, <1>8
      <3> HIDE DEF f, c, total
      <3>2. QED
        BY <1>9, <3>1 DEF Share
    <2>2. QED
      BY <2>1
  <1>12. \A id \in S : f[id] = Share(total, SumFunctionOnSet(c, {v \in S : key[v] < key[id]}), c[id])
    OBVIOUS
  <1>13. \A id \in S : c[id] \in Nat
    BY <1>4
  <1>14. D \subseteq S
    BY <1>2
  <1>15. Depth(rows, D) = SumFunctionOnSet(g, D)
    BY DEF Depth
  <1>16. IsFiniteSet(D)
    BY <1>4, <1>14, FS_Subset
  <1> HIDE DEF S, D, total, key, c, f, g
  <1>17. SumFunctionOnSet(f, S) = total
    BY <1>4, <1>6, <1>7, <1>9, <1>12, <1>13, SumSpread
  <1>18. SumFunctionOnSet(f, S) = SumFunctionOnSet(f, D)
    <2>1. \A id \in S \ D : f[id] = 0
      BY <1>10
    <2>2. QED
      BY <1>4, <1>11, <1>14, <2>1, SumNonZero
  <1>19. SumFunctionOnSet(g, D) = SumFunctionOnSet(f, D)
    <2>1. \A id \in D : f[id] \in Nat /\ g[id] = f[id]
      BY <1>10, <1>11, <1>14
    <2>2. QED
      BY <1>16, <2>1, SumAgree
  <1>20. QED
    BY <1>15, <1>17, <1>18, <1>19 DEF D, total

\* A repair writes the rows it made, where it meets no others.
LEMMA PlaceIsKept == WalkInv /\ [Next]_vars => KeepsPlace
  <1> DEFINE dest(o) == UNION {BooksAt(loc) : loc \in Hits(o)}
             written(o) == {id \in dest(o) \cap DOMAIN progress' : progress'[id].at = progress[o].at}
  <1> SUFFICES ASSUME WalkInv, [Next]_vars, NEW o \in DOMAIN progress \ DOMAIN progress',
                      phase \in {"repair", "startup"}, ~progress[o].done,
                      dest(o) \cap DOMAIN progress = {}, Rivals(o) = {}
               PROVE  Depth(progress', written(o)) = progress[o].page
    BY DEF KeepsPlace
  <1> USE DEF WalkInv
  <1>1. RepairSplit(RepairMoves)
    <2>1. CASE Repair \/ Startup
      BY <2>1 DEF Repair, Startup
    <2>2. CASE Read
      <3>1. DOMAIN progress \subseteq DOMAIN progress'
        BY <2>2 DEF Read
      <3>2. QED
        BY <3>1
    <2>3. QED
      BY <2>1, <2>2
         DEF Next, vars, reader, Move, Delete, Unplug, Deny, Upgrade, Begin, WalkRoot,
             WalkCancelled, RootsDone, SweepRoot, Cancel, Carry, Purge, Crash, Rebuild
  <1> DEFINE offers == UNION {DOMAIN m.rows : m \in RepairMoves}
             retired == {m.old : m \in RepairMoves}
  <1>2. /\ DOMAIN progress' = (DOMAIN progress \cup offers) \ retired
        /\ \A id \in DOMAIN progress' :
              \/ id \in DOMAIN progress /\ progress'[id] = progress[id]
              \/ \E m \in RepairMoves : id \in DOMAIN m.rows /\ progress'[id] = m.rows[id]
    BY <1>1, RepairOffers, SplitWrites
  <1>3. PICK m \in RepairMoves : m.old = o
    <2>1. o \in retired
      BY <1>2
    <2>2. QED
      BY <2>1
  <1>4. o \in Orphans /\ Repairable(o) /\ m = RepairMove(o)
    BY <1>3, RepairWrites
  <1>5. PICK loc \in Locations : Hits(o) = {loc}
    BY <1>4, OneHit
  <1>6. dest(o) = BooksAt(loc) /\ DOMAIN m.rows \subseteq BooksAt(loc)
    <2>1. \A id \in DOMAIN m.rows : id \in Resolves /\ At(id) \in Hits(o)
      BY <1>3, RepairWrites
    <2>2. QED
      BY <1>5, <2>1 DEF BooksAt
  <1>7. ASSUME NEW n \in RepairMoves, NEW id \in DOMAIN n.rows, id \in BooksAt(loc)
        PROVE  n = m
    <2>1. PICK i \in Orphans : Repairable(i) /\ n = RepairMove(i)
                               /\ \A k \in DOMAIN n.rows : At(k) \in Hits(i)
      BY RepairWrites
    <2>2. loc \in Hits(i)
      BY <1>7, <2>1 DEF BooksAt
    <2>3. Hits(i) = Hits(o)
      BY <1>5, <2>1, <2>2, OneHit
    <2>4. i = o
      BY <2>1, <2>3 DEF Rivals
    <2>5. QED
      BY <1>4, <2>1, <2>4
  <1>8. ASSUME NEW id \in BooksAt(loc)
        PROVE  /\ id \in DOMAIN progress' <=> id \in DOMAIN m.rows
               /\ id \in DOMAIN m.rows => progress'[id] = m.rows[id]
    <2>1. id \notin DOMAIN progress
      BY <1>6
    <2>2. id \notin retired
      <3>1. \A n \in RepairMoves : n.old \notin Resolves
        BY RepairWrites DEF Orphans
      <3>2. QED
        BY <3>1 DEF BooksAt
    <2>3. id \in offers <=> id \in DOMAIN m.rows
      BY <1>7
    <2>4. id \in DOMAIN progress' <=> id \in DOMAIN m.rows
      BY <1>2, <2>1, <2>2, <2>3
    <2>5. QED
      BY <1>2, <1>7, <2>1, <2>4
  <1>9. written(o) = DOMAIN m.rows
    <2>1. \A id \in DOMAIN m.rows : m.rows[id].at = progress[o].at
      BY <1>3, RepairWrites
    <2>2. QED
      BY <1>6, <1>8, <2>1
  <1>10. Depth(progress', DOMAIN m.rows) = Depth(m.rows, DOMAIN m.rows)
    <2>1. [id \in DOMAIN m.rows |-> progress'[id].page] = [id \in DOMAIN m.rows |-> m.rows[id].page]
      BY <1>6, <1>8
    <2>2. QED
      BY <2>1 DEF Depth
  <1>11. Depth(m.rows, DOMAIN m.rows) = progress[o].page
    BY <1>4, SpreadAddsUp
  <1>12. QED
    BY <1>9, <1>10, <1>11

\* For any library, any moves and any failures: when a repair replaces the row of a
\* file by rows of its volumes, and meets neither rows nor rivals there, the pages
\* of the new rows add up to the page of the old one.
THEOREM RepairsStayExact == Spec => RepairsAreExact
  <1>1. WalkInv /\ [Next]_vars => KeepsPlace
    BY PlaceIsKept
  <1>2. QED
    BY <1>1, HistoryInvariant, PTL DEF Spec, RepairsAreExact

-----------------------------------------------------------------------------
(***************************************************************************)
(* Whose place a row holds.  Two hypotheses: no two files are of the same  *)
(* length, and nothing fails, is skipped or is cut short.  A row of a root *)
(* that is skipped outlives its file, and a file that takes its location   *)
(* later would inherit it.                                                 *)
(***************************************************************************)
LengthsTell == \A f1, f2 \in Files : Total(f1) = Total(f2) => f1 = f2

Undisturbed == Events \subseteq {"upgrade", "unreadable", "targeted", "rebuild"}

StampedAt(l) == IdsAt(stamped, l)
Volume(l, k) == <<l[1], l[2], k>>
VolumesAt(l, f) == {Volume(l, k) : k \in 1..Len(Volumes[f])}

(* Runs end, and those that are not targeted sweep every root.             *)
RunsAreWhole ==
    /\ ~cancelled /\ ~rootErr /\ offline = {}
    /\ phase \in {"idle", "startup"} \/ targeted => Orphans = {} /\ moved = {}
    /\ phase \notin {"idle", "startup"} /\ ~targeted => swept = RootSet \ queue
    /\ phase \in {"carry", "repair", "purge"} => queue = {}

(* What the index and a row of reading history tell of a location is what  *)
(* is there, if anything is.                                               *)
NothingReplaced ==
    /\ \A id \in Resolves : disk[At(id)] \in {books[id], None}
    /\ \A id \in DOMAIN progress : disk[At(id)] \in {progress[id].of, None}
    /\ \A k \in stamped : disk[At(k)] = books[k]

(* A row was written against the length of its file, or of its volume.     *)
LengthsKept ==
    \A id \in DOMAIN progress :
        /\ id[3] \in 0..Len(Volumes[progress[id].of])
        /\ progress[id].count = Length(progress[id].of, id[3])

(* A root is stamped once, and after its sweep nothing else is left of it. *)
StampedOnce ==
    /\ \A id \in Resolves : id[1] \in swept => id \in stamped
    /\ phase = "walk" => \A k \in stamped : k[1] \notin queue
    /\ phase = "sweep" => \A k \in stamped : k[1] \notin queue \/ Due(k[1])
    /\ \A l \in Locations :
          \/ StampedAt(l) \in {{}, {Volume(l, 0)}}
          \/ StampedAt(l) = VolumesAt(l, disk[l])

(* A carry leads to the file that the row was read in.                     *)
CarriesAreTrue ==
    \A m \in moved :
        /\ m[1] \notin stamped /\ m[1][1] \in swept
        /\ m[1] \in DOMAIN progress => progress[m[1]].of = books[m[2]]

PlaceInv ==
    /\ RunsAreWhole /\ NothingReplaced /\ LengthsKept /\ StampedOnce /\ CarriesAreTrue
    /\ PlaceIsOfTheFile

\* The books at a place hold the pages of the file, as one or as all its volumes.
LEMMA PagesAtPlace ==
  ASSUME NEW l, NEW f \in Files, NEW S \in SUBSET Resolves, \A id \in S : books[id] = f,
         S = {Volume(l, 0)} \/ S = VolumesAt(l, f)
  PROVE  Pages(S) = Total(f)
  <1> DEFINE c == [id \in S |-> PageCount(id)]
             n == Len(Volumes[f])
  <1>1. n \in Nat \ {0} /\ DOMAIN Volumes[f] = 1..n /\ \A k \in 1..n : Volumes[f][k] \in Nat
    BY VolumesAre
  <1>2. CASE S = {Volume(l, 0)}
    <2>1. c[Volume(l, 0)] = Total(f)
      BY <1>2 DEF PageCount, Length, Volume
    <2>2. Total(f) \in Nat
      <3>1. Length(f, 0) \in Nat
        BY <1>1, LengthType
      <3>2. QED
        BY <3>1 DEF Length
    <2>3. IsFiniteSet(S) /\ Volume(l, 0) \in S /\ S \ {Volume(l, 0)} = {} /\ \A id \in S : c[id] \in Nat
      BY <1>2, <2>1, <2>2, FS_Singleton
    <2> HIDE DEF c
    <2>4. SumFunctionOnSet(c, S) = c[Volume(l, 0)] + SumFunctionOnSet(c, S \ {Volume(l, 0)})
      BY <2>3, SumRemove
    <2>5. SumFunctionOnSet(c, S \ {Volume(l, 0)}) = 0
      BY <2>3, SumEmpty
    <2>6. QED
      BY <2>1, <2>2, <2>4, <2>5 DEF Pages, c
  <1>3. CASE S = VolumesAt(l, f)
    <2> DEFINE D == 1..n
               b == [k \in D |-> Volume(l, k)]
    <2>1. ASSUME NEW k \in D PROVE Volumes[f][k] = c[b[k]]
      <3>1. Volume(l, k) \in S /\ Volume(l, k)[3] = k /\ k # 0
        BY <1>3 DEF Volume, VolumesAt
      <3>2. PageCount(Volume(l, k)) = Volumes[f][k]
        BY <3>1 DEF PageCount, Length
      <3>3. QED
        BY <3>1, <3>2
    <2>2. DOMAIN b = D /\ \A x, y \in D : b[x] = b[y] => x = y
      BY DEF Volume
    <2>3. S = {b[k] : k \in D}
      BY <1>3 DEF VolumesAt
    <2>4. \A k \in D : c[b[k]] \in Nat
      BY <1>1, <2>1
    <2>5. IsFiniteSet(D)
      BY <1>1, FS_Interval
    <2> HIDE DEF b, c, D, n
    <2>6. SumFunctionOnSet(c, {b[k] : k \in D}) = SumFunctionOnSet(Volumes[f], D)
      BY <2>1, <2>2, <2>4, <2>5, SumRenamed
    <2>7. QED
      BY <1>1, <2>3, <2>6 DEF Pages, Total, c, D
  <1>4. QED
    BY <1>2, <1>3

\* When every root has been swept, a repair leads to the file that the row was read in.
LEMMA RepairIsTrue ==
  ASSUME LengthsTell, WalkInv, PlaceInv, phase \in {"repair", "startup"},
         NEW o \in Orphans, Repairable(o), NEW id \in Resolves, At(id) \in Hits(o)
  PROVE  books[id] = progress[o].of
  <1> USE DEF WalkInv, PlaceInv
  <1>1. swept = RootSet
    BY DEF RunsAreWhole
  <1>2. \A k \in Resolves : k \in stamped
    <2>1. \A k \in Resolves : k[1] \in RootSet
      BY LocationIs DEF TypeOK
    <2>2. QED
      BY <1>1, <2>1 DEF StampedOnce
  <1> DEFINE l == At(id)
             S == BooksAt(l)
  <1>3. l \in Locations
    BY LocationIs DEF TypeOK
  <1>4. S = StampedAt(l) /\ id \in S /\ S \subseteq Resolves
    BY <1>2 DEF BooksAt, StampedAt, IdsAt, TypeOK
  <1>5. books[id] \in Files /\ disk[l] = books[id] /\ \A k \in S : books[k] = books[id]
    BY <1>2, <1>4 DEF NothingReplaced, BooksAt, TypeOK
  <1>6. S = {Volume(l, 0)} \/ S = VolumesAt(l, books[id])
    BY <1>3, <1>4, <1>5 DEF StampedOnce, VolumesAt
  <1> HIDE DEF l, S
  <1>7. Pages(S) = Total(books[id])
    BY <1>4, <1>5, <1>6, PagesAtPlace
  <1>8. progress[o].count = Pages(S) /\ o[3] = 0
    BY DEF Repairable, S, l
  <1>9. progress[o] \in Rows /\ progress[o].of \in Files
    BY DEF Orphans, TypeOK, Rows
  <1>10. progress[o].count = Total(progress[o].of)
    BY <1>8 DEF Orphans, LengthsKept, Length
  <1>11. QED
    BY <1>5, <1>7, <1>8, <1>9, <1>10 DEF LengthsTell

\* Between scans files move to where neither the index nor a row names another.
LEMMA PlaceWorld ==
  ASSUME Undisturbed, WalkInv, PlaceInv, Move \/ Delete \/ Unplug \/ Deny \/ Upgrade
  PROVE  PlaceInv'
  <1> USE DEF WalkInv, PlaceInv
  <1>1. /\ UNCHANGED <<offline, books, stamped, progress, reads, opened, queue, full, targeted,
                       cancelled, rootErr, swept, moved>>
        /\ phase = "idle" /\ phase' \in {"idle", "startup"}
        /\ \/ disk' = disk
           \/ Move
           \/ Delete
    <2>1. CASE Move
      BY <2>1 DEF Move, scan, reader, request
    <2>2. CASE Delete
      BY <2>2 DEF Delete, scan, reader, request
    <2>3. CASE Unplug
      BY <2>3 DEF Unplug, Undisturbed
    <2>4. CASE Deny
      BY <2>4 DEF Deny, scan, reader, request
    <2>5. CASE Upgrade
      BY <2>5 DEF Upgrade, reader, request
    <2>6. QED
      BY <2>1, <2>2, <2>3, <2>4, <2>5
  <1>2. stamped = {} /\ swept = {} /\ moved = {} /\ DOMAIN progress \subseteq Resolves
    BY <1>1 DEF AtRest, RunsAreWhole, Orphans
  <1>3. RunsAreWhole'
    BY <1>1 DEF RunsAreWhole, Orphans, Resolves
  <1>4. \A id \in Resolves : disk'[At(id)] \in {disk[At(id)], None}
    <2>1. CASE disk' = disk
      BY <2>1
    <2>2. CASE Move
      <3>1. PICK m \in Moves :
               /\ disk[m[1]] # None /\ disk[m[2]] = None
               /\ \A id \in Resolves : At(id) # m[2]
               /\ disk' = [disk EXCEPT ![m[2]] = disk[m[1]], ![m[1]] = None]
        BY <2>2 DEF Move
      <3>2. disk \in [Locations -> Files \cup {None}] /\ \A id \in Resolves : At(id) \in Locations
        BY LocationIs DEF TypeOK
      <3>3. QED
        BY <3>1, <3>2
    <2>3. CASE Delete
      BY <2>3 DEF Delete, TypeOK
    <2>4. QED
      BY <1>1, <2>1, <2>2, <2>3
  <1>5. NothingReplaced'
    BY <1>1, <1>2, <1>4 DEF NothingReplaced, Resolves
  <1>6. LengthsKept' /\ PlaceIsOfTheFile'
    BY <1>1 DEF LengthsKept, PlaceIsOfTheFile, Resolves
  <1>7. StampedOnce'
    BY <1>1, <1>2 DEF StampedOnce, StampedAt, IdsAt
  <1>8. CarriesAreTrue'
    BY <1>1, <1>2 DEF CarriesAreTrue
  <1>9. QED
    BY <1>3, <1>5, <1>6, <1>7, <1>8

\* A page turn writes a row for the file the index names, which is there if any is.
LEMMA PlaceRead == ASSUME WalkInv, PlaceInv, Read PROVE PlaceInv'
  <1> USE DEF WalkInv, PlaceInv
  <1>1. UNCHANGED <<world, books, stamped, scan>>
    BY DEF Read
  <1>2. PICK id \in Resolves : \E row :
           /\ row.of = books[id]
           /\ \/ row.count = PageCount(id)
              \/ id \in DOMAIN progress /\ row.count = progress[id].count
           /\ progress' = [i \in DOMAIN progress \cup {id} |-> IF i = id THEN row ELSE progress[i]]
    <2>1. PICK id \in Resolves : \E page \in Clamped(id), done, staleSeen \in BOOLEAN :
             progress' = [i \in DOMAIN progress \cup {id} |->
                 IF i = id
                 THEN [root |-> id[1], path |-> id[2], page |-> page,
                       count |-> IF id \in DOMAIN progress /\ ~staleSeen
                                 THEN progress[id].count ELSE PageCount(id),
                       done |-> done, at |-> reads + 1, of |-> books[id]]
                 ELSE progress[i]]
      BY DEF Read
    <2>2. PICK page \in Clamped(id), done \in BOOLEAN, staleSeen \in BOOLEAN :
             progress' = [i \in DOMAIN progress \cup {id} |->
                 IF i = id
                 THEN [root |-> id[1], path |-> id[2], page |-> page,
                       count |-> IF id \in DOMAIN progress /\ ~staleSeen
                                 THEN progress[id].count ELSE PageCount(id),
                       done |-> done, at |-> reads + 1, of |-> books[id]]
                 ELSE progress[i]]
      BY <2>1
    <2> DEFINE count == IF id \in DOMAIN progress /\ ~staleSeen
                        THEN progress[id].count ELSE PageCount(id)
               row == [root |-> id[1], path |-> id[2], page |-> page, count |-> count,
                       done |-> done, at |-> reads + 1, of |-> books[id]]
    <2>3. row.of = books[id] /\ row.count = count
      OBVIOUS
    <2>4. \/ count = PageCount(id)
          \/ id \in DOMAIN progress /\ count = progress[id].count
      OBVIOUS
    <2> HIDE DEF row
    <2>5. QED
      BY <2>2, <2>3, <2>4 DEF row
  <1>3. PICK row :
           /\ row.of = books[id]
           /\ \/ row.count = PageCount(id)
              \/ id \in DOMAIN progress /\ row.count = progress[id].count
           /\ progress' = [i \in DOMAIN progress \cup {id} |-> IF i = id THEN row ELSE progress[i]]
    BY <1>2
  <1>4. /\ DOMAIN progress' = DOMAIN progress \cup {id}
        /\ \A i \in DOMAIN progress' : progress'[i] = IF i = id THEN row ELSE progress[i]
    BY <1>3
  <1>5. /\ id[3] \in 0..Len(Volumes[books[id]])
        /\ row.count = Length(books[id], id[3])
    <2>1. id \in DOMAIN progress => progress[id].of = books[id]
      BY DEF PlaceIsOfTheFile
    <2>2. QED
      BY <1>3, <2>1 DEF VolumesExist, LengthsKept, PageCount
  <1>6. Orphans' = Orphans
    BY <1>1, <1>4 DEF Orphans, Resolves
  <1>7. RunsAreWhole'
    BY <1>1, <1>6 DEF RunsAreWhole, world, scan, request
  <1>8. NothingReplaced'
    BY <1>1, <1>3, <1>4 DEF NothingReplaced, Resolves, world
  <1>9. LengthsKept'
    BY <1>3, <1>4, <1>5 DEF LengthsKept
  <1>10. StampedOnce'
    BY <1>1 DEF StampedOnce, StampedAt, IdsAt, Resolves, Due, world, scan, request
  <1>11. CarriesAreTrue'
    <2>1. ASSUME NEW m \in moved PROVE m[1] # id
      BY <2>1 DEF CarriesAreTrue, StampedOnce
    <2>2. QED
      BY <1>1, <1>4, <2>1 DEF CarriesAreTrue, scan
  <1>12. PlaceIsOfTheFile'
    BY <1>1, <1>3, <1>4 DEF PlaceIsOfTheFile, Resolves
  <1>13. QED
    BY <1>7, <1>8, <1>9, <1>10, <1>11, <1>12

\* A run begins, the process is restarted, or the index is rebuilt.
LEMMA PlaceBegin ==
  ASSUME Undisturbed, WalkInv, PlaceInv, Begin \/ Crash \/ Rebuild PROVE PlaceInv'
  <1> USE DEF WalkInv, PlaceInv
  <1>1. /\ UNCHANGED <<world, reader>> /\ NewRun /\ phase' = "walk" /\ queue' = RootSet
        /\ phase = "idle"
        /\ \/ books' = books
           \/ books' = [id \in {} |-> None] /\ targeted' = FALSE
    <2>1. CASE Begin
      BY <2>1 DEF Begin, Undisturbed
    <2>2. CASE Crash
      BY <2>2 DEF Crash, Undisturbed
    <2>3. CASE Rebuild
      BY <2>3 DEF Rebuild
    <2>4. QED
      BY <2>1, <2>2, <2>3
  <1>2. /\ stamped' = {} /\ swept' = {} /\ moved' = {}
        /\ cancelled' = FALSE /\ rootErr' = FALSE /\ disk' = disk /\ offline' = offline
        /\ progress' = progress
    BY <1>1 DEF NewRun, world, reader
  <1>3. Resolves' \in SUBSET Resolves /\ \A id \in Resolves' : books'[id] = books[id]
    <2>1. CASE books' = books
      BY <2>1 DEF Resolves
    <2>2. CASE books' = [id \in {} |-> None]
      BY <2>2 DEF Resolves
    <2>3. QED
      BY <1>1, <2>1, <2>2
  <1>4. RunsAreWhole'
    <2>1. targeted' => Orphans' = {}
      BY <1>1, <1>2 DEF RunsAreWhole, Orphans, Resolves
    <2>2. QED
      BY <1>1, <1>2, <2>1 DEF RunsAreWhole
  <1>5. NothingReplaced'
    BY <1>2, <1>3 DEF NothingReplaced
  <1>6. LengthsKept' /\ PlaceIsOfTheFile'
    BY <1>2, <1>3 DEF LengthsKept, PlaceIsOfTheFile
  <1>7. StampedOnce' /\ CarriesAreTrue'
    BY <1>1, <1>2 DEF StampedOnce, StampedAt, IdsAt, CarriesAreTrue
  <1>8. QED
    BY <1>4, <1>5, <1>6, <1>7

\* What a walk writes over a row of the index is the same file, or was there before.
LEMMA PlaceWalk ==
  ASSUME Undisturbed, WalkInv, PlaceInv, WalkRoot \/ WalkCancelled PROVE PlaceInv'
  <1> USE DEF WalkInv, PlaceInv
  <1>1. WalkRoot
    BY DEF WalkCancelled, Undisturbed
  <1>2. UNCHANGED <<world, reader, request, cancelled, swept, moved>>
        /\ phase = "walk" /\ phase' = "sweep"
    BY <1>1 DEF WalkRoot
  <1>3. PICK r \in RootSet, found \in SUBSET Locations :
           Due(r) /\ found \subseteq Present(r) /\ rootErr' = FALSE /\ Index(found)
    <2>1. PICK r \in RootSet :
             /\ Due(r) /\ rootErr' = (r \in offline)
             /\ IF r \in offline THEN UNCHANGED <<books, stamped>>
                ELSE \E found \in SUBSET Present(r) :
                        /\ targeted \/ found = Present(r)
                        /\ Index(found)
      BY <1>1 DEF WalkRoot
    <2>2. r \notin offline
      BY DEF RunsAreWhole
    <2>3. PICK found \in SUBSET Present(r) : Index(found)
      BY <2>1, <2>2
    <2>4. found \in SUBSET Locations
      BY DEF Present
    <2>5. rootErr' = FALSE
      <3>1. (r \in offline) = FALSE
        BY <2>2
      <3>2. rootErr' = (r \in offline)
        BY <2>1
      <3>3. QED
        BY <3>1, <3>2, Zenon
    <2>6. QED
      BY <2>1, <2>3, <2>4, <2>5
  <1>4. r \in queue /\ \A l \in found : l[1] = r /\ disk[l] # None
    BY <1>3 DEF Due, Present
  <1>5. PICK ids :
           /\ DOMAIN books' = Resolves \cup ids /\ stamped' = stamped \cup ids
           /\ \A id \in Resolves \cup ids :
                 books'[id] = IF id \in ids THEN disk[At(id)] ELSE books[id]
           /\ \A id \in ids :
                 /\ id \in Ids /\ At(id) \in found /\ disk[At(id)] \in Files
                 /\ id[3] \in 0..Len(Volumes[disk[At(id)]])
                 /\ ~upgraded => id[3] = 0
           /\ \A l \in found : \E k \in ids : At(k) = l
           /\ \A l \in Locations : IdsAt(ids, l) = IF l \in found THEN Listed(l) ELSE {}
           /\ IsFiniteSet(ids)
    <2>1. \A l \in found : disk[l] # None
      BY <1>4
    <2>2. Index(found)
      BY <1>3
    <2>3. QED
      BY <2>1, <2>2, IndexWrites
  <1>6. \A id \in ids : id[1] = r
    BY <1>4, <1>5, LocationIs
  <1>7. None \notin Files
    BY HistoryAssumption DEF HistoryAssumption
  <1>8. RunsAreWhole'
    <2>1. Orphans' \subseteq Orphans
      BY <1>2, <1>5 DEF Orphans, Resolves, reader
    <2>2. QED
      BY <1>2, <1>3, <2>1 DEF RunsAreWhole, world, request
  <1>9. NothingReplaced'
    <2>1. disk' = disk /\ progress' = progress
      BY <1>2 DEF world, reader
    <2>2. \A id \in Resolves' : disk[At(id)] \in {books'[id], None}
      BY <1>5 DEF NothingReplaced, Resolves
    <2>3. \A k \in stamped' : disk[At(k)] = books'[k]
      BY <1>5 DEF NothingReplaced, TypeOK
    <2>4. QED
      BY <2>1, <2>2, <2>3 DEF NothingReplaced
  <1>10. LengthsKept'
    BY <1>2 DEF LengthsKept, reader
  <1>11. StampedOnce'
    <2>1. ASSUME NEW l \in Locations
          PROVE  \/ StampedAt(l)' \in {{}, {Volume(l, 0)}}
                 \/ StampedAt(l)' = VolumesAt(l, disk[l])
      <3>1. StampedAt(l)' = StampedAt(l) \cup IdsAt(ids, l)
        BY <1>5 DEF StampedAt, IdsAt
      <3>2. CASE l \notin found
        BY <1>5, <3>1, <3>2 DEF StampedOnce
      <3>3. CASE l \in found
        <4>1. StampedAt(l) = {}
          <5>1. ASSUME NEW k \in stamped, At(k) = l PROVE FALSE
            <6>1. k[1] = r
              BY <1>4, <3>3, <5>1, LocationIs DEF TypeOK
            <6>2. QED
              BY <1>2, <1>4, <6>1 DEF StampedOnce
          <5>2. QED
            BY <5>1 DEF StampedAt, IdsAt
        <4>2. StampedAt(l)' = Listed(l)
          BY <1>5, <3>1, <3>3, <4>1
        <4>3. disk[l] \in Files
          BY <1>4, <3>3 DEF TypeOK
        <4>4. Listed(l) = {Volume(l, 0)} \/ Listed(l) = VolumesAt(l, disk[l])
          BY <4>3, ListedIs DEF Volume, VolumesAt
        <4>5. QED
          BY <4>2, <4>4
      <3>4. QED
        BY <3>2, <3>3
    <2>2. \A id \in Resolves' : id[1] \in swept' => id \in stamped'
      BY <1>2, <1>5 DEF StampedOnce, Resolves
    <2>3. \A k \in stamped' : k[1] \notin queue' \/ Due(k[1])'
      <3>1. Due(r)'
        BY <1>2, <1>3 DEF Due, request
      <3>2. \A k \in stamped : k[1] \notin queue'
        BY <1>2 DEF StampedOnce, request
      <3>3. QED
        BY <1>5, <1>6, <3>1, <3>2
    <2>4. disk' = disk
      BY <1>2 DEF world
    <2>5. QED
      BY <1>2, <2>1, <2>2, <2>3, <2>4 DEF StampedOnce
  <1>12. CarriesAreTrue'
    <2>1. ASSUME NEW m \in moved
          PROVE  /\ m[1] \notin stamped' /\ m[1][1] \in swept'
                 /\ m[1] \in DOMAIN progress' => progress'[m[1]].of = books'[m[2]]
      <3>1. m[1][1] \in swept /\ m[1] \notin stamped /\ r \notin swept
        BY <1>2, <1>4 DEF CarriesAreTrue, RunsAreWhole
      <3>2. m[1] \notin ids
        BY <1>6, <3>1
      <3>3. m[2] \in stamped /\ m[2] \in Resolves
        BY DEF MovesAreSeen, TypeOK
      <3>4. books'[m[2]] = books[m[2]]
        BY <1>5, <3>3 DEF NothingReplaced
      <3>5. QED
        BY <1>2, <1>5, <3>1, <3>2, <3>4 DEF CarriesAreTrue, reader
    <2>2. QED
      BY <1>2, <2>1 DEF CarriesAreTrue
  <1>13. PlaceIsOfTheFile'
    <2>1. ASSUME NEW id \in Resolves' \cap DOMAIN progress PROVE progress[id].of = books'[id]
      <3>1. CASE id \in ids
        <4>1. books'[id] = disk[At(id)] /\ disk[At(id)] \in Files
          BY <1>5, <3>1
        <4>2. disk[At(id)] \in {progress[id].of, None}
          BY <2>1 DEF NothingReplaced
        <4>3. QED
          BY <1>7, <4>1, <4>2
      <3>2. CASE id \notin ids
        BY <1>5, <2>1, <3>2 DEF PlaceIsOfTheFile, Resolves
      <3>3. QED
        BY <3>1, <3>2
    <2>2. QED
      BY <1>2, <2>1 DEF PlaceIsOfTheFile, reader
  <1>14. QED
    BY <1>8, <1>9, <1>10, <1>11, <1>12, <1>13

\* A sweep leaves of a root what was stamped; a row that it orphans was of the file
\* that the index named until then.
LEMMA PlaceSweep == ASSUME WalkInv, PlaceInv, SweepRoot PROVE PlaceInv'
  <1> USE DEF WalkInv, PlaceInv
  <1>1. /\ UNCHANGED <<world, stamped, reader, full, targeted, cancelled, rootErr>>
        /\ phase = "sweep" /\ phase' = "walk"
    BY DEF SweepRoot
  <1>2. PICK r \in RootSet :
           /\ Due(r) /\ queue' = queue \ {r}
           /\ IF SweepAllowed
              THEN /\ moved' = moved \cup Relocations(r)
                   /\ books' = [id \in Resolves \ Gone(r) |-> books[id]]
                   /\ swept' = swept \cup {r}
              ELSE UNCHANGED <<moved, books, swept>>
    BY DEF SweepRoot
  <1>3. SweepAllowed <=> ~targeted
    BY DEF SweepAllowed, RunsAreWhole
  <1>4. r \in queue /\ \A s \in RootSet : Due(s) => s = r
    BY <1>2, OneIsDue DEF Due
  <1>5. /\ Resolves' \in SUBSET Resolves /\ \A id \in Resolves' : books'[id] = books[id]
        /\ \A id \in Resolves : id \in stamped => id \in Resolves'
        /\ stamped \subseteq Resolves
        /\ \A id \in Resolves' : ~targeted /\ id[1] = r => id \in stamped
    <2>1. stamped \subseteq Resolves
      BY DEF TypeOK
    <2>2. CASE targeted
      BY <1>2, <1>3, <2>1, <2>2 DEF Resolves
    <2>3. CASE ~targeted
      <3>1. Resolves' = Resolves \ Gone(r) /\ \A id \in Resolves' : books'[id] = books[id]
        BY <1>2, <1>3, <2>3 DEF Resolves
      <3>2. QED
        BY <2>1, <3>1 DEF Gone
    <2>4. QED
      BY <2>2, <2>3
  <1>6. RunsAreWhole'
    <2>1. CASE targeted
      <3>1. Orphans' = Orphans /\ moved' = moved
        BY <1>1, <1>2, <1>3, <2>1 DEF Orphans, Resolves, reader
      <3>2. QED
        BY <1>1, <2>1, <3>1 DEF RunsAreWhole, world
    <2>2. CASE ~targeted
      <3>1. swept' = RootSet \ queue'
        BY <1>1, <1>2, <1>3, <1>4, <2>2 DEF RunsAreWhole
      <3>2. QED
        BY <1>1, <2>2, <3>1 DEF RunsAreWhole, world
    <2>3. QED
      BY <2>1, <2>2
  <1>7. NothingReplaced'
    BY <1>1, <1>5 DEF NothingReplaced, world, reader
  <1>8. LengthsKept'
    BY <1>1 DEF LengthsKept, reader
  <1>9. StampedOnce'
    <2>1. \A id \in Resolves' : id[1] \in swept' => id \in stamped'
      <3>1. \A id \in Resolves' : id[1] \in swept' => id[1] \in swept \/ (~targeted /\ id[1] = r)
        BY <1>2, <1>3
      <3>2. QED
        BY <1>1, <1>5, <3>1 DEF StampedOnce
    <2>2. \A k \in stamped' : k[1] \notin queue'
      <3>1. ASSUME NEW k \in stamped PROVE k[1] \notin queue'
        <4>1. k[1] \in RootSet
          BY LocationIs DEF TypeOK
        <4>2. k[1] \notin queue \/ Due(k[1])
          BY <1>1, <3>1 DEF StampedOnce
        <4>3. QED
          BY <1>2, <1>4, <4>1, <4>2
      <3>2. QED
        BY <1>1, <3>1
    <2>3. StampedOnce
      OBVIOUS
    <2>4. \A l \in Locations : StampedAt(l)' = StampedAt(l)
      BY <1>1 DEF StampedAt, IdsAt
    <2>5. disk' = disk
      BY <1>1 DEF world
    <2>6. QED
      BY <1>1, <2>1, <2>2, <2>3, <2>4, <2>5 DEF StampedOnce
  <1>10. CarriesAreTrue'
    <2>1. ASSUME NEW m \in moved'
          PROVE  /\ m[1] \notin stamped' /\ m[1][1] \in swept'
                 /\ m[1] \in DOMAIN progress' => progress'[m[1]].of = books'[m[2]]
      <3>1. CASE m \in moved
        <4>1. m[2] \in Resolves' /\ books'[m[2]] = books[m[2]]
          BY <1>5, <3>1 DEF MovesAreSeen
        <4>2. swept \subseteq swept'
          BY <1>2
        <4>3. QED
          BY <1>1, <3>1, <4>1, <4>2 DEF CarriesAreTrue, reader
      <3>2. CASE m \notin moved
        <4>1. SweepAllowed /\ m \in Relocations(r)
          BY <1>2, <2>1, <3>2
        <4>2. m[1] \in Gone(r) /\ m[2] \in stamped /\ books[m[1]] = books[m[2]]
          BY <4>1 DEF Relocations
        <4>3. m[1] \in Resolves /\ m[1][1] = r /\ m[1] \notin stamped /\ r \in swept'
          BY <1>2, <4>1, <4>2 DEF Gone
        <4>4. books'[m[2]] = books[m[2]]
          BY <1>5, <4>2
        <4>5. m[1] \in DOMAIN progress => progress[m[1]].of = books[m[1]]
          BY <4>3 DEF PlaceIsOfTheFile
        <4>6. QED
          BY <1>1, <4>2, <4>3, <4>4, <4>5 DEF reader
      <3>3. QED
        BY <3>1, <3>2
    <2>2. QED
      BY <2>1 DEF CarriesAreTrue
  <1>11. PlaceIsOfTheFile'
    BY <1>1, <1>5 DEF PlaceIsOfTheFile, reader
  <1>12. QED
    BY <1>6, <1>7, <1>8, <1>9, <1>10, <1>11

\* The roots are done, or the run is cancelled.
LEMMA PlaceControl ==
  ASSUME Undisturbed, WalkInv, PlaceInv, RootsDone \/ Cancel PROVE PlaceInv'
  <1> USE DEF WalkInv, PlaceInv
  <1>1. /\ UNCHANGED <<world, books, stamped, reader, request, cancelled, rootErr, swept, moved>>
        /\ phase = "walk" /\ phase' = "carry" /\ queue = {}
    <2>1. CASE RootsDone
      BY <2>1 DEF RootsDone, RunsAreWhole
    <2>2. CASE Cancel
      BY <2>2 DEF Cancel, Undisturbed
    <2>3. QED
      BY <2>1, <2>2
  <1>2. RunsAreWhole'
    BY <1>1 DEF RunsAreWhole, Orphans, Resolves, world, reader, request
  <1>3. NothingReplaced' /\ LengthsKept' /\ CarriesAreTrue' /\ PlaceIsOfTheFile'
    BY <1>1 DEF NothingReplaced, LengthsKept, CarriesAreTrue, PlaceIsOfTheFile, Resolves,
                world, reader
  <1>4. StampedOnce'
    BY <1>1 DEF StampedOnce, StampedAt, IdsAt, Resolves, world
  <1>5. QED
    BY <1>2, <1>3, <1>4

\* What a carry or a repair writes is of the book that it is written to.
LEMMA OffersAreTrue ==
  ASSUME LengthsTell, WalkInv, PlaceInv,
         NEW moves, \/ phase = "carry" /\ moves = CarryMoves
                    \/ phase \in {"repair", "startup"} /\ moves = RepairMoves,
         NEW m \in moves, NEW id \in DOMAIN m.rows
  PROVE  /\ m.rows[id].of = books[id] /\ m.rows[id].count = PageCount(id)
  <1> USE DEF WalkInv, PlaceInv
  <1>1. CASE m \in CarryMoves
    <2>1. PICK n \in moved : /\ n[1] \in DOMAIN progress /\ DOMAIN m.rows = {n[2]}
                             /\ m.rows[n[2]].of = progress[n[1]].of
                             /\ m.rows[n[2]].count = progress[n[1]].count
                             /\ progress[n[1]].count = PageCount(n[2])
      BY <1>1, CarryWrites
    <2>2. QED
      BY <2>1 DEF CarriesAreTrue
  <1>2. CASE m \in RepairMoves /\ phase \in {"repair", "startup"}
    <2>1. PICK o \in Orphans : /\ Repairable(o) /\ id \in Resolves /\ At(id) \in Hits(o)
                               /\ m.rows[id].of = progress[o].of
                               /\ m.rows[id].count = PageCount(id)
      BY <1>2, RepairWrites
    <2>2. books[id] = progress[o].of
      BY <1>2, <2>1, RepairIsTrue
    <2>3. QED
      BY <2>1, <2>2
  <1>3. QED
    BY <1>1, <1>2

\* The hook's carry and repair, and the repair before the server serves.
LEMMA PlaceHook ==
  ASSUME LengthsTell, Undisturbed, WalkInv, PlaceInv, Carry \/ Repair \/ Startup
  PROVE  PlaceInv'
  <1> USE DEF WalkInv, PlaceInv
  <1>1. /\ UNCHANGED <<world, books, stamped, reads, opened, request, cancelled, rootErr,
                       swept, moved>>
        /\ \/ phase = "carry" /\ phase' = "repair"
           \/ phase = "repair" /\ phase' = "purge"
           \/ phase = "startup" /\ phase' = "idle"
        /\ \E moves : /\ RepairSplit(moves)
                      /\ \/ phase = "carry" /\ moves = CarryMoves
                         \/ phase \in {"repair", "startup"} /\ moves = RepairMoves
    <2>1. CASE Carry
      BY <2>1 DEF Carry, HookFails, Undisturbed, RunsAreWhole
    <2>2. CASE Repair
      BY <2>2 DEF Repair, HookFails, Undisturbed, RunsAreWhole
    <2>3. CASE Startup
      BY <2>3 DEF Startup, Undisturbed
    <2>4. QED
      BY <2>1, <2>2, <2>3
  <1>2. PICK moves : /\ RepairSplit(moves)
                     /\ \/ phase = "carry" /\ moves = CarryMoves
                        \/ phase \in {"repair", "startup"} /\ moves = RepairMoves
    BY <1>1
  <1>3. Offers(moves)
    BY <1>2, CarryOffers, RepairOffers
  <1>4. /\ DOMAIN progress' \subseteq DOMAIN progress \cup Resolves
        /\ \A id \in DOMAIN progress' :
              \/ id \in DOMAIN progress /\ progress'[id] = progress[id]
              \/ /\ id \in Resolves /\ progress'[id].of = books[id]
                 /\ progress'[id].count = PageCount(id)
    <2>1. \A m \in moves : \A id \in DOMAIN m.rows :
             m.rows[id].of = books[id] /\ m.rows[id].count = PageCount(id)
      BY <1>2, OffersAreTrue
    <2>2. \A m \in moves : DOMAIN m.rows \subseteq Resolves
      BY <1>3 DEF Offers
    <2>3. /\ DOMAIN progress' = (DOMAIN progress \cup UNION {DOMAIN m.rows : m \in moves})
                                   \ {m.old : m \in moves}
          /\ \A id \in DOMAIN progress' :
                \/ id \in DOMAIN progress /\ progress'[id] = progress[id]
                \/ \E m \in moves : id \in DOMAIN m.rows /\ progress'[id] = m.rows[id]
      BY <1>2, <1>3, SplitWrites
    <2>4. QED
      BY <2>1, <2>2, <2>3
  <1>5. RunsAreWhole'
    <2>1. Orphans' \subseteq Orphans
      BY <1>1, <1>4 DEF Orphans, Resolves
    <2>2. QED
      BY <1>1, <2>1 DEF RunsAreWhole, world, request
  <1>6. NothingReplaced'
    BY <1>1, <1>4 DEF NothingReplaced, Resolves, world
  <1>7. LengthsKept'
    <2>1. \A id \in Resolves : /\ id[3] \in 0..Len(Volumes[books[id]])
                               /\ PageCount(id) = Length(books[id], id[3])
      BY DEF VolumesExist, PageCount
    <2>2. QED
      BY <1>4, <2>1 DEF LengthsKept
  <1>8. StampedOnce'
    BY <1>1 DEF StampedOnce, StampedAt, IdsAt, Resolves, world
  <1>9. CarriesAreTrue'
    <2>1. \A m \in moved : m[1] \notin Resolves
      BY DEF CarriesAreTrue, StampedOnce
    <2>2. QED
      BY <1>1, <1>4, <2>1 DEF CarriesAreTrue
  <1>10. PlaceIsOfTheFile'
    BY <1>1, <1>4 DEF PlaceIsOfTheFile, Resolves
  <1>11. QED
    BY <1>5, <1>6, <1>7, <1>8, <1>9, <1>10

\* When nothing fails a run leaves no orphan.
LEMMA PlacePurge == ASSUME Undisturbed, WalkInv, PlaceInv, Purge PROVE PlaceInv'
  <1> USE DEF WalkInv, PlaceInv
  <1>1. /\ UNCHANGED <<world, books, request>> /\ phase = "purge" /\ phase' = "idle" /\ NewRun
        /\ progress' = [id \in DOMAIN progress \ Vanished |-> progress[id]]
    BY DEF Purge, HookFails, Undisturbed, RunsAreWhole
  <1>2. DOMAIN progress' = DOMAIN progress \ Vanished
        /\ \A id \in DOMAIN progress' : progress'[id] = progress[id]
    BY <1>1
  <1>3. Orphans' = {}
    <2>1. Orphans' = Orphans \ Vanished
      BY <1>1, <1>2 DEF Orphans, Resolves
    <2>2. CASE targeted
      BY <2>1, <2>2 DEF RunsAreWhole
    <2>3. CASE ~targeted
      <3>1. swept = RootSet
        BY <1>1, <2>3 DEF RunsAreWhole
      <3>2. \A id \in Orphans : progress[id].root \in RootSet
        BY DEF TypeOK, Orphans, Rows
      <3>3. QED
        BY <2>1, <3>1, <3>2 DEF Vanished
    <2>4. QED
      BY <2>2, <2>3
  <1>4. RunsAreWhole'
    BY <1>1, <1>3 DEF RunsAreWhole, NewRun, world
  <1>5. NothingReplaced' /\ LengthsKept' /\ PlaceIsOfTheFile'
    BY <1>1, <1>2 DEF NothingReplaced, LengthsKept, PlaceIsOfTheFile, Resolves, NewRun, world
  <1>6. StampedOnce' /\ CarriesAreTrue'
    BY <1>1 DEF StampedOnce, StampedAt, IdsAt, CarriesAreTrue, NewRun
  <1>7. QED
    BY <1>4, <1>5, <1>6

\* Nothing is indexed and nothing read.
LEMMA PlaceInit == Init => PlaceInv
  <1> SUFFICES ASSUME Init PROVE PlaceInv
    OBVIOUS
  <1>1. /\ disk = Start /\ offline = {} /\ phase = "idle" /\ stamped = {} /\ swept = {}
        /\ moved = {} /\ cancelled = FALSE /\ rootErr = FALSE
        /\ books = [id \in {<<l[1], l[2], 0>> : l \in {m \in Locations : Start[m] # None}}
                        |-> Start[At(id)]]
        /\ DOMAIN progress = {}
    BY DEF Init
  <1>2. \A id \in Resolves : books[id] = disk[At(id)]
    BY <1>1 DEF Resolves
  <1>3. RunsAreWhole /\ LengthsKept /\ CarriesAreTrue /\ PlaceIsOfTheFile
    BY <1>1 DEF RunsAreWhole, LengthsKept, CarriesAreTrue, PlaceIsOfTheFile, Orphans
  <1>4. NothingReplaced
    BY <1>1, <1>2 DEF NothingReplaced
  <1>5. StampedOnce
    BY <1>1 DEF StampedOnce, StampedAt, IdsAt
  <1>6. QED
    BY <1>3, <1>4, <1>5 DEF PlaceInv

\* Every step keeps the places true.
LEMMA PlaceNext ==
  ASSUME LengthsTell, Undisturbed
  PROVE  WalkInv /\ PlaceInv /\ [Next]_vars => PlaceInv'
  <1> SUFFICES ASSUME WalkInv, PlaceInv, [Next]_vars PROVE PlaceInv'
    OBVIOUS
  <1>1. CASE UNCHANGED vars
    BY <1>1 DEF vars, world, reader, scan, request, PlaceInv, RunsAreWhole, NothingReplaced,
                LengthsKept, StampedOnce, StampedAt, IdsAt, CarriesAreTrue, PlaceIsOfTheFile,
                Orphans, Resolves, Due
  <1>2. QED
    BY <1>1, PlaceWorld, PlaceRead, PlaceBegin, PlaceWalk, PlaceSweep, PlaceControl,
       PlaceHook, PlacePurge DEF Next

\* If no two files are of the same length and no scan is cut short, skips a root or
\* fails, a row of reading history that resolves to a book is of that very file: through
\* any renames, deletions, targeted and full scans, rebuilds of the index and the upgrade
\* that splits files into volumes, no carry and no path rule of a repair attaches the
\* place of one file to another.
THEOREM PlacesAreOfTheirFile ==
  ASSUME LengthsTell, Undisturbed
  PROVE  Spec => []PlaceIsOfTheFile
  <1>1. WalkInv /\ PlaceInv /\ [Next]_vars => PlaceInv'
    BY PlaceNext
  <1>2. PlaceInv => PlaceIsOfTheFile
    BY DEF PlaceInv
  <1>3. QED
    BY <1>1, <1>2, PlaceInit, HistoryInvariant, PTL DEF Spec

-----------------------------------------------------------------------------
(***************************************************************************)
(* Where a place goes when its file moves.  The hypotheses: no file is     *)
(* there twice, a file moves within its root or to one that is walked      *)
(* before it, and nothing else happens but the upgrade.                    *)
(***************************************************************************)
NoTwins == \A l1, l2 \in Locations : Start[l1] = Start[l2] /\ Start[l1] # None => l1 = l2

MovesGoBack == \A m \in Moves : Position(m[2][1]) <= Position(m[1][1])

Untroubled == Events \subseteq {"upgrade"}

(* Every root is readable and asked for.                                   *)
AllInSight == unreadable = {} /\ ~targeted

(* The page is inside what the row was written against.                    *)
PagesKept == \A id \in DOMAIN progress : progress[id].page \in 1..progress[id].count

(* A file is at one place, and the index names it once, or twice while a   *)
(* walk has seen the one and a sweep is to delete the other.               *)
NamedOnce ==
    /\ \A l1, l2 \in Locations : disk[l1] = disk[l2] /\ disk[l1] # None => l1 = l2
    /\ \A i, j \in Resolves : books[i] = books[j] /\ (i \in stamped <=> j \in stamped) => i = j

(* A file that has moved is found before its old root is swept.            *)
FoundInTime ==
    \A id \in Resolves : \A l \in Locations :
        disk[l] = books[id] => Position(l[1]) <= Position(id[1])

(* A file that was read has its row, or a carry of it is to come, or it is *)
(* in the index no more and nowhere on disk.                               *)
Followed(f) ==
    \/ \E id \in Resolves \cap DOMAIN progress : books[id] = f
    \/ /\ phase \in {"walk", "sweep", "carry"}
       /\ \E m \in moved : m[1] \in DOMAIN progress /\ books[m[2]] = f
    \/ /\ \A id \in Resolves : books[id] # f
       /\ \A l \in Locations : disk[l] # f

FollowInv ==
    /\ AllInSight /\ PagesKept
    /\ ~upgraded => NamedOnce /\ FoundInTime /\ \A f \in opened : Followed(f)

\* What the two unguarded parts of the invariant need of each step.
LEMMA FollowSights ==
  ASSUME Untroubled, WalkInv, PlaceInv, FollowInv, [Next]_vars
  PROVE  AllInSight'
  <1> USE DEF FollowInv, AllInSight
  <1>1. CASE Deny \/ Unplug \/ Crash \/ Rebuild \/ Cancel \/ WalkCancelled
    BY <1>1 DEF Untroubled, Deny, Unplug, Crash, Rebuild, Cancel, WalkCancelled
  <1>2. CASE Begin
    BY <1>2 DEF Begin, Untroubled, world
  <1>3. QED
    BY <1>1, <1>2
       DEF Next, vars, world, reader, scan, request, Move, Delete, Upgrade, Read, WalkRoot,
           RootsDone, SweepRoot, Carry, Repair, Purge, Startup

\* The page of a row stays within what the row was written against.
LEMMA FollowPages ==
  ASSUME WalkInv, PlaceInv, FollowInv, [Next]_vars
  PROVE  PagesKept'
  <1> USE DEF WalkInv, PlaceInv, FollowInv
  <1>1. CASE Read
    <2>1. PICK id \in Resolves : \E page \in Clamped(id), done, staleSeen \in BOOLEAN :
             progress' = [i \in DOMAIN progress \cup {id} |->
                 IF i = id
                 THEN [root |-> id[1], path |-> id[2], page |-> page,
                       count |-> IF id \in DOMAIN progress /\ ~staleSeen
                                 THEN progress[id].count ELSE PageCount(id),
                       done |-> done, at |-> reads + 1, of |-> books[id]]
                 ELSE progress[i]]
      BY <1>1 DEF Read
    <2>2. id \in DOMAIN progress => progress[id].count = PageCount(id)
      BY DEF PlaceIsOfTheFile, LengthsKept, PageCount
    <2>3. /\ progress'[id].page \in 1..PageCount(id) /\ progress'[id].count = PageCount(id)
          /\ DOMAIN progress' = DOMAIN progress \cup {id}
          /\ \A i \in DOMAIN progress : i # id => progress'[i] = progress[i]
      BY <2>1, <2>2 DEF Clamped
    <2>4. QED
      BY <2>3 DEF PagesKept
  <1>2. CASE Carry \/ Repair \/ Startup
    <2>1. PICK moves : \/ UNCHANGED progress
                       \/ RepairSplit(moves) /\ moves \in {CarryMoves, RepairMoves}
      BY <1>2 DEF Carry, Repair, Startup
    <2>2. CASE UNCHANGED progress
      BY <2>2 DEF PagesKept
    <2>3. CASE RepairSplit(moves) /\ moves \in {CarryMoves, RepairMoves}
      <3>1. Offers(moves)
        BY <2>3, CarryOffers, RepairOffers
      <3>2. \A m \in CarryMoves : \A id \in DOMAIN m.rows : m.rows[id].page \in 1..m.rows[id].count
        <4>1. ASSUME NEW m \in CarryMoves, NEW id \in DOMAIN m.rows
              PROVE  m.rows[id].page \in 1..m.rows[id].count
          BY CarryWrites
        <4>2. QED
          BY <4>1
      <3>3. \A m \in RepairMoves : \A id \in DOMAIN m.rows : m.rows[id].page \in 1..m.rows[id].count
        <4>1. ASSUME NEW m \in RepairMoves, NEW id \in DOMAIN m.rows
              PROVE  m.rows[id].page \in 1..m.rows[id].count
          BY RepairWrites
        <4>2. QED
          BY <4>1
      <3>4. \A id \in DOMAIN progress' :
               \/ id \in DOMAIN progress /\ progress'[id] = progress[id]
               \/ \E m \in moves : id \in DOMAIN m.rows /\ progress'[id] = m.rows[id]
        BY <2>3, <3>1, SplitWrites
      <3>5. QED
        BY <2>3, <3>2, <3>3, <3>4 DEF PagesKept
    <2>4. QED
      BY <2>1, <2>2, <2>3
  <1>3. CASE Purge
    <2>1. DOMAIN progress' \subseteq DOMAIN progress
          /\ \A id \in DOMAIN progress' : progress'[id] = progress[id]
      BY <1>3 DEF Purge
    <2>2. QED
      BY <2>1 DEF PagesKept
  <1>4. CASE progress' = progress
    BY <1>4 DEF PagesKept
  <1>5. QED
    BY <1>1, <1>2, <1>3, <1>4
       DEF Next, vars, reader, Move, Delete, Unplug, Deny, Upgrade, Begin, WalkRoot,
           WalkCancelled, RootsDone, SweepRoot, Cancel, Crash, Rebuild

(* The part that holds until the upgrade.                                  *)
Traced == NamedOnce /\ FoundInTime /\ \A f \in opened : Followed(f)

\* Before the upgrade every book is a whole file.
LEMMA IdIsPlace ==
  ASSUME WalkInv, ~upgraded, NEW i \in Resolves, NEW j \in Resolves, At(i) = At(j)
  PROVE  i = j
  <1>1. i \in Ids /\ j \in Ids /\ i[3] = 0 /\ j[3] = 0
    BY DEF WalkInv, TypeOK, Whole
  <1>2. QED
    BY <1>1, LocationIs DEF At

\* The file moves to a root that is walked no later, and the index still names the
\* place it has left.
LEMMA FollowMove ==
  ASSUME MovesGoBack, WalkInv, PlaceInv, Traced, Move \/ Delete PROVE Traced'
  <1> USE DEF WalkInv, PlaceInv, Traced
  <1>1. UNCHANGED <<books, stamped, progress, opened, phase, moved>>
    BY DEF Move, Delete, reader, scan
  <1>2. disk \in [Locations -> Files \cup {None}] /\ None \notin Files
        /\ \A id \in Resolves : books[id] \in Files
    BY HistoryAssumption DEF HistoryAssumption, TypeOK
  <1>3. PICK a \in Locations, b \in Locations :
           /\ \A l \in Locations : disk'[l] = IF l = a THEN None
                                              ELSE IF l = b THEN disk[a] ELSE disk[l]
           /\ a # b => Position(b[1]) <= Position(a[1]) /\ disk[b] = None
    <2>1. CASE Move
      <3>1. PICK m \in Moves :
               /\ disk[m[1]] # None /\ disk[m[2]] = None
               /\ disk' = [disk EXCEPT ![m[2]] = disk[m[1]], ![m[1]] = None]
        BY <2>1 DEF Move
      <3>2. m[1] \in Locations /\ m[2] \in Locations
        BY HistoryAssumption DEF HistoryAssumption
      <3>3. Position(m[2][1]) <= Position(m[1][1])
        BY DEF MovesGoBack
      <3>4. QED
        BY <1>2, <3>1, <3>2, <3>3
    <2>2. CASE Delete
      <3>1. PICK l \in Locations : disk' = [disk EXCEPT ![l] = None]
        BY <2>2 DEF Delete
      <3>2. QED
        BY <1>2, <3>1
    <2>3. QED
      BY <2>1, <2>2
  <1>4. NamedOnce'
    <2>1. \A l1, l2 \in Locations : disk'[l1] = disk'[l2] /\ disk'[l1] # None => l1 = l2
      BY <1>3 DEF NamedOnce
    <2>2. QED
      BY <1>1, <2>1 DEF NamedOnce, Resolves
  <1>5. FoundInTime'
    <2>1. ASSUME NEW id \in Resolves, NEW l \in Locations, disk'[l] = books[id]
          PROVE  Position(l[1]) <= Position(id[1])
      <3>1. books[id] # None
        BY <1>2
      <3>2. l # a
        BY <1>3, <2>1, <3>1
      <3>3. CASE l # b
        BY <1>3, <2>1, <3>2, <3>3 DEF FoundInTime
      <3>4. CASE l = b
        <4>1. disk[a] = books[id] /\ Position(b[1]) <= Position(a[1])
          BY <1>3, <2>1, <3>2, <3>4
        <4>2. Position(a[1]) <= Position(id[1])
          BY <4>1 DEF FoundInTime
        <4>3. \A r \in RootSet : Position(r) \in Int
          BY PositionType
        <4>4. a[1] \in RootSet /\ b[1] \in RootSet /\ id[1] \in RootSet
          BY LocationIs DEF Locations, TypeOK
        <4>5. QED
          BY <3>4, <4>1, <4>2, <4>3, <4>4
      <3>5. QED
        BY <3>3, <3>4
    <2>2. QED
      BY <1>1, <2>1 DEF FoundInTime, Resolves
  <1>6. ASSUME NEW f \in opened PROVE Followed(f)'
    <2>1. CASE (\A id \in Resolves : books[id] # f) /\ \A l \in Locations : disk[l] # f
      <3>1. f # None
        BY <1>2 DEF TypeOK
      <3>2. \A l \in Locations : disk'[l] # f
        BY <1>3, <2>1, <3>1
      <3>3. QED
        BY <1>1, <2>1, <3>2 DEF Followed, Resolves
    <2>2. CASE (\E id \in Resolves \cap DOMAIN progress : books[id] = f)
               \/ (/\ phase \in {"walk", "sweep", "carry"}
                   /\ \E m \in moved : m[1] \in DOMAIN progress /\ books[m[2]] = f)
      BY <1>1, <2>2 DEF Followed, Resolves
    <2>3. QED
      BY <2>1, <2>2 DEF Followed
  <1>7. QED
    BY <1>1, <1>4, <1>5, <1>6

\* A reader turns a page.
LEMMA FollowRead == ASSUME WalkInv, PlaceInv, Traced, Read PROVE Traced'
  <1> USE DEF WalkInv, PlaceInv, Traced
  <1>1. UNCHANGED <<disk, books, stamped, phase, moved>>
    BY DEF Read, world, scan
  <1>2. PICK id \in Resolves : DOMAIN progress' = DOMAIN progress \cup {id}
                               /\ opened' = opened \cup {books[id]}
    BY DEF Read
  <1>3. NamedOnce' /\ FoundInTime'
    BY <1>1 DEF NamedOnce, FoundInTime, Resolves
  <1>4. ASSUME NEW f \in opened' PROVE Followed(f)'
    <2>1. CASE f = books[id]
      BY <1>1, <1>2, <2>1 DEF Followed, Resolves
    <2>2. CASE f \in opened
      BY <1>1, <1>2, <2>2 DEF Followed, Resolves
    <2>3. QED
      BY <1>2, <2>1, <2>2
  <1>5. QED
    BY <1>3, <1>4

\* A run begins.
LEMMA FollowBegin == ASSUME WalkInv, PlaceInv, Traced, Begin PROVE Traced'
  <1> USE DEF WalkInv, PlaceInv, Traced
  <1>1. /\ UNCHANGED <<disk, books, progress, opened>> /\ phase = "idle" /\ stamped' = {}
        /\ moved' = {} /\ stamped = {} /\ moved = {}
    BY DEF Begin, NewRun, world, reader, AtRest
  <1>2. NamedOnce' /\ FoundInTime'
    BY <1>1 DEF NamedOnce, FoundInTime, Resolves
  <1>3. \A f \in opened : Followed(f)'
    BY <1>1 DEF Followed, Resolves
  <1>4. QED
    BY <1>1, <1>2, <1>3

\* A walk names what has moved for a second time, at the place where it is.
LEMMA FollowWalk ==
  ASSUME Untroubled, WalkInv, PlaceInv, Traced, ~upgraded, WalkRoot \/ WalkCancelled
  PROVE  Traced'
  <1> USE DEF WalkInv, PlaceInv, Traced
  <1>1. WalkRoot
    BY DEF WalkCancelled, Untroubled
  <1>2. UNCHANGED <<world, reader, moved>> /\ phase = "walk" /\ phase' = "sweep"
    BY <1>1 DEF WalkRoot
  <1>3. PICK ids :
           /\ DOMAIN books' = Resolves \cup ids /\ stamped' = stamped \cup ids
           /\ \A id \in Resolves \cup ids :
                 books'[id] = IF id \in ids THEN disk[At(id)] ELSE books[id]
           /\ \A id \in ids : id \in Ids /\ At(id) \in Locations /\ disk[At(id)] \in Files
    <2>1. PICK r \in RootSet :
             /\ Due(r)
             /\ IF r \in offline THEN UNCHANGED <<books, stamped>>
                ELSE \E found \in SUBSET Present(r) :
                        /\ targeted \/ found = Present(r)
                        /\ Index(found)
      BY <1>1 DEF WalkRoot
    <2>2. r \notin offline
      BY DEF RunsAreWhole
    <2>3. PICK found \in SUBSET Present(r) : Index(found)
      BY <2>1, <2>2
    <2>4. found \in SUBSET Locations /\ \A l \in found : disk[l] # None
      BY DEF Present
    <2>5. PICK ids :
             /\ DOMAIN books' = Resolves \cup ids /\ stamped' = stamped \cup ids
             /\ \A id \in Resolves \cup ids :
                   books'[id] = IF id \in ids THEN disk[At(id)] ELSE books[id]
             /\ \A id \in ids :
                   /\ id \in Ids /\ At(id) \in found /\ disk[At(id)] \in Files
                   /\ id[3] \in 0..Len(Volumes[disk[At(id)]])
                   /\ ~upgraded => id[3] = 0
             /\ \A l \in found : \E k \in ids : At(k) = l
             /\ \A l \in Locations : IdsAt(ids, l) = IF l \in found THEN Listed(l) ELSE {}
             /\ IsFiniteSet(ids)
      BY <2>3, <2>4, IndexWrites
    <2>6. QED
      BY <2>4, <2>5
  <1>4. None \notin Files /\ stamped \subseteq Resolves
        /\ \A id \in Resolves : books[id] \in Files /\ At(id) \in Locations
    BY HistoryAssumption, LocationIs DEF HistoryAssumption, TypeOK
  <1>5. disk' = disk /\ progress' = progress /\ opened' = opened /\ upgraded' = upgraded
    BY <1>2 DEF world, reader
  <1>6. \A k \in stamped' : k \in Resolves' /\ At(k) \in Locations /\ books'[k] = disk[At(k)]
    BY <1>3, <1>4 DEF NothingReplaced, Resolves
  <1>7. \A k \in Resolves' \ stamped' : k \in Resolves \ stamped /\ books'[k] = books[k]
    BY <1>3 DEF Resolves
  <1>8. WalkInv'
    BY WalkNext DEF Next
  <1>9. NamedOnce'
    <2>1. ASSUME NEW i \in Resolves', NEW j \in Resolves', books'[i] = books'[j],
                 i \in stamped' <=> j \in stamped'
          PROVE  i = j
      <3>1. CASE i \in stamped'
        <4>1. disk[At(i)] = disk[At(j)] /\ disk[At(i)] # None
          <5>1. books'[i] \in Files
            BY <1>8 DEF TypeOK
          <5>2. QED
            BY <1>4, <1>6, <2>1, <3>1, <5>1
        <4>2. At(i) = At(j) /\ At(i) \in Locations
          BY <1>6, <2>1, <3>1, <4>1 DEF NamedOnce
        <4>3. i \in Ids /\ j \in Ids /\ i[3] = 0 /\ j[3] = 0
          BY <1>5, <1>8 DEF TypeOK, Whole
        <4>4. QED
          BY <4>2, <4>3, LocationIs DEF At
      <3>2. CASE i \notin stamped'
        BY <1>7, <2>1, <3>2 DEF NamedOnce
      <3>3. QED
        BY <3>1, <3>2
    <2>2. QED
      BY <1>5, <2>1 DEF NamedOnce
  <1>10. FoundInTime'
    <2>1. ASSUME NEW id \in Resolves', NEW l \in Locations, disk[l] = books'[id]
          PROVE  Position(l[1]) <= Position(id[1])
      <3>1. CASE id \in stamped'
        <4>1. books'[id] \in Files
          BY <1>8 DEF TypeOK
        <4>2. l = At(id)
          BY <1>4, <1>6, <2>1, <3>1, <4>1 DEF NamedOnce
        <4>3. l[1] = id[1] /\ id[1] \in RootSet
          BY <1>8, <4>2, LocationIs DEF TypeOK
        <4>4. QED
          BY <4>3, PositionType
      <3>2. CASE id \notin stamped'
        BY <1>7, <2>1, <3>2 DEF FoundInTime
      <3>3. QED
        BY <3>1, <3>2
    <2>2. QED
      BY <1>5, <2>1 DEF FoundInTime
  <1>11. ASSUME NEW f \in opened PROVE Followed(f)'
    <2>1. \A id \in Resolves : id \in Resolves' /\ books'[id] = books[id]
      BY <1>3, <1>4 DEF NothingReplaced, Resolves
    <2>2. CASE \E id \in Resolves \cap DOMAIN progress : books[id] = f
      BY <1>5, <2>1, <2>2 DEF Followed
    <2>3. CASE \E m \in moved : m[1] \in DOMAIN progress /\ books[m[2]] = f
      BY <1>2, <1>4, <1>5, <2>1, <2>3 DEF Followed, MovesAreSeen
    <2>4. CASE (\A id \in Resolves : books[id] # f) /\ \A l \in Locations : disk[l] # f
      <3>1. \A id \in Resolves' : books'[id] # f
        BY <1>3, <2>1, <2>4 DEF Resolves
      <3>2. QED
        BY <1>5, <2>4, <3>1 DEF Followed
    <2>5. QED
      BY <2>2, <2>3, <2>4 DEF Followed
  <1>12. QED
    BY <1>5, <1>9, <1>10, <1>11

\* When a sweep deletes the row of the place a file has left, the place where it is
\* has been stamped, and nothing else is of its content: the move is observed.
LEMMA FollowSweep ==
  ASSUME WalkInv, PlaceInv, AllInSight, Traced, ~upgraded, SweepRoot PROVE Traced'
  <1> USE DEF WalkInv, PlaceInv, Traced, AllInSight
  <1>1. /\ UNCHANGED <<world, stamped, reader>> /\ phase = "sweep" /\ phase' = "walk"
    BY DEF SweepRoot
  <1>2. SweepAllowed
    BY DEF SweepAllowed, RunsAreWhole
  <1>3. PICK r \in RootSet :
           /\ Due(r)
           /\ moved' = moved \cup Relocations(r)
           /\ books' = [id \in Resolves \ Gone(r) |-> books[id]]
    BY <1>2 DEF SweepRoot
  <1>4. /\ Resolves' = Resolves \ Gone(r) /\ \A id \in Resolves' : books'[id] = books[id]
        /\ stamped \subseteq Resolves'
        /\ disk' = disk /\ progress' = progress /\ opened' = opened
    BY <1>1, <1>3 DEF Resolves, Gone, TypeOK, world, reader
  <1>5. NamedOnce' /\ FoundInTime'
    BY <1>1, <1>4 DEF NamedOnce, FoundInTime
  <1>6. ASSUME NEW f \in opened PROVE Followed(f)'
    <2>1. CASE \E id \in Resolves \cap DOMAIN progress : books[id] = f
      <3>1. PICK id \in Resolves \cap DOMAIN progress : books[id] = f
        BY <2>1
      <3>2. CASE id \notin Gone(r)
        BY <1>4, <3>1, <3>2 DEF Followed
      <3>3. CASE id \in Gone(r)
        <4>1. id[1] = r /\ id \notin stamped /\ books[id] \in Files
          BY <3>3 DEF Gone, TypeOK
        <4>2. CASE \E l \in Locations : disk[l] = f
          <5>1. PICK l \in Locations : disk[l] = f
            BY <4>2
          <5>2. Position(l[1]) <= Position(r) /\ l[1] \in RootSet
            BY <3>1, <4>1, <5>1 DEF FoundInTime, Locations
          <5>3. Walked(l[1])
            <6>1. CASE l[1] \in swept
              BY <6>1 DEF SweptAreWalked
            <6>2. CASE l[1] \in queue
              <7>1. Position(l[1]) \in Int /\ Position(r) \in Int
                BY <5>2, PositionType
              <7>2. \A s \in queue : Position(r) <= Position(s) /\ Position(s) \in Int
                BY <1>3, PositionType DEF Due, TypeOK
              <7>3. Due(l[1])
                BY <5>2, <6>2, <7>1, <7>2 DEF Due
              <7>4. QED
                BY <1>1, <1>2, <5>2, <7>3 DEF SweptAreWalked
            <6>3. l[1] \in swept \/ l[1] \in queue
              BY <1>1, <5>2 DEF RunsAreWhole
            <6>4. QED
              BY <6>1, <6>2, <6>3
          <5>4. PICK k \in stamped : At(k) = l
            <6>1. ~Hidden(l)
              BY <3>1, <4>1, <5>1, HistoryAssumption DEF Hidden, HistoryAssumption
            <6>2. QED
              BY <5>3, <6>1 DEF Walked
          <5>5. books[k] = f /\ k \in Resolves
            BY <5>1, <5>4 DEF NothingReplaced, TypeOK
          <5>6. <<id, k>> \in Relocations(r)
            <6>1. \A g \in Gone(r) : books[g] = f => g = id
              BY <3>1, <4>1 DEF NamedOnce, Gone
            <6>2. \A j \in stamped : books[j] = f => j = k
              BY <5>4, <5>5 DEF NamedOnce, TypeOK
            <6>3. QED
              BY <3>1, <3>3, <5>4, <5>5, <6>1, <6>2 DEF Relocations
          <5>7. books'[k] = f
            BY <1>4, <5>4, <5>5
          <5>8. PICK m \in moved' : m = <<id, k>>
            BY <1>3, <5>6
          <5>9. m[1] \in DOMAIN progress' /\ books'[m[2]] = f
            BY <1>4, <3>1, <5>7, <5>8
          <5>10. QED
            BY <1>1, <5>9 DEF Followed
        <4>3. CASE \A l \in Locations : disk[l] # f
          <5>1. ASSUME NEW j \in Resolves', books'[j] = f PROVE FALSE
            <6>1. j \in Resolves /\ books[j] = f /\ j \notin Gone(r)
              BY <1>4, <5>1
            <6>2. j \in stamped
              BY <3>1, <3>3, <4>1, <6>1 DEF NamedOnce
            <6>3. At(j) \in Locations /\ disk[At(j)] = f
              BY <6>1, <6>2, LocationIs DEF NothingReplaced, TypeOK
            <6>4. QED
              BY <4>3, <6>3
          <5>2. QED
            BY <1>4, <4>3, <5>1 DEF Followed
        <4>4. QED
          BY <4>2, <4>3
      <3>4. QED
        BY <3>2, <3>3
    <2>2. CASE \E m \in moved : m[1] \in DOMAIN progress /\ books[m[2]] = f
      <3>1. PICK m \in moved : m[1] \in DOMAIN progress /\ books[m[2]] = f
        BY <2>2
      <3>2. m \in moved' /\ books'[m[2]] = f
        BY <1>3, <1>4, <3>1 DEF MovesAreSeen
      <3>3. QED
        BY <1>1, <1>4, <3>1, <3>2 DEF Followed
    <2>3. CASE (\A id \in Resolves : books[id] # f) /\ \A l \in Locations : disk[l] # f
      BY <1>4, <2>3 DEF Followed
    <2>4. QED
      BY <2>1, <2>2, <2>3 DEF Followed
  <1>7. QED
    BY <1>4, <1>5, <1>6

\* Rows of books of the index stay, whatever the hook carries and repairs.
LEMMA HookKeepsRows ==
  ASSUME WalkInv, PlaceInv,
         NEW moves, moves \in {CarryMoves, RepairMoves}, RepairSplit(moves)
  PROVE  \A id \in Resolves :
            id \in DOMAIN progress \/ (\E m \in moves : id \in DOMAIN m.rows)
                => id \in DOMAIN progress'
  <1> USE DEF WalkInv, PlaceInv
  <1>1. Offers(moves)
    BY CarryOffers, RepairOffers
  <1>2. DOMAIN progress' = (DOMAIN progress \cup UNION {DOMAIN m.rows : m \in moves})
                               \ {m.old : m \in moves}
    BY <1>1, SplitWrites
  <1>3. ASSUME NEW m \in moves PROVE m.old \notin Resolves
    <2>1. CASE m \in CarryMoves
      <3>1. PICK n \in moved : m.old = n[1]
        BY <2>1, CarryWrites
      <3>2. QED
        BY <3>1 DEF CarriesAreTrue, StampedOnce
    <2>2. CASE m \in RepairMoves
      <3>1. PICK o \in Orphans : m.old = o
        BY <2>2, RepairWrites
      <3>2. QED
        BY <3>1 DEF Orphans
    <2>3. QED
      BY <2>1, <2>2
  <1>4. QED
    BY <1>2, <1>3

\* A carry takes every row that it was to take: its length and its page are those of
\* the book that it leads to.
LEMMA CarryIsTaken ==
  ASSUME WalkInv, PlaceInv, PagesKept, ~upgraded,
         NEW m \in moved, m[1] \in DOMAIN progress
  PROVE  \E c \in CarryMoves : m[2] \in DOMAIN c.rows
  <1> USE DEF WalkInv, PlaceInv
  <1>1. progress[m[1]].of = books[m[2]]
    BY DEF CarriesAreTrue
  <1>2. m[2] \in Resolves /\ m[1][3] = 0 /\ m[2][3] = 0
    BY DEF MovesAreSeen, TypeOK, Whole
  <1>3. progress[m[1]].count = PageCount(m[2])
    BY <1>1, <1>2 DEF LengthsKept, PageCount
  <1>4. progress[m[1]].page \in 1..PageCount(m[2])
    BY <1>3 DEF PagesKept
  <1>5. CarryMove(m) \in CarryMoves
    BY <1>3, <1>4 DEF CarryMoves
  <1>6. DOMAIN CarryMove(m).rows = {m[2]}
    BY DEF CarryMove
  <1>7. QED
    BY <1>5, <1>6

\* The end of the roots, the hook's steps and the repair before the server serves.
LEMMA FollowHook ==
  ASSUME Untroubled, WalkInv, PlaceInv, FollowInv, ~upgraded,
         RootsDone \/ Carry \/ Repair \/ Startup \/ Purge
  PROVE  Traced'
  <1> USE DEF WalkInv, PlaceInv, FollowInv, Traced
  <1>1. /\ UNCHANGED <<disk, books, opened>> /\ NamedOnce /\ FoundInTime
        /\ \/ UNCHANGED stamped
           \/ Purge /\ stamped' = {}
    BY DEF RootsDone, Carry, Repair, Startup, Purge, NewRun, world, reader
  <1>2. NamedOnce' /\ FoundInTime'
    <2>1. CASE UNCHANGED stamped
      BY <1>1, <2>1 DEF NamedOnce, FoundInTime, Resolves
    <2>2. CASE Purge /\ stamped' = {}
      <3>1. \A id \in Resolves : id \in stamped
        <4>1. swept = RootSet
          BY <2>2 DEF Purge, RunsAreWhole, AllInSight
        <4>2. \A id \in Resolves : id[1] \in RootSet
          BY LocationIs DEF TypeOK
        <4>3. QED
          BY <4>1, <4>2 DEF StampedOnce
      <3>2. QED
        BY <1>1, <2>2, <3>1 DEF NamedOnce, FoundInTime, Resolves
    <2>3. QED
      BY <1>1, <2>1, <2>2
  <1>3. ASSUME NEW f \in opened PROVE Followed(f)'
    <2>1. CASE RootsDone
      BY <1>1, <2>1 DEF RootsDone, reader, Followed, Resolves
    <2>2. CASE Carry \/ Repair \/ Startup
      <3>1. PICK moves : /\ RepairSplit(moves)
                         /\ \/ Carry /\ moves = CarryMoves
                            \/ moves = RepairMoves /\ (Repair \/ Startup)
        BY <2>2 DEF Carry, Repair, Startup, HookFails, Untroubled, RunsAreWhole
      <3>2. \A id \in Resolves :
               id \in DOMAIN progress \/ (\E m \in moves : id \in DOMAIN m.rows)
                   => id \in DOMAIN progress'
        BY <3>1, HookKeepsRows
      <3>3. CASE \E id \in Resolves \cap DOMAIN progress : books[id] = f
        BY <1>1, <3>2, <3>3 DEF Followed, Resolves
      <3>4. CASE /\ phase \in {"walk", "sweep", "carry"}
                 /\ \E m \in moved : m[1] \in DOMAIN progress /\ books[m[2]] = f
        <4>1. PICK m \in moved : m[1] \in DOMAIN progress /\ books[m[2]] = f
          BY <3>4
        <4>2. moves = CarryMoves
          BY <3>1, <3>4 DEF Repair, Startup
        <4>3. m[2] \in Resolves
          BY DEF MovesAreSeen, TypeOK
        <4>4. m[2] \in DOMAIN progress'
          BY <3>2, <4>1, <4>2, <4>3, CarryIsTaken
        <4>5. QED
          BY <1>1, <4>1, <4>3, <4>4 DEF Followed, Resolves
      <3>5. CASE (\A id \in Resolves : books[id] # f) /\ \A l \in Locations : disk[l] # f
        BY <1>1, <3>5 DEF Followed, Resolves
      <3>6. QED
        BY <3>3, <3>4, <3>5 DEF Followed
    <2>3. CASE Purge
      <3>1. phase = "purge" /\ \A id \in Resolves : id \in DOMAIN progress => id \in DOMAIN progress'
        BY <2>3 DEF Purge, Vanished, Orphans
      <3>2. QED
        BY <1>1, <3>1 DEF Followed, Resolves
    <2>4. QED
      BY <2>1, <2>2, <2>3
  <1>4. QED
    BY <1>1, <1>2, <1>3

\* Nothing is indexed and nothing read.
LEMMA FollowInit ==
  ASSUME NoTwins, Init PROVE FollowInv
  <1>1. /\ disk = Start /\ unreadable = {} /\ targeted = FALSE /\ stamped = {} /\ opened = {}
        /\ books = [id \in {<<l[1], l[2], 0>> : l \in {m \in Locations : Start[m] # None}}
                        |-> Start[At(id)]]
        /\ DOMAIN progress = {}
    BY DEF Init
  <1>2. ASSUME NEW id \in Resolves
        PROVE  /\ books[id] = disk[At(id)] /\ disk[At(id)] # None /\ At(id) \in Locations
               /\ id = <<At(id)[1], At(id)[2], 0>> /\ At(id)[1] = id[1] /\ id[1] \in RootSet
    <2>1. PICK l \in Locations : Start[l] # None /\ id = <<l[1], l[2], 0>>
      BY <1>1 DEF Resolves
    <2>2. l = <<l[1], l[2]>> /\ l[1] \in RootSet
      BY DEF Locations
    <2>3. QED
      BY <1>1, <2>1, <2>2 DEF At, Resolves
  <1>3. NamedOnce
    <2>1. \A l1, l2 \in Locations : disk[l1] = disk[l2] /\ disk[l1] # None => l1 = l2
      BY <1>1 DEF NoTwins
    <2>2. ASSUME NEW i \in Resolves, NEW j \in Resolves, books[i] = books[j]
          PROVE  i = j
      <3>1. At(i) = At(j)
        BY <1>2, <2>1, <2>2
      <3>2. QED
        BY <1>2, <3>1
    <2>3. QED
      BY <2>1, <2>2 DEF NamedOnce
  <1>4. FoundInTime
    <2>1. ASSUME NEW id \in Resolves, NEW l \in Locations, disk[l] = books[id]
          PROVE  Position(l[1]) <= Position(id[1])
      <3>1. l = At(id)
        BY <1>1, <1>2, <2>1 DEF NoTwins
      <3>2. QED
        BY <1>2, <3>1, PositionType
    <2>2. QED
      BY <2>1 DEF FoundInTime
  <1>5. AllInSight /\ PagesKept
    BY <1>1 DEF AllInSight, PagesKept
  <1>6. QED
    BY <1>1, <1>3, <1>4, <1>5 DEF FollowInv

\* Every step keeps each file that was read traced.
LEMMA FollowNext ==
  ASSUME MovesGoBack, Untroubled
  PROVE  WalkInv /\ PlaceInv /\ FollowInv /\ [Next]_vars => FollowInv'
  <1> SUFFICES ASSUME WalkInv, PlaceInv, FollowInv, [Next]_vars PROVE FollowInv'
    OBVIOUS
  <1>1. AllInSight' /\ PagesKept'
    BY FollowSights, FollowPages
  <1>2. ASSUME ~upgraded' PROVE Traced'
    <2>1. ~upgraded
      BY <1>2 DEF Next, vars, world, Move, Delete, Unplug, Deny, Upgrade, Read, Begin, WalkRoot,
                  WalkCancelled, RootsDone, SweepRoot, Cancel, Carry, Repair, Purge, Crash,
                  Rebuild, Startup
    <2>2. Traced /\ AllInSight /\ PagesKept
      BY <2>1 DEF FollowInv, Traced
    <2>3. CASE UNCHANGED vars
      BY <2>2, <2>3 DEF vars, world, reader, scan, Traced, NamedOnce, FoundInTime, Followed,
                        Resolves
    <2>4. CASE Unplug \/ Deny \/ Cancel \/ Crash \/ Rebuild
      BY <2>4 DEF Untroubled, Unplug, Deny, Cancel, Crash, Rebuild
    <2>5. CASE Upgrade
      BY <1>2, <2>5 DEF Upgrade
    <2>6. QED
      BY <2>1, <2>2, <2>3, <2>4, <2>5, FollowMove, FollowRead, FollowBegin, FollowWalk,
         FollowSweep, FollowHook DEF Next
  <1>3. QED
    BY <1>1, <1>2 DEF FollowInv, Traced

\* In a library whose files are of different lengths and contents, where files move
\* within their root or to one that is walked before it: until the upgrade, between
\* scans, a file somebody has read and the index lists has its row of reading history.
\* Renames, deletions and page turns between any two scans, in any number, do not cost
\* the reader the place.
THEOREM ProgressFollowsFiles ==
  ASSUME LengthsTell, NoTwins, MovesGoBack, Untroubled
  PROVE  Spec => []HistoryFollows
  <1>1. Undisturbed
    BY DEF Untroubled, Undisturbed
  <1>2. Init => FollowInv
    BY FollowInit
  <1>3. WalkInv /\ PlaceInv /\ FollowInv /\ [Next]_vars => FollowInv'
    BY FollowNext
  <1>4. WalkInv /\ PlaceInv /\ [Next]_vars => PlaceInv'
    BY <1>1, PlaceNext
  <1>5. FollowInv => HistoryFollows
    BY DEF FollowInv, Followed, HistoryFollows
  <1>6. QED
    BY <1>2, <1>3, <1>4, <1>5, PlaceInit, HistoryInvariant, PTL DEF Spec
=============================================================================
