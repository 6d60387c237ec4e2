--------------------------- MODULE OpenPoolProofs ---------------------------
(***************************************************************************)
(* For any number of goroutines, containers, descriptors and any capacity: *)
(* the pool never closes a descriptor under a borrower, counts its         *)
(* borrowers exactly, never leaks a descriptor, never closes one twice,    *)
(* and evicts down to its capacity or until everything in it is in use.    *)
(***************************************************************************)
EXTENDS OpenPool, FiniteSetTheorems, TLAPS

Closing == {"publish", "discard", "closeThenIdle", "closeThenInvalidate",
            "closeThenLookup"}

(* What a caller holds follows from where it is.                           *)
Control ==
    \A c \in Callers :
        /\ own[c] # None <=> pc[c] \in Closing
        /\ own[c] # None => own[c] \in open
        /\ pc[c] \in {"borrowed", "reading"} => lease[c] # None
        /\ lease[c] # None => pc[c] \in {"borrowed", "reading", "discard"}
        /\ pc[c] = "publish" => file[own[c]].path = path[c]

(* Finitely many descriptors are open, and only Close queues any.          *)
DrainIsOpen ==
    /\ IsFiniteSet(open)
    /\ drain \subseteq open
    /\ drain # {} => closed

IInv ==
    /\ TypeOK
    /\ Control
    /\ DrainIsOpen
    /\ BorrowedStaysOpen
    /\ RefsCountBorrowers
    /\ PublishedIsReachable
    /\ NoDescriptorLeak
    /\ ClosedByOne
    /\ ClosedPublishesNothing
    /\ ListingMatchesRecord
-----------------------------------------------------------------------------
(* Borrowers are callers, so there are finitely many of them; a handle     *)
(* nobody leases has none.                                                 *)
LEMMA BorrowersFinite ==
  ASSUME NEW d \in Descriptors
  PROVE  /\ IsFiniteSet(Borrowers(d))
         /\ Cardinality(Borrowers(d)) \in Nat
         /\ Cardinality(Borrowers(d)) = 0 <=> d \notin Leased
  <1>1. IsFiniteSet(Borrowers(d))
    BY FS_Subset, PoolAssumption DEF Borrowers
  <1>2. QED
    BY <1>1, FS_CardinalityType, FS_EmptySet DEF Borrowers, Leased

(* Taking a lease adds one borrower to its handle and to no other.         *)
LEMMA LeaseCounts ==
  ASSUME TypeOK, NEW c \in Callers, NEW d \in Descriptors,
         lease[c] = None, lease' = [lease EXCEPT ![c] = d],
         NEW e \in Descriptors
  PROVE  Cardinality(Borrowers(e)') =
           Cardinality(Borrowers(e)) + (IF e = d THEN 1 ELSE 0)
  <1>1. c \notin Borrowers(e)
    BY PoolAssumption DEF Borrowers
  <1>2. Borrowers(e)' = IF e = d THEN Borrowers(e) \cup {c} ELSE Borrowers(e)
    BY PoolAssumption DEF Borrowers, TypeOK
  <1>3. IsFiniteSet(Borrowers(e)) /\ Cardinality(Borrowers(e)) \in Nat
    BY BorrowersFinite
  <1>4. Cardinality(Borrowers(e) \cup {c}) = Cardinality(Borrowers(e)) + 1
    BY <1>1, <1>3, FS_AddElement
  <1>5. QED
    BY <1>2, <1>3, <1>4

(* Returning a lease takes one borrower from its handle and from no other. *)
LEMMA ReturnCounts ==
  ASSUME TypeOK, NEW c \in Callers, lease[c] \in Descriptors,
         lease' = [lease EXCEPT ![c] = None],
         NEW e \in Descriptors
  PROVE  Cardinality(Borrowers(e)') =
           Cardinality(Borrowers(e)) - (IF e = lease[c] THEN 1 ELSE 0)
  <1>1. e = lease[c] => c \in Borrowers(e)
    BY DEF Borrowers
  <1>2. Borrowers(e)' = IF e = lease[c] THEN Borrowers(e) \ {c} ELSE Borrowers(e)
    BY PoolAssumption DEF Borrowers, TypeOK
  <1>3. IsFiniteSet(Borrowers(e)) /\ Cardinality(Borrowers(e)) \in Nat
    BY BorrowersFinite
  <1>4. e = lease[c] =>
          Cardinality(Borrowers(e) \ {c}) = Cardinality(Borrowers(e)) - 1
    BY <1>1, <1>3, FS_RemoveElement
  <1>5. QED
    BY <1>2, <1>3, <1>4

(* The only borrower of a handle is the caller that leases it.             *)
LEMMA LastBorrower ==
  ASSUME TypeOK, NEW c \in Callers, NEW d \in Descriptors, lease[c] = d,
         Cardinality(Borrowers(d)) <= 1,
         NEW b \in Callers, lease[b] = d
  PROVE  b = c
  <1>1. c \in Borrowers(d) /\ b \in Borrowers(d)
    BY DEF Borrowers
  <1>2. Cardinality(Borrowers(d)) = 1
    BY <1>1, BorrowersFinite, FS_EmptySet
  <1>3. QED
    BY <1>1, <1>2, BorrowersFinite, FS_Singleton

(* While the leases stand still so do the borrowers.                       *)
LEMMA SameBorrowers ==
  ASSUME UNCHANGED lease, NEW d
  PROVE  Borrowers(d)' = Borrowers(d) /\ Leased' = Leased
  BY DEF Borrowers, Leased
-----------------------------------------------------------------------------
\* The empty pool.
LEMMA InitIInv == Init => IInv
  <1> SUFFICES ASSUME Init PROVE IInv
    OBVIOUS
  <1>1. SomePath \in Paths
    BY PoolAssumption DEF SomePath
  <1>2. TypeOK
    <2>1. 1 \in Versions /\ 0 \in 0..MaxVersion
      BY PoolAssumption DEF Versions
    <2>2. /\ disk \in [Paths -> Versions]
          /\ file \in [Descriptors -> [path : Paths, version : Versions]]
          /\ path \in [Callers -> Paths]
      BY <1>1, <2>1 DEF Init
    <2>3. /\ refs \in [Descriptors -> Int] /\ live \in Int
          /\ want \in [Callers -> 0..MaxVersion]
          /\ look \in [Callers -> 0..2]
      BY <2>1 DEF Init
    <2>4. /\ items \in [Paths -> Descriptors \cup {None}]
          /\ lease \in [Callers -> Descriptors \cup {None}]
          /\ own \in [Callers -> Descriptors \cup {None}]
          /\ pc \in [Callers -> States]
      BY DEF Init, States
    <2>5. /\ open \subseteq Descriptors /\ published \subseteq Descriptors
          /\ older \subseteq Descriptors \X Descriptors
          /\ closed \in BOOLEAN /\ drain \subseteq Descriptors
      BY DEF Init
    <2>6. QED
      BY <2>2, <2>3, <2>4, <2>5 DEF TypeOK
  <1>3. /\ \A c \in Callers : lease[c] = None /\ own[c] = None /\ pc[c] = "idle"
        /\ Leased = {} /\ Owned = {}
    BY PoolAssumption DEF Init, Leased, Owned
  <1>4. Control /\ DrainIsOpen /\ BorrowedStaysOpen
    BY <1>3, FS_EmptySet DEF Init, Control, Closing, DrainIsOpen, BorrowedStaysOpen
  <1>5. RefsCountBorrowers /\ PublishedIsReachable
    BY <1>3 DEF Init, RefsCountBorrowers, PublishedIsReachable
  <1>6. NoDescriptorLeak /\ ClosedByOne /\ ClosedPublishesNothing
        /\ ListingMatchesRecord
    BY <1>3 DEF Init, NoDescriptorLeak, ClosedByOne, ClosedPublishesNothing,
      ListingMatchesRecord
  <1>7. QED
    BY <1>2, <1>4, <1>5, <1>6 DEF IInv
-----------------------------------------------------------------------------
(* The parts of the invariant that are about the pool, not the callers'    *)
(* program counters, stand when only those move.                           *)
PoolPart ==
    /\ DrainIsOpen /\ RefsCountBorrowers /\ PublishedIsReachable
    /\ NoDescriptorLeak /\ ClosedByOne /\ ClosedPublishesNothing

\* A step that leaves the pool's own state alone.
LEMMA QuietStep ==
  ASSUME IInv,
         UNCHANGED <<open, file, refs, published, items, closed, drain, lease, own>>
  PROVE  PoolPart'
  <1>1. /\ Leased' = Leased /\ Owned' = Owned /\ Held' = Held
        /\ \A d \in Descriptors : Borrowers(d)' = Borrowers(d)
    BY DEF Leased, Owned, Held, Borrowers
  <1>2. DrainIsOpen' /\ RefsCountBorrowers' /\ PublishedIsReachable'
    BY <1>1 DEF IInv, TypeOK, DrainIsOpen, RefsCountBorrowers, PublishedIsReachable
  <1>3. NoDescriptorLeak' /\ ClosedByOne' /\ ClosedPublishesNothing'
    BY <1>1 DEF IInv, NoDescriptorLeak, ClosedByOne, ClosedPublishesNothing
  <1>4. QED
    BY <1>2, <1>3 DEF PoolPart

\* A caller asks: a hit takes a reference, a miss goes on to open.
LEMMA StartStep ==
  ASSUME IInv, NEW c \in Callers, Start(c)
  PROVE  IInv'
  <1>1. PoolPart'
    BY QuietStep DEF Start, pool
  <1>2. TypeOK'
    <2>1. PICK p \in Paths :
            /\ path' = [path EXCEPT ![c] = p]
            /\ \/ \E v \in 0..disk[p] : /\ want' = [want EXCEPT ![c] = v]
                                       /\ look' = [look EXCEPT ![c] = 0]
               \/ /\ want' = [want EXCEPT ![c] = disk[p]]
                  /\ look' = [look EXCEPT ![c] = 1]
      BY DEF Start
    <2>2. disk[p] \in 0..MaxVersion /\ 0..disk[p] \subseteq 0..MaxVersion
      BY PoolAssumption DEF IInv, TypeOK, Versions
    <2>3. path' \in [Callers -> Paths] /\ look' \in [Callers -> 0..2]
      BY <2>1 DEF IInv, TypeOK
    <2>4. want' \in [Callers -> 0..MaxVersion]
      BY <2>1, <2>2 DEF IInv, TypeOK
    <2>5. pc' \in [Callers -> States]
      BY DEF IInv, TypeOK, Start, Goto, States
    <2>6. QED
      BY <2>3, <2>4, <2>5 DEF IInv, TypeOK, Start, pool
  <1>3. \A b \in Callers : b # c => /\ path'[b] = path[b] /\ want'[b] = want[b]
                                   /\ pc'[b] = pc[b]
    BY DEF IInv, TypeOK, Start, Goto
  <1>4. pc[c] = "idle" /\ pc'[c] = "lookup" /\ own[c] = None /\ lease[c] = None
    BY DEF IInv, TypeOK, Control, Closing, Start, Goto
  <1>5. Control' /\ BorrowedStaysOpen' /\ ListingMatchesRecord'
    BY <1>3, <1>4 DEF IInv, Control, Closing, BorrowedStaysOpen,
      ListingMatchesRecord, Start, pool
  <1>6. QED
    BY <1>1, <1>2, <1>5 DEF PoolPart, IInv

(* Steps that move one program counter and nothing else.                   *)
LEMMA MoveStep ==
  ASSUME IInv, NEW c \in Callers, NEW from, NEW to,
         pc[c] = from, Goto(c, to), to \in States,
         from \in Closing <=> to \in Closing,
         lease[c] = None => to \notin {"borrowed", "reading"},
         lease[c] # None => to \in {"borrowed", "reading", "discard"},
         to # "publish",
         to = "reading" => file[lease[c]].version = want[c],
         UNCHANGED <<disk, open, file, refs, pool, closed, drain, caller, lease, own>>
  PROVE  IInv'
  <1>1. PoolPart'
    BY QuietStep DEF pool
  <1>2. TypeOK'
    BY DEF IInv, TypeOK, Goto, pool, caller
  <1>3. pc'[c] = to /\ \A b \in Callers : b # c => pc'[b] = pc[b]
    BY DEF IInv, TypeOK, Goto
  <1>4. Control'
    BY <1>3 DEF IInv, Control, caller
  <1>5. BorrowedStaysOpen' /\ ListingMatchesRecord'
    BY <1>3 DEF IInv, BorrowedStaysOpen, ListingMatchesRecord, caller
  <1>6. QED
    BY <1>1, <1>2, <1>4, <1>5 DEF PoolPart, IInv

(* Borrowing a published handle: a hit, or a race lost.                    *)
LEMMA BorrowStep ==
  ASSUME IInv, NEW c \in Callers, NEW to \in {"borrowed", "discard"},
         pc[c] \in {"lookup", "publish"},
         pc[c] = "publish" <=> to = "discard",
         items[path[c]] # None, Borrow(c, items[path[c]]), Goto(c, to),
         UNCHANGED <<disk, open, file, published, items, live, closed, drain,
                     caller, own>>
  PROVE  IInv'
  <1> DEFINE d == items[path[c]]
  <1>1. /\ d \in Descriptors /\ d \in published /\ d \in open
        /\ file[d].path = path[c]
    BY DEF IInv, TypeOK, PublishedIsReachable
  <1>2. lease[c] = None
    BY DEF IInv, Control
  <1>3. /\ lease' = [lease EXCEPT ![c] = d] /\ lease'[c] = d
        /\ \A b \in Callers : b # c => lease'[b] = lease[b]
    BY DEF IInv, TypeOK, Borrow
  <1>4. pc'[c] = to /\ \A b \in Callers : b # c => pc'[b] = pc[b]
    BY DEF IInv, TypeOK, Goto
  <1>5. refs' = [refs EXCEPT ![d] = @ + 1]
    BY DEF Borrow
  <1>6. Leased' = Leased \cup {d} /\ Owned' = Owned /\ Held' = Held \cup {d}
    BY <1>1, <1>2, <1>3, PoolAssumption DEF Leased, Owned, Held
  <1>7. TypeOK'
    <2>1. older' \subseteq Descriptors \X Descriptors
      BY <1>1 DEF Borrow, MoveToFront, Without, IInv, TypeOK
    <2>2. pc' \in [Callers -> States]
      BY DEF IInv, TypeOK, Goto, States
    <2>3. lease' \in [Callers -> Descriptors \cup {None}]
          /\ refs' \in [Descriptors -> Int]
      BY <1>1, <1>3, <1>5 DEF IInv, TypeOK
    <2>4. QED
      BY <2>1, <2>2, <2>3 DEF IInv, TypeOK, caller
  <1>8. Control' /\ DrainIsOpen'
    BY <1>1, <1>3, <1>4, PoolAssumption
      DEF IInv, Control, Closing, DrainIsOpen, caller
  <1>9. BorrowedStaysOpen' /\ ListingMatchesRecord'
    BY <1>1, <1>3, <1>4 DEF IInv, BorrowedStaysOpen, ListingMatchesRecord, caller
  <1>10. RefsCountBorrowers'
    <2> SUFFICES ASSUME NEW e \in Descriptors, e \in open, e \in Held'
                 PROVE  refs'[e] = Cardinality(Borrowers(e)')
      BY DEF RefsCountBorrowers, IInv, TypeOK
    <2>1. e \in Held
      BY <1>1, <1>6 DEF Held
    <2>2. refs[e] = Cardinality(Borrowers(e))
      BY <2>1 DEF IInv, RefsCountBorrowers
    <2>3. Cardinality(Borrowers(e)') =
            Cardinality(Borrowers(e)) + (IF e = d THEN 1 ELSE 0)
      BY <1>1, <1>2, <1>3, LeaseCounts DEF IInv
    <2>4. refs'[e] = refs[e] + (IF e = d THEN 1 ELSE 0)
      BY <1>1, <1>5 DEF IInv, TypeOK
    <2>5. QED
      BY <2>2, <2>3, <2>4
  <1>11. PublishedIsReachable' /\ ClosedPublishesNothing'
    BY DEF IInv, PublishedIsReachable, ClosedPublishesNothing
  <1>12. NoDescriptorLeak' /\ ClosedByOne'
    BY <1>1, <1>6 DEF IInv, NoDescriptorLeak, ClosedByOne
  <1>13. QED
    BY <1>7, <1>8, <1>9, <1>10, <1>11, <1>12 DEF IInv

\* A file is opened and stat-ed outside the lock.
LEMMA OpenFileStep ==
  ASSUME IInv, NEW c \in Callers, OpenFile(c)
  PROVE  IInv'
  <1>1. PICK d \in Descriptors \ open :
          /\ open' = open \cup {d}
          /\ file' = [file EXCEPT ![d] = [path |-> path[c],
                                          version |-> disk[path[c]]]]
          /\ own' = [own EXCEPT ![c] = d]
    BY DEF OpenFile
  <1>2. /\ own[c] = None /\ own'[c] = d /\ lease[c] = None
        /\ pc[c] = "opening" /\ pc'[c] = "publish"
        /\ \A b \in Callers : b # c => pc'[b] = pc[b] /\ own'[b] = own[b]
    BY <1>1 DEF IInv, TypeOK, Control, Closing, OpenFile, Goto
  <1>3. d \notin published \cup Leased \cup Owned \cup drain
    BY DEF IInv, NoDescriptorLeak
  <1>4. Leased' = Leased /\ Held' = Held /\ Owned' = Owned \cup {d}
    BY <1>1, <1>2, PoolAssumption DEF OpenFile, pool, Leased, Held, Owned
  <1>5. file'[d].path = path[c]
        /\ \A e \in Descriptors : e # d => file'[e] = file[e]
    BY <1>1 DEF IInv, TypeOK
  <1>6. TypeOK'
    <2>1. file' \in [Descriptors -> [path : Paths, version : Versions]]
      BY <1>1 DEF IInv, TypeOK
    <2>2. own' \in [Callers -> Descriptors \cup {None}]
          /\ pc' \in [Callers -> States] /\ open' \subseteq Descriptors
      BY <1>1 DEF IInv, TypeOK, OpenFile, Goto, States
    <2>3. QED
      BY <2>1, <2>2 DEF IInv, TypeOK, OpenFile, pool, caller
  <1>0. DrainIsOpen'
    BY <1>1, FS_AddElement DEF IInv, DrainIsOpen, OpenFile
  <1>7. Control' /\ DrainIsOpen'
    <2> SUFFICES ASSUME NEW b \in Callers
                 PROVE  /\ own'[b] # None <=> pc'[b] \in Closing
                        /\ own'[b] # None => own'[b] \in open'
                        /\ pc'[b] \in {"borrowed", "reading"} => lease'[b] # None
                        /\ lease'[b] # None =>
                              pc'[b] \in {"borrowed", "reading", "discard"}
                        /\ pc'[b] = "publish" => file'[own'[b]].path = path'[b]
      BY <1>0 DEF Control
    <2>1. CASE b = c
      BY <1>1, <1>2, <1>5, <2>1, PoolAssumption
        DEF IInv, Closing, OpenFile, caller
    <2>2. CASE b # c
      <3>1. own[b] # d
        BY <1>3, <1>1 DEF Owned
      <3>2. pc[b] = "publish" => file'[own[b]].path = path[b]
        BY <3>1, <1>5, PoolAssumption DEF IInv, TypeOK, Control, Closing
      <3>3. QED
        BY <1>1, <1>2, <2>2, <3>2 DEF IInv, Control, OpenFile, caller
    <2>3. QED
      BY <2>1, <2>2
  <1>8. BorrowedStaysOpen' /\ ListingMatchesRecord'
    <2> SUFFICES ASSUME NEW b \in Callers
                 PROVE  /\ lease'[b] # None => lease'[b] \in open'
                                               /\ file'[lease'[b]].path = path'[b]
                        /\ pc'[b] = "reading" =>
                              file'[lease'[b]].version = want'[b]
      BY DEF BorrowedStaysOpen, ListingMatchesRecord
    <2>1. lease[b] # d
      BY <1>1, <1>3 DEF Leased
    <2>2. lease[b] # None => lease[b] \in Descriptors
                             /\ file'[lease[b]] = file[lease[b]]
      BY <1>5, <2>1 DEF IInv, TypeOK
    <2>3. pc'[b] = "reading" => pc[b] = "reading" /\ lease[b] # None
      BY <1>2 DEF IInv, Control
    <2>4. QED
      BY <1>1, <2>2, <2>3 DEF IInv, BorrowedStaysOpen, ListingMatchesRecord,
        OpenFile, caller
  <1>9. RefsCountBorrowers'
    BY <1>1, <1>3, <1>4, SameBorrowers
      DEF IInv, RefsCountBorrowers, OpenFile, Held
  <1>10. PublishedIsReachable' /\ ClosedPublishesNothing'
    BY <1>1, <1>3, <1>5 DEF IInv, TypeOK, PublishedIsReachable,
      ClosedPublishesNothing, OpenFile, pool
  <1>11. NoDescriptorLeak' /\ ClosedByOne'
    <2>1. NoDescriptorLeak'
      BY <1>1, <1>4 DEF IInv, NoDescriptorLeak, OpenFile, pool
    <2>2. \A b \in Callers : b # c => own[b] # d
      BY <1>1, <1>3 DEF Owned
    <2>3. ClosedByOne'
      BY <1>1, <1>2, <1>3, <1>4, <2>2 DEF IInv, ClosedByOne, OpenFile, pool
    <2>4. QED
      BY <2>1, <2>3
  <1>12. QED
    BY <1>6, <1>7, <1>8, <1>9, <1>10, <1>11 DEF IInv

(* Closing a descriptor only the caller can reach: after a lost race, or a *)
(* last release, or an Invalidate.                                         *)
LEMMA CloseOwnStep ==
  ASSUME IInv, NEW c \in Callers, NEW to \in States \ Closing,
         pc[c] \in Closing \ {"publish"},
         to = "borrowed" <=> lease[c] # None, to # "reading",
         open' = open \ {own[c]}, own' = [own EXCEPT ![c] = None], Goto(c, to),
         UNCHANGED <<disk, file, refs, pool, closed, drain, caller, lease>>
  PROVE  IInv'
  <1> DEFINE d == own[c]
  <1>1. d \in Descriptors /\ d \in open /\ d \notin published \cup Leased \cup drain
    BY DEF IInv, TypeOK, Control, ClosedByOne
  <1>2. /\ own'[c] = None /\ pc'[c] = to
        /\ \A b \in Callers : b # c => /\ pc'[b] = pc[b] /\ own'[b] = own[b]
                                       /\ own[b] # d
    BY <1>1, PoolAssumption DEF IInv, TypeOK, ClosedByOne, Goto
  <1>3. Leased' = Leased /\ Held' = Held /\ Owned' = Owned \ {d}
    BY <1>1, <1>2, PoolAssumption DEF pool, Leased, Held, Owned
  <1>4. \A b \in Callers : lease[b] # d
    BY <1>1 DEF Leased
  <1>5. TypeOK'
    BY DEF IInv, TypeOK, Goto, pool, caller
  <1>6. Control' /\ DrainIsOpen'
    <2>1. Control'
      BY <1>1, <1>2 DEF IInv, Control, Closing, caller
    <2>2. DrainIsOpen'
      BY <1>1, FS_RemoveElement DEF IInv, DrainIsOpen
    <2>3. QED
      BY <2>1, <2>2
  <1>7. BorrowedStaysOpen' /\ ListingMatchesRecord'
    BY <1>2, <1>4 DEF IInv, BorrowedStaysOpen, ListingMatchesRecord, caller
  <1>8. RefsCountBorrowers'
    BY <1>3, SameBorrowers DEF IInv, RefsCountBorrowers
  <1>9. PublishedIsReachable' /\ ClosedPublishesNothing'
    BY <1>1 DEF IInv, PublishedIsReachable, ClosedPublishesNothing, pool
  <1>10. NoDescriptorLeak' /\ ClosedByOne'
    <2>1. NoDescriptorLeak'
      BY <1>1, <1>3 DEF IInv, NoDescriptorLeak, pool
    <2>2. ClosedByOne'
      BY <1>2, <1>3 DEF IInv, ClosedByOne, pool
    <2>3. QED
      BY <2>1, <2>2
  <1>11. QED
    BY <1>5, <1>6, <1>7, <1>8, <1>9, <1>10 DEF IInv

(* Returning a handle: if it was unpublished and this was the last borrow, *)
(* the caller is left holding it to close.                                 *)
LEMMA ReleaseStep ==
  ASSUME IInv, NEW c \in Callers, pc[c] \in {"borrowed", "reading"},
         NEW closing \in (Closing \cap States) \ {"publish"},
         NEW next \in States \ (Closing \cup {"borrowed", "reading"}),
         ReleaseHandle(c, closing, next)
  PROVE  IInv'
  <1> DEFINE d == lease[c]
  <1> DEFINE last == MustCloseAtRelease(d)
  <1>1. d \in Descriptors /\ d \in open /\ d \in Held /\ own[c] = None
    BY DEF IInv, TypeOK, Control, Closing, BorrowedStaysOpen, Held, Leased
  <1>2. /\ lease' = [lease EXCEPT ![c] = None] /\ lease'[c] = None
        /\ refs' = [refs EXCEPT ![d] = @ - 1]
        /\ own' = [own EXCEPT ![c] = IF last THEN d ELSE None]
        /\ live' \in Int
        /\ \A b \in Callers : b # c => /\ lease'[b] = lease[b] /\ own'[b] = own[b]
                                       /\ pc'[b] = pc[b]
        /\ own'[c] = IF last THEN d ELSE None
        /\ pc'[c] = IF last THEN closing ELSE next
    BY DEF IInv, TypeOK, ReleaseHandle, CloseOr, Goto
  <1>3. UNCHANGED <<disk, open, file, published, items, older, closed, drain,
                    path, want, look>>
    BY DEF ReleaseHandle, caller
  <1>4. last => \A b \in Callers : b # c => lease[b] # d
    <2> SUFFICES ASSUME last, NEW b \in Callers, lease[b] = d
                 PROVE  b = c
      OBVIOUS
    <2>1. Cardinality(Borrowers(d)) <= 1
      BY <1>1 DEF MustCloseAtRelease, IInv, RefsCountBorrowers
    <2>2. QED
      BY <1>1, <2>1, LastBorrower DEF IInv
  <1>5. d \notin published => (last <=> \A b \in Callers : b # c => lease[b] # d)
    <2> SUFFICES ASSUME d \notin published, \A b \in Callers : b # c => lease[b] # d
                 PROVE  last
      BY <1>4
    <2>1. Borrowers(d) = {c}
      BY DEF Borrowers
    <2>2. Cardinality(Borrowers(d)) = 1
      BY <2>1, FS_Singleton
    <2>3. QED
      BY <1>1, <2>2 DEF MustCloseAtRelease, IInv, RefsCountBorrowers
  <1>6. /\ last => Owned' = Owned \cup {d} /\ d \notin Leased'
        /\ ~last => Owned' = Owned
        /\ Leased' \subseteq Leased /\ Leased \subseteq Leased' \cup {d}
        /\ d \notin Leased' => last \/ d \in published
    BY <1>1, <1>2, <1>4, <1>5, PoolAssumption DEF Leased, Owned
  <1>7. last => d \notin published
    BY DEF MustCloseAtRelease
  <1>8. TypeOK'
    <2>1. refs' \in [Descriptors -> Int]
      BY <1>1, <1>2 DEF IInv, TypeOK
    <2>2. pc' \in [Callers -> States]
      BY DEF IInv, TypeOK, ReleaseHandle, CloseOr, Goto
    <2>3. lease' \in [Callers -> Descriptors \cup {None}]
          /\ own' \in [Callers -> Descriptors \cup {None}]
      BY <1>1, <1>2 DEF IInv, TypeOK
    <2>4. QED
      BY <1>2, <1>3, <2>1, <2>2, <2>3 DEF IInv, TypeOK
  <1>9. Control' /\ DrainIsOpen'
    BY <1>1, <1>2, <1>3, PoolAssumption DEF IInv, Control, Closing, DrainIsOpen
  <1>10. BorrowedStaysOpen' /\ ListingMatchesRecord'
    BY <1>2, <1>3 DEF IInv, BorrowedStaysOpen, ListingMatchesRecord, Closing
  <1>11. RefsCountBorrowers'
    <2> SUFFICES ASSUME NEW e \in Descriptors, e \in open, e \in Held'
                 PROVE  refs'[e] = Cardinality(Borrowers(e)')
      BY <1>3 DEF RefsCountBorrowers, IInv, TypeOK
    <2>1. e \in Held
      BY <1>1, <1>3, <1>6 DEF Held
    <2>2. refs[e] = Cardinality(Borrowers(e))
      BY <2>1 DEF IInv, RefsCountBorrowers
    <2>3. Cardinality(Borrowers(e)') =
            Cardinality(Borrowers(e)) - (IF e = d THEN 1 ELSE 0)
      BY <1>1, <1>2, ReturnCounts DEF IInv
    <2>4. refs'[e] = refs[e] - (IF e = d THEN 1 ELSE 0)
      BY <1>1, <1>2 DEF IInv, TypeOK
    <2>5. QED
      BY <2>2, <2>3, <2>4
  <1>12. PublishedIsReachable' /\ ClosedPublishesNothing'
    BY <1>3 DEF IInv, PublishedIsReachable, ClosedPublishesNothing
  <1>13. NoDescriptorLeak'
    BY <1>1, <1>3, <1>6 DEF IInv, NoDescriptorLeak
  <1>14. ClosedByOne'
    <2>1. d \notin drain /\ \A b \in Callers : own[b] # d
      BY <1>1, PoolAssumption DEF IInv, ClosedByOne, Leased
    <2>2. drain \cap (published \cup Leased') = {}
      BY <1>6 DEF IInv, ClosedByOne
    <2>3. \A b \in Callers : own'[b] # None =>
            own'[b] \notin published \cup Leased' \cup drain
      BY <1>1, <1>2, <1>6, <1>7, <2>1 DEF IInv, ClosedByOne
    <2>4. \A b, e \in Callers : own'[b] # None /\ own'[e] = own'[b] => e = b
      BY <1>1, <1>2, <2>1 DEF IInv, ClosedByOne
    <2>5. QED
      BY <1>3, <2>2, <2>3, <2>4 DEF ClosedByOne
  <1>15. QED
    BY <1>8, <1>9, <1>10, <1>11, <1>12, <1>13, <1>14 DEF IInv

\* A stale handle leaves the map and is closed, or waits for its readers.
LEMMA InvalidateStep ==
  ASSUME IInv, NEW c \in Callers, Invalidate(c)
  PROVE  IInv'
  <1> DEFINE d == items[path[c]]
  <1>1. /\ pc[c] = "invalidate" /\ own[c] = None /\ lease[c] = None
        /\ look' \in [Callers -> 0..2]
    <2>1. pc[c] = "invalidate"
      BY DEF Invalidate
    <2>2. own[c] = None /\ lease[c] = None
      BY <2>1 DEF IInv, Control, Closing
    <2>3. look' = [look EXCEPT ![c] = 2] /\ look \in [Callers -> 0..2]
      BY DEF IInv, TypeOK, Invalidate
    <2>4. look' \in [Callers -> 0..2]
      BY <2>3
    <2>5. QED
      BY <2>1, <2>2, <2>4
  <1>2. CASE d = None
    <2>1. PoolPart'
      BY <1>2, QuietStep DEF Invalidate, pool
    <2>2. TypeOK'
      BY <1>1, <1>2 DEF IInv, TypeOK, Invalidate, Goto, States, pool
    <2>3. pc'[c] = "lookup" /\ \A b \in Callers : b # c => pc'[b] = pc[b]
      BY <1>2 DEF IInv, TypeOK, Invalidate, Goto
    <2>4. Control' /\ BorrowedStaysOpen' /\ ListingMatchesRecord'
      BY <1>1, <1>2, <2>3 DEF IInv, Control, Closing, BorrowedStaysOpen,
        ListingMatchesRecord, Invalidate, pool
    <2>5. QED
      BY <2>1, <2>2, <2>4 DEF PoolPart, IInv
  <1>3. CASE d # None
    <2>1. /\ d \in Descriptors /\ d \in open /\ d \in published
          /\ d \notin drain /\ \A b \in Callers : own[b] # d
      BY <1>3, PoolAssumption
        DEF IInv, TypeOK, PublishedIsReachable, ClosedByOne
    <2>2. /\ published' = published \ {d}
          /\ older' \subseteq older
          /\ items' = [items EXCEPT ![path[c]] = None]
          /\ own' = [own EXCEPT ![c] = IF Idle(d) THEN d ELSE None]
          /\ live' \in Int
          /\ pc' = [pc EXCEPT ![c] = IF Idle(d) THEN "closeThenLookup" ELSE "lookup"]
          /\ UNCHANGED <<disk, open, file, refs, closed, drain, path, want, lease>>
      BY <1>3 DEF Invalidate, UnpublishFrom, Without, CloseOr, Goto, IInv, TypeOK
    <2>3. Idle(d) <=> d \notin Leased
      <3>1. refs[d] = Cardinality(Borrowers(d))
        BY <2>1 DEF IInv, RefsCountBorrowers, Held
      <3>2. QED
        BY <2>1, <3>1, BorrowersFinite DEF Idle
    <2>4. /\ Leased' = Leased
          /\ Owned' = IF Idle(d) THEN Owned \cup {d} ELSE Owned
          /\ Held' \subseteq Held
      BY <1>1, <2>1, <2>2, PoolAssumption DEF Leased, Owned, Held, IInv, TypeOK
    <2>5. TypeOK'
      BY <1>1, <2>1, <2>2 DEF IInv, TypeOK, States
    <2>6. Control' /\ DrainIsOpen'
      BY <1>1, <2>1, <2>2, PoolAssumption
        DEF IInv, TypeOK, Control, Closing, DrainIsOpen
    <2>7. BorrowedStaysOpen' /\ ListingMatchesRecord'
      BY <2>2 DEF IInv, TypeOK, BorrowedStaysOpen, ListingMatchesRecord
    <2>8. RefsCountBorrowers'
      BY <2>2, <2>4, SameBorrowers DEF IInv, RefsCountBorrowers
    <2>9. PublishedIsReachable'
      BY <2>1, <2>2 DEF IInv, TypeOK, PublishedIsReachable
    <2>10. NoDescriptorLeak' /\ ClosedPublishesNothing'
      BY <2>1, <2>2, <2>3, <2>4 DEF IInv, NoDescriptorLeak, ClosedPublishesNothing
    <2>11. ClosedByOne'
      <3>1. \A b \in Callers : own'[b] = IF b = c /\ Idle(d) THEN d ELSE own[b]
        BY <1>1, <2>2 DEF IInv, TypeOK
      <3>2. QED
        BY <2>1, <2>2, <2>3, <2>4, <3>1 DEF IInv, ClosedByOne
    <2>12. QED
      BY <2>5, <2>6, <2>7, <2>8, <2>9, <2>10, <2>11 DEF IInv
  <1>4. QED
    BY <1>2, <1>3

\* The pool is closed: idle handles go, those in use drain.
LEMMA CloseStep ==
  ASSUME IInv, Close
  PROVE  IInv'
  <1>1. /\ closed' = TRUE /\ published' = {} /\ older' = {}
        /\ items' = [p \in Paths |-> None]
        /\ drain' = {d \in published : Idle(d)}
        /\ UNCHANGED <<disk, open, file, refs, pc, path, want, look, lease, own>>
    BY DEF Close, caller
  <1>2. \A d \in published : /\ d \in Descriptors /\ d \in open
                             /\ Idle(d) <=> d \notin Leased
                             /\ d \notin Owned
    <2> TAKE d \in published
    <2>1. d \in Descriptors /\ d \in open
      BY DEF IInv, TypeOK, PublishedIsReachable
    <2>2. refs[d] = Cardinality(Borrowers(d))
      BY <2>1 DEF IInv, RefsCountBorrowers, Held
    <2>3. Idle(d) <=> d \notin Leased
      BY <2>1, <2>2, BorrowersFinite DEF Idle
    <2>4. d \notin Owned
      BY <2>1, PoolAssumption DEF IInv, ClosedByOne, Owned
    <2>5. QED
      BY <2>1, <2>3, <2>4
  <1>3. \A d \in drain' : /\ d \in published /\ d \in open
                          /\ d \notin Leased /\ d \notin Owned
    <2> TAKE d \in drain'
    <2>1. d \in published /\ Idle(d)
      BY DEF Close
    <2>2. QED
      BY <1>2, <2>1
  <1>14. Leased' = Leased /\ Owned' = Owned /\ Held' \subseteq Held
    BY <1>1 DEF Leased, Owned, Held
  <1>4. drain = {}
    BY DEF IInv, DrainIsOpen, Close
  <1>5. IsFiniteSet(drain') /\ live' = live - Cardinality(drain')
    <2>1. drain' \subseteq open
      BY <1>3
    <2>2. QED
      BY <2>1, FS_Subset DEF IInv, DrainIsOpen, Close
  <1>6. TypeOK'
    <2>1. live' \in Int
      BY <1>5, FS_CardinalityType DEF IInv, TypeOK
    <2>2. QED
      BY <1>1, <2>1 DEF IInv, TypeOK
  <1>7. Control' /\ DrainIsOpen'
    BY <1>1, <1>3 DEF IInv, Control, DrainIsOpen
  <1>8. BorrowedStaysOpen' /\ ListingMatchesRecord'
    BY <1>1 DEF IInv, BorrowedStaysOpen, ListingMatchesRecord
  <1>9. RefsCountBorrowers'
    BY <1>1, <1>14, SameBorrowers DEF IInv, RefsCountBorrowers
  <1>10. PublishedIsReachable' /\ ClosedPublishesNothing'
    BY <1>1 DEF PublishedIsReachable, ClosedPublishesNothing
  <1>11. NoDescriptorLeak'
    BY <1>1, <1>2, <1>14, <1>4 DEF IInv, NoDescriptorLeak
  <1>12. ClosedByOne'
    <2>1. \A c \in Callers : own[c] # None => own[c] \notin drain'
      BY <1>3 DEF Owned, IInv, TypeOK
    <2>2. QED
      BY <1>1, <1>14, <1>3, <2>1 DEF IInv, ClosedByOne
  <1>13. QED
    BY <1>6, <1>7, <1>8, <1>9, <1>10, <1>11, <1>12 DEF IInv

\* One of the handles Close collected is closed.
LEMMA CloseDrainedStep ==
  ASSUME IInv, CloseDrained
  PROVE  IInv'
  <1>1. PICK d \in drain : open' = open \ {d} /\ drain' = drain \ {d}
    BY DEF CloseDrained
  <1>2. UNCHANGED <<disk, file, refs, published, items, older, live, closed, pc,
                    path, want, look, lease, own>>
    BY DEF CloseDrained, pool, caller
  <1>3. d \notin published \cup Leased /\ \A c \in Callers : own[c] # d
    BY <1>1, PoolAssumption DEF IInv, TypeOK, ClosedByOne
  <1>4. Leased' = Leased /\ Owned' = Owned /\ Held' = Held
        /\ \A c \in Callers : lease[c] # d
    BY <1>2, <1>3, <1>1 DEF Leased, Owned, Held, IInv, TypeOK
  <1>5. TypeOK'
    BY <1>1, <1>2 DEF IInv, TypeOK
  <1>6. DrainIsOpen'
    BY <1>1, <1>2, FS_RemoveElement DEF IInv, DrainIsOpen
  <1>7. Control' /\ BorrowedStaysOpen' /\ ListingMatchesRecord'
    BY <1>1, <1>2, <1>3, <1>4 DEF IInv, Control, BorrowedStaysOpen, ListingMatchesRecord
  <1>8. RefsCountBorrowers'
    BY <1>1, <1>2, <1>4, SameBorrowers DEF IInv, RefsCountBorrowers
  <1>9. PublishedIsReachable' /\ ClosedPublishesNothing'
    BY <1>1, <1>2, <1>3 DEF IInv, PublishedIsReachable, ClosedPublishesNothing
  <1>10. NoDescriptorLeak'
    BY <1>1, <1>2, <1>3, <1>4 DEF IInv, NoDescriptorLeak, Owned
  <1>11. ClosedByOne'
    BY <1>1, <1>2, <1>4 DEF IInv, ClosedByOne
  <1>12. QED
    BY <1>5, <1>6, <1>7, <1>8, <1>9, <1>10, <1>11 DEF IInv

\* A file on the disk is replaced by another.
LEMMA ReplaceStep ==
  ASSUME IInv, NEW p \in Paths, Replace(p)
  PROVE  IInv'
  <1>1. PoolPart'
    BY QuietStep DEF Replace, pool
  <1>2. disk' \in [Paths -> Versions]
    BY PoolAssumption DEF IInv, TypeOK, Replace, Versions
  <1>3. TypeOK'
    BY <1>2 DEF IInv, TypeOK, Replace, pool, caller
  <1>4. Control' /\ BorrowedStaysOpen' /\ ListingMatchesRecord'
    BY DEF IInv, Control, BorrowedStaysOpen, ListingMatchesRecord, Replace, caller
  <1>5. QED
    BY <1>1, <1>3, <1>4 DEF PoolPart, IInv

(* Publishing a new handle evicts only handles nobody leases, never itself. *)
LEMMA PublishStep ==
  ASSUME IInv, NEW c \in Callers, Publish(c)
  PROVE  IInv'
  <1> DEFINE d == own[c]
             pub == published \cup {d}
             count == [refs EXCEPT ![d] = 1]
             gone == Victims(pub, MoveToFront(older, d, pub), count)
  <1>1. /\ pc[c] = "publish" /\ ~closed /\ items[path[c]] = None
        /\ lease[c] = None /\ file[d].path = path[c]
        /\ d \in Descriptors /\ d \in open
        /\ d \notin published \cup Leased \cup drain
        /\ \A b \in Callers : own[b] = d => b = c
    BY DEF Publish, IInv, TypeOK, Control, Closing, ClosedByOne
  <1>2. /\ refs' = count
        /\ published' = pub \ gone
        /\ items' = [p \in Paths |-> IF \E v \in gone : file[v].path = p THEN None
                                     ELSE IF p = path[c] THEN d ELSE items[p]]
        /\ live' = live + 1 - Cardinality(gone)
        /\ open' = open \ gone
        /\ lease' = [lease EXCEPT ![c] = d]
        /\ own' = [own EXCEPT ![c] = None]
        /\ pc' = [pc EXCEPT ![c] = "borrowed"]
        /\ UNCHANGED <<disk, file, closed, drain, path, want, look>>
    BY DEF Publish, UnpublishFrom, Goto, caller
  <1>3. older' \subseteq Descriptors \X Descriptors
    BY <1>1 DEF Publish, UnpublishFrom, Without, MoveToFront, IInv, TypeOK
  <1>4. \A v \in gone : /\ v \in published /\ v # d /\ v \in open
                        /\ v \in Descriptors /\ v \notin Leased
                        /\ v \notin Owned /\ v \notin drain
    <2> SUFFICES ASSUME NEW v \in gone
                 PROVE  /\ v \in published /\ v # d /\ v \in open
                        /\ v \in Descriptors /\ v \notin Leased
                        /\ v \notin Owned /\ v \notin drain
      OBVIOUS
    <2>1. v \in pub /\ count[v] = 0
      BY DEF Victims
    <2>2. v # d
      BY <1>1, <2>1 DEF IInv, TypeOK
    <2>3. v \in published /\ v \in open /\ v \in Descriptors
      BY <2>1, <2>2 DEF IInv, TypeOK, PublishedIsReachable
    <2>4. refs[v] = 0 /\ refs[v] = Cardinality(Borrowers(v))
      BY <1>1, <2>1, <2>2, <2>3 DEF IInv, TypeOK, RefsCountBorrowers, Held
    <2>5. v \notin Leased
      BY <2>3, <2>4, BorrowersFinite
    <2>6. v \notin Owned /\ v \notin drain
      BY <2>3, PoolAssumption DEF IInv, ClosedByOne, Owned
    <2>7. QED
      BY <2>2, <2>3, <2>5, <2>6
  <1> HIDE DEF gone
  <1>5. \A b \in Callers :
          /\ lease'[b] = IF b = c THEN d ELSE lease[b]
          /\ own'[b] = IF b = c THEN None ELSE own[b]
          /\ pc'[b] = IF b = c THEN "borrowed" ELSE pc[b]
    BY <1>2 DEF IInv, TypeOK
  <1>6. /\ Leased' = Leased \cup {d} /\ Owned' = Owned \ {d}
        /\ Held' = (Held \cup {d}) \ gone
    BY <1>1, <1>2, <1>4, <1>5, PoolAssumption DEF Leased, Owned, Held
  <1>7. IsFiniteSet(gone) /\ Cardinality(gone) \in Nat
    <2>1. gone \subseteq open
      BY <1>4
    <2>2. QED
      BY <2>1, FS_Subset, FS_CardinalityType DEF IInv, DrainIsOpen
  <1>8. TypeOK'
    <2>1. live' \in Int
      BY <1>2, <1>7 DEF IInv, TypeOK
    <2>2. refs' \in [Descriptors -> Int] /\ pc' \in [Callers -> States]
      BY <1>1, <1>2 DEF IInv, TypeOK, States
    <2>3. lease' \in [Callers -> Descriptors \cup {None}]
          /\ own' \in [Callers -> Descriptors \cup {None}]
          /\ items' \in [Paths -> Descriptors \cup {None}]
      BY <1>1, <1>2 DEF IInv, TypeOK
    <2>4. published' \subseteq Descriptors /\ open' \subseteq Descriptors
      BY <1>1, <1>2 DEF IInv, TypeOK
    <2>5. QED
      BY <1>2, <1>3, <2>1, <2>2, <2>3, <2>4 DEF IInv, TypeOK
  <1>9. Control'
    BY <1>1, <1>2, <1>4, <1>5, PoolAssumption DEF IInv, TypeOK, Control, Closing, Owned
  <1>10. DrainIsOpen'
    BY <1>2, <1>4, FS_Subset DEF IInv, DrainIsOpen
  <1>11. BorrowedStaysOpen' /\ ListingMatchesRecord'
    BY <1>1, <1>2, <1>4, <1>5
      DEF IInv, TypeOK, BorrowedStaysOpen, ListingMatchesRecord, Leased
  <1>12. RefsCountBorrowers'
    <2> SUFFICES ASSUME NEW e \in Descriptors, e \in open', e \in Held'
                 PROVE  refs'[e] = Cardinality(Borrowers(e)')
      BY <1>2 DEF RefsCountBorrowers, IInv, TypeOK
    <2>1. Cardinality(Borrowers(e)') =
            Cardinality(Borrowers(e)) + (IF e = d THEN 1 ELSE 0)
      BY <1>1, <1>2, LeaseCounts DEF IInv
    <2>2. CASE e = d
      <3>1. Cardinality(Borrowers(d)) = 0
        BY <1>1, BorrowersFinite
      <3>2. QED
        BY <1>1, <1>2, <2>1, <2>2, <3>1 DEF IInv, TypeOK
    <2>3. CASE e # d
      <3>1. refs[e] = Cardinality(Borrowers(e))
        BY <1>2, <1>6, <2>3 DEF IInv, RefsCountBorrowers
      <3>2. Cardinality(Borrowers(e)) \in Nat
        BY BorrowersFinite
      <3>3. QED
        BY <1>2, <2>1, <2>3, <3>1, <3>2 DEF IInv, TypeOK
    <2>4. QED
      BY <2>2, <2>3
  <1>13. PublishedIsReachable'
    <2>1. ASSUME NEW p \in Paths, items'[p] # None
          PROVE  items'[p] \in published' /\ file'[items'[p]].path = p
      BY <1>1, <1>2, <1>4, <2>1 DEF IInv, TypeOK, PublishedIsReachable
    <2>2. ASSUME NEW e \in published'
          PROVE  e \in open' /\ items'[file'[e].path] = e
      <3>1. CASE e = d
        <4>1. \A v \in gone : file[v].path # path[c]
          BY <1>1, <1>4, PoolAssumption DEF IInv, TypeOK, PublishedIsReachable
        <4>2. QED
          BY <1>1, <1>2, <1>4, <3>1, <4>1 DEF IInv, TypeOK
      <3>2. CASE e # d
        <4>1. e \in published /\ e \notin gone /\ items[file[e].path] = e
          BY <1>2, <2>2, <3>2 DEF IInv, PublishedIsReachable
        <4>2. \A v \in gone : file[v].path # file[e].path
          BY <1>4, <4>1 DEF IInv, PublishedIsReachable
        <4>3. file[e].path # path[c]
          BY <1>1, <4>1, PoolAssumption DEF IInv, TypeOK
        <4>4. e \in Descriptors /\ file[e].path \in Paths
          BY <4>1 DEF IInv, TypeOK
        <4>5. QED
          BY <1>2, <4>1, <4>2, <4>3, <4>4 DEF IInv, PublishedIsReachable
      <3>3. QED
        BY <3>1, <3>2
    <2>3. QED
      BY <2>1, <2>2 DEF PublishedIsReachable
  <1>14. NoDescriptorLeak' /\ ClosedPublishesNothing'
    BY <1>1, <1>2, <1>4, <1>6 DEF IInv, NoDescriptorLeak, ClosedPublishesNothing
  <1>15. ClosedByOne'
    <2>1. \A b \in Callers : own'[b] # None => own'[b] # d /\ own'[b] = own[b]
      BY <1>1, <1>5
    <2>2. QED
      BY <1>1, <1>2, <1>6, <2>1 DEF IInv, ClosedByOne
  <1>16. QED
    BY <1>8, <1>9, <1>10, <1>11, <1>12, <1>13, <1>14, <1>15 DEF IInv
-----------------------------------------------------------------------------
(* A lister always passes a version to check, also in its second look.     *)
ListerAsks ==
    \A c \in Callers :
        /\ look[c] # 0 => want[c] # 0
        /\ pc[c] \in {"invalidate", "closeThenInvalidate"} => look[c] # 0

\* Only who wants a version looks again.
LEMMA ListerAsksInv ==
  ASSUME TypeOK, ListerAsks, [Next]_vars
  PROVE  ListerAsks'
  <1>1. ASSUME NEW c \in Callers, Start(c) PROVE ListerAsks'
    <2>1. PICK p \in Paths :
            \/ look' = [look EXCEPT ![c] = 0]
               /\ \E v \in 0..disk[p] : want' = [want EXCEPT ![c] = v]
            \/ want' = [want EXCEPT ![c] = disk[p]]
      BY <1>1 DEF Start
    <2>2. disk[p] # 0
      BY DEF TypeOK, Versions
    <2>3. \A b \in Callers : b # c => /\ look'[b] = look[b] /\ want'[b] = want[b]
                                     /\ pc'[b] = pc[b]
      BY <1>1 DEF Start, Goto, TypeOK
    <2>4. pc'[c] = "lookup" /\ (look'[c] # 0 => want'[c] # 0)
      BY <1>1, <2>1, <2>2 DEF Start, Goto, TypeOK
    <2>5. QED
      BY <2>3, <2>4 DEF ListerAsks
  <1>2. ASSUME NEW c \in Callers, AcquireStep(c) PROVE ListerAsks'
    BY <1>2 DEF AcquireStep, LookupClosed, LookupHit, LookupMiss, OpenFile,
      OpenFails, PublishClosed, PublishLost, Publish, Discard, Goto, caller,
      TypeOK, ListerAsks
  <1>3. ASSUME NEW c \in Callers, ReturnStep(c) PROVE ListerAsks'
    <2>1. ASSUME Invalidate(c) PROVE ListerAsks'
      BY <2>1 DEF Invalidate, CloseOr, Goto, TypeOK, ListerAsks
    <2>2. ASSUME ReleaseMismatch(c) PROVE ListerAsks'
      BY <2>2 DEF ReleaseMismatch, ReleaseHandle, CloseOr, Goto, caller, TypeOK,
        ListerAsks
    <2>3. ASSUME Accept(c) \/ Release(c) PROVE ListerAsks'
      BY <2>3 DEF Accept, Release, ReleaseHandle, CloseOr, Goto, caller, TypeOK,
        ListerAsks
    <2>4. ASSUME CloseOwn(c) PROVE ListerAsks'
      BY <2>4 DEF CloseOwn, Continuation, Goto, caller, TypeOK, ListerAsks
    <2>5. QED
      BY <1>3, <2>1, <2>2, <2>3, <2>4 DEF ReturnStep
  <1>4. ASSUME UNCHANGED <<pc, want, look>> PROVE ListerAsks'
    BY <1>4 DEF ListerAsks
  <1>5. QED
    BY <1>1, <1>2, <1>3, <1>4
      DEF Next, Close, CloseDrained, Replace, caller, vars

\* Every step keeps the invariant.
LEMMA NextIInv == IInv /\ ListerAsks /\ [Next]_vars => IInv'
  <1> SUFFICES ASSUME IInv, ListerAsks, [Next]_vars PROVE IInv'
    OBVIOUS
  <1>1. ASSUME NEW c \in Callers, AcquireStep(c)
        PROVE  IInv'
    <2>1. ASSUME LookupClosed(c) \/ OpenFails(c) PROVE IInv'
      <3>1. lease[c] = None /\ pc[c] \in {"lookup", "opening"}
        BY <2>1 DEF LookupClosed, OpenFails, IInv, Control
      <3>2. Goto(c, "idle")
            /\ UNCHANGED <<disk, open, file, refs, pool, closed, drain, caller,
                           lease, own>>
        BY <2>1 DEF LookupClosed, OpenFails
      <3>3. QED
        BY <3>1, <3>2, MoveStep DEF Closing, States
    <2>2. ASSUME LookupMiss(c) PROVE IInv'
      <3>1. lease[c] = None
        BY <2>2 DEF LookupMiss, IInv, Control
      <3>2. QED
        BY <2>2, <3>1, MoveStep DEF LookupMiss, Closing, States
    <2>3. ASSUME PublishClosed(c) PROVE IInv'
      BY <2>3, MoveStep DEF PublishClosed, Closing, States
    <2>4. ASSUME LookupHit(c) PROVE IInv'
      BY <2>4, BorrowStep DEF LookupHit
    <2>5. ASSUME PublishLost(c) PROVE IInv'
      BY <2>5, BorrowStep DEF PublishLost
    <2>6. ASSUME Discard(c) PROVE IInv'
      <3>1. CASE lease[c] = None
        BY <2>6, <3>1, CloseOwnStep DEF Discard, Closing, States
      <3>2. CASE lease[c] # None
        BY <2>6, <3>2, CloseOwnStep DEF Discard, Closing, States
      <3>3. QED
        BY <3>1, <3>2
    <2>7. QED
      BY <1>1, <2>1, <2>2, <2>3, <2>4, <2>5, <2>6, OpenFileStep, PublishStep
        DEF AcquireStep
  <1>2. ASSUME NEW c \in Callers, ReturnStep(c)
        PROVE  IInv'
    <2>1. ASSUME Accept(c) PROVE IInv'
      <3>1. file[lease[c]].version = want[c]
        BY <2>1 DEF Accept, Stale, ListerAsks
      <3>2. QED
        BY <2>1, <3>1, MoveStep DEF Accept, Closing, States, IInv, Control
    <2>2. ASSUME Release(c) PROVE IInv'
      BY <2>2, ReleaseStep DEF Release, Closing, States
    <2>3. ASSUME ReleaseMismatch(c) PROVE IInv'
      BY <2>3, ReleaseStep DEF ReleaseMismatch, Closing, States
    <2>4. ASSUME CloseOwn(c) PROVE IInv'
      <3>1. lease[c] = None
        BY <2>4 DEF CloseOwn, IInv, Control
      <3>2. PICK to \in {"idle", "invalidate", "lookup"} : Goto(c, to)
        BY <2>4 DEF CloseOwn, Continuation
      <3>3. QED
        BY <2>4, <3>1, <3>2, CloseOwnStep DEF CloseOwn, Closing, States
    <2>5. QED
      BY <1>2, <2>1, <2>2, <2>3, <2>4, InvalidateStep DEF ReturnStep
  <1>3. CASE UNCHANGED vars
    <2>1. PoolPart'
      BY <1>3, QuietStep DEF vars
    <2>2. TypeOK' /\ Control' /\ BorrowedStaysOpen' /\ ListingMatchesRecord'
      BY <1>3 DEF vars, IInv, TypeOK, Control, BorrowedStaysOpen, ListingMatchesRecord
    <2>3. QED
      BY <2>1, <2>2 DEF PoolPart, IInv
  <1>4. QED
    BY <1>1, <1>2, <1>3, StartStep, CloseStep, CloseDrainedStep, ReplaceStep
      DEF Next

(* The inductive invariant holds of every behaviour of the pool.           *)
THEOREM PoolInvariant == Spec => [](IInv /\ ListerAsks)
  <1>1. Init => IInv /\ ListerAsks
    BY InitIInv DEF Init, ListerAsks
  <1>2. IInv /\ ListerAsks /\ [Next]_vars => IInv' /\ ListerAsks'
    BY NextIInv, ListerAsksInv DEF IInv
  <1>3. QED
    BY <1>1, <1>2, PTL DEF Spec

(* The types of OpenPool's variables.                                      *)
THEOREM PoolTypeOK == Spec => []TypeOK
  <1>1. IInv => TypeOK
    BY DEF IInv
  <1>2. QED
    BY <1>1, PoolInvariant, PTL

(* CON-004: no eviction, Invalidate, Close or lost race closes a           *)
(* descriptor a borrower still reads from.                                 *)
THEOREM BorrowedNeverClosed == Spec => []BorrowedStaysOpen
  <1>1. IInv => BorrowedStaysOpen
    BY DEF IInv
  <1>2. QED
    BY <1>1, PoolInvariant, PTL

(* The reference count is exact.                                           *)
THEOREM RefsExact == Spec => []RefsCountBorrowers
  <1>1. IInv => RefsCountBorrowers
    BY DEF IInv
  <1>2. QED
    BY <1>1, PoolInvariant, PTL

(* A hit never returns a closed or a mislabelled handle.                   *)
THEOREM HitsAreOpen == Spec => []PublishedIsReachable
  <1>1. IInv => PublishedIsReachable
    BY DEF IInv
  <1>2. QED
    BY <1>1, PoolInvariant, PTL

(* A closed pool publishes nothing, whoever was opening a file meanwhile.  *)
THEOREM ClosedStaysEmpty == Spec => []ClosedPublishesNothing
  <1>1. IInv => ClosedPublishesNothing
    BY DEF IInv
  <1>2. QED
    BY <1>1, PoolInvariant, PTL

(* Every open descriptor is published, lent or about to be closed by one   *)
(* goroutine.                                                              *)
THEOREM NothingLeaks == Spec => []NoDescriptorLeak
  <1>1. IInv => NoDescriptorLeak
    BY DEF IInv
  <1>2. QED
    BY <1>1, PoolInvariant, PTL

(* No descriptor is closed twice, or while it can still be reached.        *)
THEOREM OneCloser == Spec => []ClosedByOne
  <1>1. IInv => ClosedByOne
    BY DEF IInv
  <1>2. QED
    BY <1>1, PoolInvariant, PTL

(* The counts, the map, the flags and the descriptors of the pool agree.   *)
THEOREM PoolIsConsistent == Spec => []PoolConsistent
  <1>1. QED
    BY PoolTypeOK, RefsExact, HitsAreOpen, NothingLeaks, OneCloser, ClosedStaysEmpty, PTL
    DEF PoolConsistent

(* A container listing is read from the version it is recorded under.      *)
THEOREM ListingIsOfItsVersion == Spec => []ListingMatchesRecord
  <1>1. IInv => ListingMatchesRecord
    BY DEF IInv
  <1>2. QED
    BY <1>1, PoolInvariant, PTL
-----------------------------------------------------------------------------
(* The order of the list is a line through the handles of S: any two are   *)
(* ordered, and the order has no circle.                                   *)
IsLine(order, S) ==
    /\ \A d \in S : <<d, d>> \notin order
    /\ \A d, e \in S : d # e => <<d, e>> \in order \/ <<e, d>> \in order
    /\ \A d, e, f \in S :
         <<d, e>> \in order /\ <<e, f>> \in order => <<d, f>> \in order

(* Moving a handle to the front, a new one too, leaves a line.             *)
LEMMA FrontLine ==
  ASSUME NEW order, NEW S, NEW d, IsLine(order, S \ {d}), d \in S
  PROVE  IsLine(MoveToFront(order, d, S), S)
  <1> DEFINE front == MoveToFront(order, d, S)
  <1>1. \A e, f \in S : <<e, f>> \in front <=>
          \/ <<e, f>> \in order /\ e # d /\ f # d
          \/ e # d /\ f = d
    BY DEF MoveToFront, Without
  <1> HIDE DEF front
  <1>2. /\ \A e \in S : e # d => <<e, e>> \notin order
        /\ \A e, f \in S : e # d /\ f # d /\ e # f =>
             <<e, f>> \in order \/ <<f, e>> \in order
        /\ \A e, f, g \in S : e # d /\ f # d /\ g # d =>
             (<<e, f>> \in order /\ <<f, g>> \in order => <<e, g>> \in order)
    BY DEF IsLine
  <1>3. \A e \in S : <<e, e>> \notin front
    BY <1>1, <1>2
  <1>4. \A e, f \in S : e # f => <<e, f>> \in front \/ <<f, e>> \in front
    BY <1>1, <1>2
  <1>5. \A e, f, g \in S :
          <<e, f>> \in front /\ <<f, g>> \in front => <<e, g>> \in front
    BY <1>1, <1>2
  <1>6. IsLine(front, S)
    BY <1>3, <1>4, <1>5 DEF IsLine
  <1>7. QED
    BY <1>6 DEF front

(* Taking handles out leaves a line through the others.                    *)
LEMMA ShorterLine ==
  ASSUME NEW order, NEW S, NEW gone, IsLine(order, S)
  PROVE  IsLine(Without(order, gone), S \ gone)
  <1>1. \A e, f \in S \ gone : <<e, f>> \in Without(order, gone) <=> <<e, f>> \in order
    BY DEF Without
  <1>2. QED
    BY <1>1 DEF IsLine

\* A part of a linear order is one.
LEMMA PartOfLine ==
  ASSUME NEW order, NEW S, NEW T \in SUBSET S, IsLine(order, S)
  PROVE  IsLine(order, T)
  BY DEF IsLine

Older(order, S, d) == {e \in S : <<e, d>> \in order}

(* A place in a line is the number of handles before it: different handles *)
(* have different places, so the places are 0 .. n-1.                      *)
LEMMA PlacesInLine ==
  ASSUME NEW S, IsFiniteSet(S), NEW order, IsLine(order, S)
  PROVE  [d \in S |-> Cardinality(Older(order, S, d))]
           \in Bijection(S, 0..(Cardinality(S) - 1))
  <1> DEFINE n == Cardinality(S)
             rank == [d \in S |-> Cardinality(Older(order, S, d))]
  <1>1. n \in Nat
    BY FS_CardinalityType
  <1>2. \A d \in S : /\ Older(order, S, d) \subseteq S \ {d}
                     /\ IsFiniteSet(Older(order, S, d))
                     /\ Cardinality(Older(order, S, d)) \in Nat
    BY FS_Subset, FS_CardinalityType DEF Older, IsLine
  <1>3. ASSUME NEW d \in S PROVE rank[d] \in 0..(n - 1)
    <2>1. Cardinality(S \ {d}) = n - 1 /\ IsFiniteSet(S \ {d})
      BY FS_RemoveElement
    <2>2. Cardinality(Older(order, S, d)) <= n - 1
      BY <1>2, <2>1, FS_Subset
    <2>3. QED
      BY <1>1, <1>2, <2>2
  <1>4. ASSUME NEW d \in S, NEW e \in S, <<d, e>> \in order
        PROVE  rank[d] < rank[e]
    <2>1. d \in Older(order, S, e)
      BY <1>4 DEF Older
    <2>2. Older(order, S, d) \subseteq Older(order, S, e) \ {d}
      BY <1>4 DEF Older, IsLine
    <2>3. /\ IsFiniteSet(Older(order, S, e) \ {d})
          /\ Cardinality(Older(order, S, e) \ {d}) = Cardinality(Older(order, S, e)) - 1
      BY <1>2, <2>1, FS_RemoveElement
    <2>4. Cardinality(Older(order, S, d)) <= Cardinality(Older(order, S, e) \ {d})
      BY <2>2, <2>3, FS_Subset
    <2>5. QED
      BY <1>2, <2>3, <2>4
  <1>5. rank \in Injection(S, 0..(n - 1))
    <2>1. rank \in [S -> 0..(n - 1)]
      BY <1>3
    <2>2. ASSUME NEW d \in S, NEW e \in S, rank[d] = rank[e] PROVE d = e
      <3>1. rank[d] \in Int /\ rank[e] \in Int
        BY <1>3
      <3>2. <<d, e>> \notin order /\ <<e, d>> \notin order
        BY <1>4, <2>2, <3>1
      <3>3. QED
        BY <3>2 DEF IsLine
    <2>3. QED
      BY <2>1, <2>2 DEF Injection, IsInjective
  <1>6. IsFiniteSet(0..(n - 1)) /\ Cardinality(0..(n - 1)) = n
    BY <1>1, FS_Interval
  <1>7. rank \in Surjection(S, 0..(n - 1))
    BY <1>5, <1>6, FS_Injection
  <1>8. QED
    BY <1>5, <1>7 DEF Bijection

(* So k handles have a place before k.                                     *)
LEMMA FirstInLine ==
  ASSUME NEW S, IsFiniteSet(S), NEW order, IsLine(order, S),
         NEW k \in Nat, k <= Cardinality(S)
  PROVE  Cardinality({d \in S : Cardinality(Older(order, S, d)) < k}) = k
  <1> DEFINE n == Cardinality(S)
             rank == [d \in S |-> Cardinality(Older(order, S, d))]
             first == {d \in S : Cardinality(Older(order, S, d)) < k}
             place == [d \in first |-> rank[d]]
  <1>1. rank \in Bijection(S, 0..(n - 1)) /\ n \in Nat
    BY PlacesInLine, FS_CardinalityType
  <1>2. \A d \in S : rank[d] = Cardinality(Older(order, S, d))
    OBVIOUS
  <1>3. first = {d \in S : rank[d] < k}
    BY <1>2
  <1> HIDE DEF rank, first
  <1>4. /\ \A d \in S : rank[d] \in 0..(n - 1)
        /\ \A d, e \in S : rank[d] = rank[e] => d = e
        /\ \A i \in 0..(n - 1) : \E d \in S : rank[d] = i
    BY <1>1 DEF Bijection, Injection, Surjection, IsInjective
  <1>5. place \in [first -> 0..(k - 1)]
    BY <1>1, <1>3, <1>4
  <1>6. \A d, e \in first : place[d] = place[e] => d = e
    BY <1>3, <1>4
  <1>7. \A i \in 0..(k - 1) : \E d \in first : place[d] = i
    <2> SUFFICES ASSUME NEW i \in 0..(k - 1) PROVE \E d \in first : place[d] = i
      OBVIOUS
    <2>1. i \in 0..(n - 1)
      BY <1>1
    <2>2. PICK d \in S : rank[d] = i
      BY <1>4, <2>1
    <2>3. QED
      BY <1>3, <2>2
  <1> HIDE DEF place
  <1>8. place \in Bijection(first, 0..(k - 1))
    BY <1>5, <1>6, <1>7 DEF Bijection, Injection, Surjection, IsInjective
  <1>9. IsFiniteSet(first)
    BY <1>3, FS_Subset
  <1>10. Cardinality(0..(k - 1)) = Cardinality(first)
    BY <1>8, <1>9, FS_Bijection DEF ExistsBijection
  <1>11. Cardinality(0..(k - 1)) = k
    BY FS_Interval
  <1>12. QED
    BY <1>10, <1>11 DEF first

(* evictLocked: it goes down to Max, or as far as there are idle handles.  *)
LEMMA EvictsEnough ==
  ASSUME NEW pub, IsFiniteSet(pub), NEW order, IsLine(order, pub), NEW count
  PROVE  LET gone == Victims(pub, order, count)
         IN  \/ Cardinality(pub \ gone) <= MaxOpen
             \/ \A d \in pub \ gone : count[d] # 0
  <1> DEFINE idle == {d \in pub : count[d] = 0}
             excess == Cardinality(pub) - MaxOpen
             gone == {d \in idle : Cardinality(Older(order, idle, d)) < excess}
  <1>1. Victims(pub, order, count) = gone
    BY DEF Victims, Older
  <1>2. IsFiniteSet(idle) /\ Cardinality(idle) \in Nat /\ Cardinality(pub) \in Nat
        /\ IsLine(order, idle)
    <2>1. IsFiniteSet(idle)
      BY FS_Subset
    <2>2. QED
      BY <2>1, FS_CardinalityType, PartOfLine
  <1>3. excess \in Int /\ MaxOpen \in Nat
    BY <1>2, PoolAssumption
  <1>4. CASE excess < 0
    <2>1. Cardinality(pub \ gone) <= Cardinality(pub) /\ Cardinality(pub \ gone) \in Nat
      BY FS_Subset, FS_CardinalityType
    <2>2. QED
      BY <1>1, <1>2, <1>3, <1>4, <2>1
  <1>5. CASE excess >= 0 /\ excess <= Cardinality(idle)
    <2>1. Cardinality(gone) = excess
      BY <1>2, <1>3, <1>5, FirstInLine
    <2>2. pub \cap gone = gone
      OBVIOUS
    <2>3. Cardinality(pub \ gone) = Cardinality(pub) - Cardinality(pub \cap gone)
      <3> HIDE DEF gone
      <3>1. QED
        BY FS_Difference
    <2>4. Cardinality(pub \ gone) = MaxOpen
      <3>1. Cardinality(pub \cap gone) = excess
        BY <2>1, <2>2
      <3> HIDE DEF gone
      <3>2. QED
        BY <1>2, <1>3, <2>3, <3>1
    <2>5. QED
      BY <1>1, <1>3, <2>4
  <1>6. CASE excess > Cardinality(idle)
    <2>1. \A d \in idle : Cardinality(Older(order, idle, d)) < excess
      <3> SUFFICES ASSUME NEW d \in idle
                   PROVE  Cardinality(Older(order, idle, d)) < excess
        OBVIOUS
      <3>1. Older(order, idle, d) \subseteq idle
        BY DEF Older
      <3>2. /\ Cardinality(Older(order, idle, d)) \in Nat
            /\ Cardinality(Older(order, idle, d)) <= Cardinality(idle)
        BY <1>2, <3>1, FS_Subset, FS_CardinalityType
      <3>3. QED
        BY <1>2, <1>3, <1>6, <3>2
    <2>2. QED
      BY <1>1, <2>1
  <1>7. QED
    BY <1>2, <1>3, <1>4, <1>5, <1>6
-----------------------------------------------------------------------------
(* The part of CapacityKept that is an invariant, and the order it needs.  *)
CapacityInv ==
    /\ IsLine(older, published)
    /\ live = Cardinality(Held)
    /\ CapacityBound

(* What the pool holds is open, so there are finitely many of it, and it   *)
(* is apart from what is in transit or queued by Close.                    *)
LEMMA HeldIsFinite ==
  ASSUME IInv
  PROVE  /\ IsFiniteSet(Held) /\ Cardinality(Held) \in Nat
         /\ IsFiniteSet(published) /\ Cardinality(published) \in Nat
         /\ Held = published \cup Leased
         /\ Leased \subseteq Descriptors /\ published \subseteq Descriptors
  <1>1. Leased \subseteq Descriptors /\ published \subseteq Descriptors
        /\ Held = published \cup Leased
    BY DEF Held, Leased, IInv, TypeOK
  <1>2. Held \subseteq open /\ published \subseteq open
    BY <1>1 DEF IInv, NoDescriptorLeak
  <1>3. QED
    BY <1>1, <1>2, FS_Subset, FS_CardinalityType DEF IInv, DrainIsOpen

(* Stats.Open is right for the open files too: the two differ by what is   *)
(* on its way to or from the pool.                                         *)
LEMMA OpenIsHeldOrInTransit ==
  ASSUME IInv, live = Cardinality(Held)
  PROVE  LiveCountsHeld
  <1>1. open = (Held \cup Owned) \cup drain
    BY HeldIsFinite DEF IInv, NoDescriptorLeak
  <1>2. Held \cap Owned = {} /\ (Held \cup Owned) \cap drain = {}
    BY HeldIsFinite, PoolAssumption DEF IInv, ClosedByOne, Owned
  <1>3. IsFiniteSet(Held) /\ IsFiniteSet(Owned) /\ IsFiniteSet(drain)
    BY <1>1, FS_Subset DEF IInv, DrainIsOpen
  <1>4. /\ Cardinality(Held) \in Nat /\ Cardinality(Owned) \in Nat
        /\ Cardinality(drain) \in Nat /\ Cardinality({}) = 0
    BY <1>3, FS_CardinalityType, FS_EmptySet
  <1>5. /\ IsFiniteSet(Held \cup Owned)
        /\ Cardinality(Held \cup Owned) = Cardinality(Held) + Cardinality(Owned)
    <2>1. /\ IsFiniteSet(Held \cup Owned)
          /\ Cardinality(Held \cup Owned) =
               Cardinality(Held) + Cardinality(Owned) - Cardinality(Held \cap Owned)
      BY <1>3, FS_Union
    <2>2. Cardinality(Held \cap Owned) = 0
      BY <1>2, <1>4
    <2>3. QED
      BY <1>4, <2>1, <2>2
  <1>6. Cardinality(open) = Cardinality(Held \cup Owned) + Cardinality(drain)
    BY <1>1, <1>2, <1>3, <1>4, <1>5, FS_Union
  <1>7. QED
    BY <1>4, <1>5, <1>6 DEF LiveCountsHeld

(* There are no more handles in use than goroutines to use them.           *)
LEMMA LeasedAreFew ==
  ASSUME NEW use, NEW S, \A d \in S : \E c \in Callers : use[c] = d
  PROVE  Cardinality(S) <= Cardinality(Callers)
  <1> DEFINE users == {c \in Callers : use[c] \in S}
             taken == [c \in users |-> use[c]]
  <1>1. IsFiniteSet(users) /\ Cardinality(users) <= Cardinality(Callers)
        /\ Cardinality(users) \in Nat /\ Cardinality(Callers) \in Nat
    BY PoolAssumption, FS_Subset, FS_CardinalityType
  <1>2. taken \in [users -> S]
    OBVIOUS
  <1>3. \A d \in S : \E c \in users : taken[c] = d
    OBVIOUS
  <1>4. taken \in Surjection(users, S)
    BY <1>2, <1>3 DEF Surjection
  <1> HIDE DEF taken, users
  <1>5. IsFiniteSet(S) /\ Cardinality(S) <= Cardinality(users)
    BY <1>1, <1>4, FS_Surjection
  <1>6. Cardinality(S) \in Nat
    BY <1>5, FS_CardinalityType
  <1>7. QED
    BY <1>1, <1>5, <1>6

(* Fewer handles are within the bound too.                                 *)
LEMMA BoundShrinks ==
  ASSUME IInv, CapacityBound, published' \subseteq published
  PROVE  CapacityBound'
  <1>1. Cardinality(published') <= Cardinality(published)
        /\ Cardinality(published') \in Nat
    BY HeldIsFinite, FS_Subset, FS_CardinalityType
  <1>2. Cardinality(Callers) \in Nat /\ MaxOpen \in Nat
    BY PoolAssumption, FS_CardinalityType
  <1>3. QED
    BY <1>1, <1>2, HeldIsFinite DEF CapacityBound

\* A step that touches neither the handles nor who holds them.
LEMMA SameHeld ==
  ASSUME IInv, CapacityInv, UNCHANGED <<published, older, live, lease>>
  PROVE  CapacityInv'
  <1>1. Held' = Held
    BY DEF Held, Leased
  <1>2. QED
    BY <1>1, BoundShrinks DEF CapacityInv

(* A hit, or a lost race.                                                  *)
LEMMA BorrowCounts ==
  ASSUME IInv, CapacityInv, NEW c \in Callers, lease[c] = None,
         items[path[c]] # None, Borrow(c, items[path[c]]),
         UNCHANGED <<published, live>>
  PROVE  CapacityInv'
  <1> DEFINE d == items[path[c]]
  <1>1. d \in published /\ d \in Descriptors
    BY DEF IInv, TypeOK, PublishedIsReachable
  <1>2. IsLine(older', published)
    <2>1. IsLine(older, published \ {d})
      BY PartOfLine DEF CapacityInv
    <2>2. older' = MoveToFront(older, d, published)
      BY DEF Borrow
    <2>3. QED
      BY <1>1, <2>1, <2>2, FrontLine
  <1>3. Held' = Held
    <2>1. lease' = [lease EXCEPT ![c] = d]
      BY DEF Borrow
    <2>2. Leased' = Leased \cup {d}
      BY <1>1, <2>1, PoolAssumption DEF Leased, IInv, TypeOK
    <2>3. QED
      BY <1>1, <2>2 DEF Held
  <1>4. QED
    BY <1>2, <1>3, BoundShrinks DEF CapacityInv

(* A handle returned is held no longer when it falls to the caller to      *)
(* close it, and only then.                                                *)
LEMMA ReleaseCounts ==
  ASSUME IInv, CapacityInv, NEW c \in Callers, pc[c] \in {"borrowed", "reading"},
         NEW closing, NEW next, ReleaseHandle(c, closing, next)
  PROVE  CapacityInv'
  <1> DEFINE d == lease[c]
             last == MustCloseAtRelease(d)
  <1>1. d \in Descriptors /\ d \in open /\ d \in Held /\ d # None
    BY DEF IInv, TypeOK, Control, BorrowedStaysOpen, Held, Leased
  <1>2. /\ lease' = [lease EXCEPT ![c] = None]
        /\ live' = IF last THEN live - 1 ELSE live
        /\ UNCHANGED <<published, older>>
    BY DEF ReleaseHandle, CloseOr
  <1>3. \A b \in Callers : lease'[b] = IF b = c THEN None ELSE lease[b]
    BY <1>2 DEF IInv, TypeOK
  <1>4. refs[d] = Cardinality(Borrowers(d))
    BY <1>1 DEF IInv, RefsCountBorrowers
  <1>5. d \in Held' <=> ~last
    <2>1. CASE \E b \in Callers : b # c /\ lease[b] = d
      <3>1. d \in Leased'
        BY <1>1, <1>3, <2>1 DEF Leased
      <3>2. ~last
        <4> SUFFICES ASSUME last PROVE FALSE
          OBVIOUS
        <4>1. Cardinality(Borrowers(d)) <= 1
          BY <1>4 DEF MustCloseAtRelease
        <4>2. QED
          BY <1>1, <2>1, <4>1, LastBorrower DEF IInv
      <3>3. QED
        BY <1>1, <3>1, <3>2 DEF Held
    <2>2. CASE ~\E b \in Callers : b # c /\ lease[b] = d
      <3>1. d \notin Leased'
        BY <1>1, <1>3, <2>2 DEF Leased
      <3>2. Borrowers(d) = {c}
        BY <2>2 DEF Borrowers
      <3>3. refs[d] = 1
        BY <1>4, <3>2, FS_Singleton
      <3>4. QED
        BY <1>1, <1>2, <3>1, <3>3 DEF Held, MustCloseAtRelease
    <2>3. QED
      BY <2>1, <2>2
  <1>6. \A e \in Descriptors : e # d => (e \in Held' <=> e \in Held)
    BY <1>2, <1>3, PoolAssumption DEF Held, Leased
  <1>7. Held' = IF last THEN Held \ {d} ELSE Held
    BY <1>1, <1>5, <1>6 DEF Held
  <1>8. live' = Cardinality(Held')
    BY <1>1, <1>2, <1>7, HeldIsFinite, FS_RemoveElement DEF CapacityInv
  <1>9. QED
    BY <1>2, <1>8, BoundShrinks DEF CapacityInv

\* Invalidate keeps the count of handles.
LEMMA InvalidateCounts ==
  ASSUME IInv, CapacityInv, NEW c \in Callers, Invalidate(c)
  PROVE  CapacityInv'
  <1> DEFINE d == items[path[c]]
  <1>1. CASE d = None
    BY <1>1, SameHeld DEF Invalidate, pool
  <1>2. CASE d # None
    <2>1. d \in Descriptors /\ d \in published /\ d \in open /\ d \in Held
      BY <1>2 DEF IInv, TypeOK, PublishedIsReachable, Held
    <2>2. /\ published' = published \ {d} /\ older' = Without(older, {d})
          /\ live' = IF Idle(d) THEN live - 1 ELSE live
          /\ lease' = lease
      BY <1>2 DEF Invalidate, UnpublishFrom, CloseOr
    <2>3. Idle(d) <=> d \notin Leased
      <3>1. refs[d] = Cardinality(Borrowers(d))
        BY <2>1 DEF IInv, RefsCountBorrowers
      <3>2. QED
        BY <2>1, <3>1, BorrowersFinite DEF Idle
    <2>4. Leased' = Leased
      BY <2>2 DEF Leased
    <2>5. Held' = IF Idle(d) THEN Held \ {d} ELSE Held
      BY <2>1, <2>2, <2>3, <2>4 DEF Held
    <2>6. live' = Cardinality(Held')
      BY <2>1, <2>2, <2>5, HeldIsFinite, FS_RemoveElement DEF CapacityInv
    <2>7. IsLine(older', published')
      BY <2>2, ShorterLine DEF CapacityInv
    <2>8. QED
      BY <2>2, <2>6, <2>7, BoundShrinks DEF CapacityInv
  <1>3. QED
    BY <1>1, <1>2

\* Close keeps the count of handles.
LEMMA CloseCounts ==
  ASSUME IInv, CapacityInv, Close
  PROVE  CapacityInv'
  <1>1. /\ published' = {} /\ older' = {} /\ lease' = lease
        /\ drain' = {d \in published : Idle(d)}
        /\ live' = live - Cardinality(drain')
    BY DEF Close
  <1>2. \A d \in published : Idle(d) <=> d \notin Leased
    <2> TAKE d \in published
    <2>1. d \in Descriptors /\ refs[d] = Cardinality(Borrowers(d))
      BY DEF IInv, TypeOK, PublishedIsReachable, RefsCountBorrowers, Held
    <2>2. QED
      BY <2>1, BorrowersFinite DEF Idle
  <1>3. Held' = Held \ drain' /\ Held \cap drain' = drain'
    <2>1. Leased' = Leased
      BY <1>1 DEF Leased
    <2>2. Held = published \cup Leased /\ Held' = Leased
      BY <1>1, <2>1, HeldIsFinite DEF Held
    <2>3. QED
      BY <1>1, <1>2, <2>2
  <1>4. live' = Cardinality(Held')
    <2>1. Cardinality(Held \ drain') = Cardinality(Held) - Cardinality(Held \cap drain')
      BY HeldIsFinite, FS_Difference
    <2>2. QED
      BY <1>1, <1>3, <2>1 DEF CapacityInv
  <1>5. QED
    BY <1>1, <1>4, BoundShrinks DEF CapacityInv, IsLine

(* An insertion with its evictions.                                        *)
LEMMA PublishCounts ==
  ASSUME IInv, IInv', CapacityInv, NEW c \in Callers, Publish(c)
  PROVE  CapacityInv' /\ OverflowsOnlyInUse
  <1> DEFINE d == own[c]
             pub == published \cup {d}
             order == MoveToFront(older, d, pub)
             count == [refs EXCEPT ![d] = 1]
             gone == Victims(pub, order, count)
  <1>1. /\ lease[c] = None /\ d \in Descriptors /\ d \notin published
        /\ d \notin Held /\ pc[c] = "publish"
    BY DEF Publish, IInv, TypeOK, Control, Closing, ClosedByOne, Held
  <1>2. /\ refs' = count /\ published' = pub \ gone
        /\ older' = Without(order, gone)
        /\ live' = live + 1 - Cardinality(gone)
        /\ lease' = [lease EXCEPT ![c] = d]
    BY DEF Publish, UnpublishFrom
  <1>3. IsFiniteSet(pub) /\ IsLine(order, pub)
    <2>1. IsFiniteSet(pub)
      BY HeldIsFinite, FS_AddElement
    <2>2. IsLine(older, pub \ {d})
      BY PartOfLine DEF CapacityInv
    <2>3. IsLine(order, pub)
      <3> HIDE DEF pub
      <3>1. d \in pub
        BY DEF pub
      <3>2. QED
        BY <2>2, <3>1, FrontLine
    <2>4. QED
      BY <2>1, <2>3
  <1>4. \A v \in gone : v \in pub /\ v # d /\ v \in Held /\ v \notin Leased
    <2> TAKE v \in gone
    <2>1. v \in pub /\ count[v] = 0
      BY DEF Victims
    <2>2. v # d
      BY <1>1, <2>1 DEF IInv, TypeOK
    <2>3. v \in published /\ v \in open /\ v \in Descriptors /\ v \in Held
      BY <2>1, <2>2 DEF IInv, TypeOK, PublishedIsReachable, Held
    <2>4. refs[v] = 0 /\ refs[v] = Cardinality(Borrowers(v))
      BY <1>1, <2>1, <2>2, <2>3 DEF IInv, TypeOK, RefsCountBorrowers
    <2>5. QED
      BY <2>1, <2>2, <2>3, <2>4, BorrowersFinite
  <1>5. \/ Cardinality(pub \ gone) <= MaxOpen
        \/ \A e \in pub \ gone : count[e] # 0
    <2> HIDE DEF pub, order, count
    <2>1. QED
      BY <1>3, EvictsEnough
  <1> HIDE DEF gone
  <1>6. Held' = (Held \cup {d}) \ gone
    <2>1. Leased' = Leased \cup {d}
      BY <1>1, <1>2, PoolAssumption DEF Leased, IInv, TypeOK
    <2>2. QED
      BY <1>1, <1>2, <1>4, <2>1 DEF Held
  <1>7. live' = Cardinality(Held')
    <2>1. /\ IsFiniteSet(Held \cup {d})
          /\ Cardinality(Held \cup {d}) = Cardinality(Held) + 1
      BY <1>1, HeldIsFinite, FS_AddElement
    <2>2. (Held \cup {d}) \cap gone = gone
      BY <1>4
    <2>3. Cardinality(Held') =
            Cardinality(Held \cup {d}) - Cardinality((Held \cup {d}) \cap gone)
      BY <1>6, <2>1, FS_Difference
    <2>4. IsFiniteSet(gone) /\ Cardinality(gone) \in Nat
      BY <2>1, <2>2, FS_Subset, FS_CardinalityType
    <2>5. QED
      <3>1. Cardinality((Held \cup {d}) \cap gone) = Cardinality(gone)
        BY <2>2
      <3>2. live = Cardinality(Held) /\ Cardinality(Held) \in Nat
        BY HeldIsFinite DEF CapacityInv
      <3>3. QED
        BY <1>2, <2>1, <2>3, <2>4, <3>1, <3>2
  <1>8. IsLine(older', published')
    <2> HIDE DEF pub, order
    <2>1. QED
      BY <1>2, <1>3, ShorterLine
  <1>9. Cardinality(published') <= MaxOpen \/ published' \subseteq Leased'
    <2> SUFFICES ASSUME \A e \in published' : refs'[e] # 0
                 PROVE  published' \subseteq Leased'
      BY <1>2, <1>5
    <2> SUFFICES ASSUME NEW e \in published' PROVE e \in Leased'
      OBVIOUS
    <2>1. e \in open' /\ e \in Descriptors /\ e \in Held'
      BY DEF IInv, TypeOK, PublishedIsReachable, Held
    <2>2. refs'[e] = Cardinality(Borrowers(e)')
      BY <2>1 DEF IInv, RefsCountBorrowers
    <2>3. Cardinality(Borrowers(e)') = 0 <=> e \notin Leased'
      <3>1. IsFiniteSet(Borrowers(e)')
        BY FS_Subset, PoolAssumption DEF Borrowers
      <3>2. QED
        BY <2>1, <3>1, FS_EmptySet DEF Borrowers, Leased
    <2>4. QED
      BY <2>2, <2>3
  <1>10. Cardinality(published') \in Nat
    <2>1. published' \subseteq pub
      BY <1>2
    <2>2. QED
      BY <1>3, <2>1, FS_Subset, FS_CardinalityType
  <1>11. CapacityBound'
    <2>1. published' \subseteq Leased' => Cardinality(published') <= Cardinality(Callers)
      <3> SUFFICES ASSUME published' \subseteq Leased'
                   PROVE  Cardinality(published') <= Cardinality(Callers)
        OBVIOUS
      <3>1. \A e \in published' : \E b \in Callers : lease'[b] = e
        BY DEF Leased
      <3>2. QED
        BY <3>1, LeasedAreFew
    <2>2. Cardinality(Callers) \in Nat /\ MaxOpen \in Nat
      BY PoolAssumption, FS_CardinalityType
    <2>3. QED
      BY <1>9, <1>10, <2>1, <2>2 DEF CapacityBound
  <1>12. OverflowsOnlyInUse
    <2>1. Cardinality(published') > MaxOpen => published' \subseteq Leased'
      BY <1>9, <1>10, PoolAssumption
    <2>2. QED
      BY <2>1 DEF OverflowsOnlyInUse, Leased
  <1>13. QED
    BY <1>7, <1>8, <1>11, <1>12 DEF CapacityInv

\* Every step keeps the count, and goes over the size only when all is in use.
LEMMA NextCounts ==
  ASSUME IInv, IInv', CapacityInv, [Next]_vars
  PROVE  CapacityInv' /\ OverflowsOnlyInUse
  <1>1. ASSUME CapacityInv', published' \subseteq published
        PROVE  CapacityInv' /\ OverflowsOnlyInUse
    BY <1>1 DEF OverflowsOnlyInUse
  <1>2. CASE UNCHANGED <<published, older, live, lease>>
    BY <1>1, <1>2, SameHeld
  <1>3. ASSUME NEW c \in Callers, AcquireStep(c)
        PROVE  CapacityInv' /\ OverflowsOnlyInUse
    <2>1. CASE LookupHit(c) \/ PublishLost(c)
      <3>1. lease[c] = None
        BY <2>1 DEF LookupHit, PublishLost, IInv, Control
      <3>2. CapacityInv' /\ published' = published
        BY <2>1, <3>1, BorrowCounts DEF LookupHit, PublishLost
      <3>3. QED
        BY <1>1, <3>2
    <2>2. CASE Publish(c)
      BY <2>2, PublishCounts
    <2>3. CASE LookupClosed(c) \/ LookupMiss(c) \/ OpenFile(c) \/ OpenFails(c)
                 \/ PublishClosed(c) \/ Discard(c)
      BY <1>2, <2>3 DEF LookupClosed, LookupMiss, OpenFile, OpenFails,
        PublishClosed, Discard, pool
    <2>4. QED
      BY <1>3, <2>1, <2>2, <2>3 DEF AcquireStep
  <1>4. ASSUME NEW c \in Callers, ReturnStep(c)
        PROVE  CapacityInv' /\ OverflowsOnlyInUse
    <2>1. CASE Release(c)
      BY <1>1, <2>1, ReleaseCounts DEF Release, ReleaseHandle
    <2>2. CASE ReleaseMismatch(c)
      BY <1>1, <2>2, ReleaseCounts DEF ReleaseMismatch, ReleaseHandle
    <2>3. CASE Invalidate(c)
      <3>1. published' \subseteq published
        BY <2>3 DEF Invalidate, UnpublishFrom, pool
      <3>2. QED
        BY <1>1, <2>3, <3>1, InvalidateCounts
    <2>4. CASE Accept(c) \/ CloseOwn(c)
      BY <1>2, <2>4 DEF Accept, CloseOwn, pool
    <2>5. QED
      BY <1>4, <2>1, <2>2, <2>3, <2>4 DEF ReturnStep
  <1>5. CASE Close
    <2>1. published' \subseteq published
      BY <1>5 DEF Close
    <2>2. QED
      BY <1>1, <1>5, <2>1, CloseCounts
  <1>6. QED
    BY <1>2, <1>3, <1>4, <1>5
      DEF Next, Start, CloseDrained, Replace, vars, pool

(* Stats.Open is the number of files the pool holds, the pool is within    *)
(* its capacity, and goes over Max only when evictLocked finds nothing     *)
(* idle: after every step of whichever goroutine.                          *)
THEOREM CapacityIsKept == Spec => CapacityKept
  <1>1. Init => CapacityInv
    <2> SUFFICES ASSUME Init PROVE CapacityInv
      OBVIOUS
    <2>1. published = {} /\ live = 0 /\ Held = {}
      BY PoolAssumption DEF Init, Held, Leased
    <2>2. Cardinality(Callers) \in Nat /\ MaxOpen \in Nat
      BY PoolAssumption, FS_CardinalityType
    <2>3. QED
      BY <2>1, <2>2, FS_EmptySet DEF CapacityInv, CapacityBound, IsLine
  <1>2. IInv /\ IInv' /\ CapacityInv /\ [Next]_vars => CapacityInv'
    BY NextCounts
  <1>3. IInv /\ IInv' /\ CapacityInv /\ [Next]_vars => OverflowsOnlyInUse
    BY NextCounts
  <1>4. IInv /\ CapacityInv => LiveCountsHeld /\ CapacityBound
    BY OpenIsHeldOrInTransit DEF CapacityInv
  <1>5. QED
    BY <1>1, <1>2, <1>3, <1>4, PoolInvariant, PTL DEF Spec, CapacityKept
=============================================================================
