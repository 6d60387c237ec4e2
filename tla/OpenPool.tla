------------------------------ MODULE OpenPool ------------------------------
(***************************************************************************)
(* The LRU pool of open container descriptors (internal/openpool) together *)
(* with the two kinds of goroutine that use it (internal/source):          *)
(*   - a page reader borrows a descriptor, streams from it and releases it *)
(*     (containerSource.Open, Stale, nestedSource.container);              *)
(*   - a lister borrows one whose (size, mtime) are the ones it is about   *)
(*     to record, invalidating the pooled one once if they are not         *)
(*     (containerSource.acquireMatching).                                  *)
(* Pool.mu makes each critical section one action; what the code does      *)
(* outside the lock (open, stat, close) is an action of its own.           *)
(*                                                                         *)
(* A version stands for one (size, mtime) pair, so a replacement that      *)
(* keeps both is not a replacement here.  A handle and its descriptor are  *)
(* one value, and a closed descriptor may be handed out again, as an       *)
(* operating system reuses its numbers.  The Hits/Misses/Evictions/Stale   *)
(* counters are diagnostics and are left out.                              *)
(*                                                                         *)
(* An operator named X_Bug is X with a plausible mistake in it.  No        *)
(* specification uses it: it shows that a property can fail.               *)
(***************************************************************************)
EXTENDS Integers, FiniteSets

CONSTANTS
    Paths,        \* absolute paths of containers
    Callers,      \* goroutines that borrow from the pool
    Descriptors,  \* what the operating system can hand out
    MaxOpen,      \* Options.Max
    MaxVersion,   \* bound on the number of times a container is replaced
    None          \* no descriptor

ASSUME PoolAssumption ==
    /\ Paths # {}
    /\ IsFiniteSet(Callers)
    /\ MaxOpen \in Nat \ {0}
    /\ MaxVersion \in Nat \ {0}
    /\ None \notin Descriptors

VARIABLES
    disk,       \* disk[p]: the version the path p resolves to
    open,       \* the descriptors the process holds open
    file,       \* file[d]: the path and version d was opened on
    refs,       \* refs[d]: handle.refs
    published,  \* handles whose published flag is set
    items,      \* Pool.items
    older,      \* Pool.lru: <<d, e>> when d is nearer the back than e
    live,       \* Pool.live
    closed,     \* Pool.closed
    drain,      \* idle handles Pool.Close collected and has yet to close
    pc,         \* where each caller is
    path,       \* the container a caller works on
    want,       \* the version it passes to Acquire, 0 to skip the check
    look,       \* 0: page reader; 1, 2: a lister's first, second Acquire
    lease,      \* the handle behind the caller's Ref
    own         \* a descriptor only this caller can reach and must close

caller == <<path, want, look>>
pool == <<published, items, older, live>>
vars == <<disk, open, file, refs, published, items, older, live, closed,
          drain, pc, path, want, look, lease, own>>

SomePath == CHOOSE p \in Paths : TRUE
Versions == 1..MaxVersion
Leased == {d \in Descriptors : \E c \in Callers : lease[c] = d}
Borrowers(d) == {c \in Callers : lease[c] = d}
Held == {d \in Descriptors : d \in published \/ d \in Leased}
Owned == {d \in Descriptors : \E c \in Callers : own[c] = d}
Idle(d) == refs[d] <= 0

States == {"idle", "lookup", "opening", "publish", "discard", "borrowed",
           "reading", "invalidate", "closeThenIdle", "closeThenInvalidate",
           "closeThenLookup"}

TypeOK ==
    /\ disk \in [Paths -> Versions]
    /\ open \subseteq Descriptors
    /\ file \in [Descriptors -> [path : Paths, version : Versions]]
    /\ refs \in [Descriptors -> Int]
    /\ published \subseteq Descriptors
    /\ items \in [Paths -> Descriptors \cup {None}]
    /\ older \subseteq Descriptors \X Descriptors
    /\ live \in Int
    /\ closed \in BOOLEAN
    /\ drain \subseteq Descriptors
    /\ pc \in [Callers -> States]
    /\ path \in [Callers -> Paths]
    /\ want \in [Callers -> 0..MaxVersion]
    /\ look \in [Callers -> 0..2]
    /\ lease \in [Callers -> Descriptors \cup {None}]
    /\ own \in [Callers -> Descriptors \cup {None}]

Init ==
    /\ disk = [p \in Paths |-> 1]
    /\ open = {}
    /\ file = [d \in Descriptors |-> [path |-> SomePath,
                                     version |-> 1]]
    /\ refs = [d \in Descriptors |-> 0]
    /\ published = {} /\ drain = {}
    /\ items = [p \in Paths |-> None]
    /\ older = {}
    /\ live = 0
    /\ closed = FALSE
    /\ pc = [c \in Callers |-> "idle"]
    /\ path = [c \in Callers |-> SomePath]
    /\ want = [c \in Callers |-> 0]
    /\ look = [c \in Callers |-> 0]
    /\ lease = [c \in Callers |-> None]
    /\ own = [c \in Callers |-> None]

Goto(c, label) == pc' = [pc EXCEPT ![c] = label]
Stale(c) == want[c] # 0 /\ want[c] # file[lease[c]].version

(***************************************************************************)
(* The order list.List keeps.                                              *)
(***************************************************************************)
Without(order, gone) == {r \in order : r[1] \notin gone /\ r[2] \notin gone}
MoveToFront(order, d, all) ==
    Without(order, {d}) \cup {<<e, d>> : e \in all \ {d}}

(* unpublishLocked for each of the handles in gone. *)
UnpublishFrom(gone, pub, order) ==
    /\ published' = pub \ gone
    /\ older' = Without(order, gone)

\* Evicts handles in use.
Victims_InUse(pub, order, count) ==
    LET excess == Cardinality(pub) - MaxOpen
    IN  {d \in pub : Cardinality({e \in pub : <<e, d>> \in order}) < excess}

\* Gives up at the first handle in use instead of looking past it.
Victims_BackOnly(pub, order, count) ==
    LET excess == Cardinality(pub) - MaxOpen
    IN  {d \in pub : /\ Cardinality({e \in pub : <<e, d>> \in order}) < excess
                     /\ \A e \in pub : <<e, d>> \in order \/ e = d => count[e] = 0}

(* evictLocked: oldest idle handles go until Max are left, or none is idle. *)
Victims(pub, order, count) ==
    LET idle == {d \in pub : count[d] = 0}
        excess == Cardinality(pub) - MaxOpen
    IN  {d \in idle : Cardinality({e \in idle : <<e, d>> \in order}) < excess}

(***************************************************************************)
(* Acquire.                                                                *)
(***************************************************************************)
\* A page reader asks for what the index recorded, now or before a
\* replacement, or for anything (0).  A lister asks for what the walk has
\* just measured.
Start(c) ==
    /\ pc[c] = "idle"
    /\ \E p \in Paths :
         /\ path' = [path EXCEPT ![c] = p]
         /\ \/ \E v \in 0..disk[p] : /\ want' = [want EXCEPT ![c] = v]
                                     /\ look' = [look EXCEPT ![c] = 0]
            \/ /\ want' = [want EXCEPT ![c] = disk[p]]
               /\ look' = [look EXCEPT ![c] = 1]
    /\ Goto(c, "lookup")
    /\ UNCHANGED <<disk, open, file, refs, pool, closed, drain, lease, own>>

LookupClosed(c) ==
    /\ pc[c] = "lookup" /\ closed
    /\ Goto(c, "idle")
    /\ UNCHANGED <<disk, open, file, refs, pool, closed, drain, caller, lease, own>>

Borrow(c, d) ==
    /\ lease' = [lease EXCEPT ![c] = d]
    /\ refs' = [refs EXCEPT ![d] = @ + 1]
    /\ older' = MoveToFront(older, d, published)

LookupHit(c) ==
    /\ pc[c] = "lookup" /\ ~closed
    /\ items[path[c]] # None
    /\ Borrow(c, items[path[c]])
    /\ Goto(c, "borrowed")
    /\ UNCHANGED <<disk, open, file, published, items, live, closed, drain,
                   caller, own>>

LookupMiss(c) ==
    /\ pc[c] = "lookup" /\ ~closed
    /\ items[path[c]] = None
    /\ Goto(c, "opening")
    /\ UNCHANGED <<disk, open, file, refs, pool, closed, drain, caller, lease, own>>

OpenFile(c) ==
    /\ pc[c] = "opening"
    /\ \E d \in Descriptors \ open :
         /\ open' = open \cup {d}
         /\ file' = [file EXCEPT ![d] = [path |-> path[c],
                                         version |-> disk[path[c]]]]
         /\ own' = [own EXCEPT ![c] = d]
    /\ Goto(c, "publish")
    /\ UNCHANGED <<disk, refs, pool, closed, drain, caller, lease>>

\* The open fails, or the stat after it does and the file is closed again.
OpenFails(c) ==
    /\ pc[c] = "opening"
    /\ Goto(c, "idle")
    /\ UNCHANGED <<disk, open, file, refs, pool, closed, drain, caller, lease, own>>

PublishClosed(c) ==
    /\ pc[c] = "publish" /\ closed
    /\ Goto(c, "discard")
    /\ UNCHANGED <<disk, open, file, refs, pool, closed, drain, caller, lease, own>>

\* The winner's borrow count is not raised.
PublishLost_Uncounted(c) ==
    /\ pc[c] = "publish" /\ ~closed
    /\ items[path[c]] # None
    /\ lease' = [lease EXCEPT ![c] = items[path[c]]]
    /\ Goto(c, "discard")
    /\ UNCHANGED <<disk, open, file, refs, pool, closed, drain, caller, own>>

\* The loser's descriptor is not closed.
PublishLost_Leak(c) ==
    /\ pc[c] = "publish" /\ ~closed
    /\ items[path[c]] # None
    /\ Borrow(c, items[path[c]])
    /\ Goto(c, "borrowed")
    /\ own' = [own EXCEPT ![c] = None]
    /\ UNCHANGED <<disk, open, file, published, items, live, closed, drain, caller>>

PublishLost(c) ==
    /\ pc[c] = "publish" /\ ~closed
    /\ items[path[c]] # None
    /\ Borrow(c, items[path[c]])
    /\ Goto(c, "discard")
    /\ UNCHANGED <<disk, open, file, published, items, live, closed, drain,
                   caller, own>>

\* Does not look at closed again after opening the file.
Publish_Unchecked(c) ==
    /\ pc[c] = "publish"
    /\ items[path[c]] = None
    /\ published' = published \cup {own[c]}
    /\ older' = MoveToFront(older, own[c], published')
    /\ refs' = [refs EXCEPT ![own[c]] = 1]
    /\ items' = [items EXCEPT ![path[c]] = own[c]]
    /\ live' = live + 1
    /\ lease' = [lease EXCEPT ![c] = own[c]]
    /\ own' = [own EXCEPT ![c] = None]
    /\ Goto(c, "borrowed")
    /\ UNCHANGED <<disk, open, file, closed, drain, caller>>

Publish(c) ==
    /\ pc[c] = "publish" /\ ~closed
    /\ items[path[c]] = None
    /\ LET d == own[c]
           pub == published \cup {d}
           order == MoveToFront(older, d, pub)
           count == [refs EXCEPT ![d] = 1]
           gone == Victims(pub, order, count)
       IN  /\ refs' = count
           /\ UnpublishFrom(gone, pub, order)
           /\ items' = [p \in Paths |->
                          IF \E v \in gone : file[v].path = p THEN None
                          ELSE IF p = path[c] THEN d ELSE items[p]]
           /\ live' = live + 1 - Cardinality(gone)
           /\ open' = open \ gone
           /\ lease' = [lease EXCEPT ![c] = d]
    /\ own' = [own EXCEPT ![c] = None]
    /\ Goto(c, "borrowed")
    /\ UNCHANGED <<disk, file, closed, drain, caller>>

\* Closing the descriptor nobody else ever saw.
Discard(c) ==
    /\ pc[c] = "discard"
    /\ open' = open \ {own[c]}
    /\ own' = [own EXCEPT ![c] = None]
    /\ Goto(c, IF lease[c] = None THEN "idle" ELSE "borrowed")
    /\ UNCHANGED <<disk, file, refs, pool, closed, drain, caller, lease>>

(***************************************************************************)
(* Release, and the Invalidate between a lister's two looks.               *)
(***************************************************************************)
\* Closes without counting.
CloseOr_Uncounted(c, d, mustClose, closing, next) ==
    /\ own' = [own EXCEPT ![c] = IF mustClose THEN d ELSE None]
    /\ UNCHANGED live
    /\ Goto(c, IF mustClose THEN closing ELSE next)

\* The caller's next step, by way of closing d when it fell to it to do so.
CloseOr(c, d, mustClose, closing, next) ==
    /\ own' = [own EXCEPT ![c] = IF mustClose THEN d ELSE None]
    /\ live' = IF mustClose THEN live - 1 ELSE live
    /\ Goto(c, IF mustClose THEN closing ELSE next)

\* Any release of an unpublished handle closes it.
MustCloseAtRelease_First(d) == d \notin published
\* The last release leaves the file open.
MustCloseAtRelease_Never(d) == FALSE
MustCloseAtRelease(d) == refs[d] <= 1 /\ d \notin published

ReleaseHandle(c, closing, next) ==
    /\ refs' = [refs EXCEPT ![lease[c]] = @ - 1]
    /\ CloseOr(c, lease[c], MustCloseAtRelease(lease[c]), closing, next)
    /\ lease' = [lease EXCEPT ![c] = None]
    /\ UNCHANGED <<disk, open, file, published, items, older, closed, drain, caller>>

\* Lists from whatever the second look returned.
Accept_Unchecked(c) ==
    /\ pc[c] = "borrowed"
    /\ look[c] # 0
    /\ Goto(c, "reading")
    /\ UNCHANGED <<disk, open, file, refs, pool, closed, drain, caller, lease, own>>

\* acquireMatching returns the handle and List reads the directory from it.
Accept(c) ==
    /\ pc[c] = "borrowed"
    /\ look[c] # 0 /\ ~Stale(c)
    /\ Goto(c, "reading")
    /\ UNCHANGED <<disk, open, file, refs, pool, closed, drain, caller, lease, own>>

\* A page reader is done with its stream, a lister has read the directory, or
\* gives the book up because the second look was stale too.
Release(c) ==
    /\ \/ pc[c] = "reading"
       \/ pc[c] = "borrowed" /\ look[c] = 0
       \/ pc[c] = "borrowed" /\ look[c] = 2 /\ Stale(c)
    /\ ReleaseHandle(c, "closeThenIdle", "idle")

\* Looks again for as long as the handle is stale, and counts the looks.
ReleaseMismatch_Again(c) ==
    /\ pc[c] = "borrowed"
    /\ look[c] # 0 /\ Stale(c)
    /\ look' = [look EXCEPT ![c] = @ + 1]
    /\ refs' = [refs EXCEPT ![lease[c]] = @ - 1]
    /\ CloseOr(c, lease[c], MustCloseAtRelease(lease[c]), "closeThenInvalidate", "invalidate")
    /\ lease' = [lease EXCEPT ![c] = None]
    /\ UNCHANGED <<disk, open, file, published, items, older, closed, drain, path, want>>

ReleaseMismatch(c) ==
    /\ pc[c] = "borrowed"
    /\ look[c] = 1 /\ Stale(c)
    /\ ReleaseHandle(c, "closeThenInvalidate", "invalidate")

\* Leaves the map entry behind.
Invalidate_KeepsEntry(c) ==
    /\ pc[c] = "invalidate"
    /\ look' = [look EXCEPT ![c] = 2]
    /\ items[path[c]] # None
    /\ UnpublishFrom({items[path[c]]}, published, older)
    /\ LET d == items[path[c]] IN CloseOr(c, d, Idle(d), "closeThenLookup", "lookup")
    /\ UNCHANGED <<disk, open, file, refs, items, closed, drain, path, want, lease>>

Invalidate(c) ==
    /\ pc[c] = "invalidate"
    /\ look' = [look EXCEPT ![c] = 2]
    /\ LET d == items[path[c]]
       IN  IF d = None
           THEN /\ Goto(c, "lookup")
                /\ UNCHANGED <<pool, own>>
           ELSE /\ UnpublishFrom({d}, published, older)
                /\ items' = [items EXCEPT ![path[c]] = None]
                /\ CloseOr(c, d, Idle(d), "closeThenLookup", "lookup")
    /\ UNCHANGED <<disk, open, file, refs, closed, drain, path, want, lease>>

Continuation == [closeThenIdle |-> "idle", closeThenInvalidate |-> "invalidate",
                 closeThenLookup |-> "lookup"]

CloseOwn(c) ==
    /\ pc[c] \in {"closeThenIdle", "closeThenInvalidate", "closeThenLookup"}
    /\ open' = open \ {own[c]}
    /\ own' = [own EXCEPT ![c] = None]
    /\ Goto(c, Continuation[pc[c]])
    /\ UNCHANGED <<disk, file, refs, pool, closed, drain, caller, lease>>

(***************************************************************************)
(* Pool.Close, and the file system.                                        *)
(***************************************************************************)
Close ==
    /\ ~closed
    /\ closed' = TRUE
    /\ drain' = {d \in published : Idle(d)}
    /\ live' = live - Cardinality(drain')
    /\ published' = {} /\ older' = {}
    /\ items' = [p \in Paths |-> None]
    /\ UNCHANGED <<disk, open, file, refs, pc, caller, lease, own>>

CloseDrained ==
    \E d \in drain :
        /\ open' = open \ {d}
        /\ drain' = drain \ {d}
        /\ UNCHANGED <<disk, file, refs, pool, closed, pc, caller, lease, own>>

\* Somebody outside the program moves a new file over the path.
Replace(p) ==
    /\ disk[p] < MaxVersion
    /\ disk' = [disk EXCEPT ![p] = @ + 1]
    /\ UNCHANGED <<open, file, refs, pool, closed, drain, pc, caller, lease, own>>

AcquireStep(c) ==
    \/ LookupClosed(c) \/ LookupHit(c) \/ LookupMiss(c)
    \/ OpenFile(c) \/ OpenFails(c)
    \/ PublishClosed(c) \/ PublishLost(c) \/ Publish(c) \/ Discard(c)

ReturnStep(c) ==
    Accept(c) \/ Release(c) \/ ReleaseMismatch(c) \/ Invalidate(c) \/ CloseOwn(c)

Next ==
    \/ \E c \in Callers : Start(c) \/ AcquireStep(c) \/ ReturnStep(c)
    \/ Close \/ CloseDrained
    \/ \E p \in Paths : Replace(p)

Spec == Init /\ [][Next]_vars

\* A goroutine inside the pool or holding a stream gets to run; nobody is
\* obliged to ask for a page, replace a file or shut the server down.
FairSpec ==
    /\ Spec
    /\ \A c \in Callers : WF_vars(AcquireStep(c) \/ ReturnStep(c))
    /\ WF_vars(CloseDrained)

-----------------------------------------------------------------------------
(* CON-004: "A file descriptor is never closed underneath a live stream."  *)
(* A Ref always names an open descriptor of the path it was asked for,     *)
(* even after eviction, Invalidate, Close and descriptor reuse.            *)
BorrowedStaysOpen ==
    \A c \in Callers : lease[c] # None =>
        /\ lease[c] \in open
        /\ file[lease[c]].path = path[c]

(* handle.refs is the number of Refs out, so idle means unused.            *)
RefsCountBorrowers ==
    \A d \in open : d \in Held => refs[d] = Cardinality(Borrowers(d))

(* The map, the published flag and the handle's own path agree, and a      *)
(* published handle is open: a hit never returns a closed file.            *)
PublishedIsReachable ==
    /\ \A p \in Paths : items[p] # None =>
         items[p] \in published /\ file[items[p]].path = p
    /\ \A d \in published : d \in open /\ items[file[d].path] = d

(* No descriptor is lost: each open one is published, lent, in the hands   *)
(* of exactly the goroutine that will close it, or queued by Close.        *)
NoDescriptorLeak ==
    open = published \cup Leased \cup Owned \cup drain

(* One goroutine closes a descriptor, once, and only when it has left the  *)
(* pool and its last borrower.                                             *)
ClosedByOne ==
    /\ \A c \in Callers : own[c] # None =>
         /\ own[c] \notin published \cup Leased \cup drain
         /\ \A e \in Callers : own[e] = own[c] => e = c
    /\ drain \cap (published \cup Leased) = {}

(* Stats.Open counts what the pool holds; with the descriptors in transit  *)
(* between the lock and open/close it is the real number of open files.    *)
LiveCountsHeld ==
    /\ live = Cardinality(Held)
    /\ Cardinality(open) = live + Cardinality(Owned) + Cardinality(drain)

(* After Close nothing is handed out again.                                *)
ClosedPublishesNothing == closed => published = {}

(* A listing is read from the very version the walk measured, never from   *)
(* the replaced file a pooled descriptor may still hold, and it stays that *)
(* version until the read is over.                                         *)
ListingMatchesRecord ==
    \A c \in Callers : pc[c] = "reading" => file[lease[c]].version = want[c]

(* The pool's bookkeeping is consistent: the borrow counts, the map with   *)
(* the published flags, the open descriptors, who closes each of them and  *)
(* the closed flag agree, however the critical sections, the opens and the *)
(* closes of readers, listers and Close interleave.                        *)
PoolConsistent ==
    /\ TypeOK
    /\ RefsCountBorrowers
    /\ PublishedIsReachable
    /\ NoDescriptorLeak
    /\ ClosedByOne
    /\ ClosedPublishesNothing

(* The pool is never larger than Max or the number of borrowers, whichever *)
(* is more, however the insertions, releases and invalidations interleave. *)
CapacityBound ==
    Cardinality(published) <= IF MaxOpen < Cardinality(Callers)
                              THEN Cardinality(Callers) ELSE MaxOpen

(* An insertion takes the pool over Max only when every handle in it is in *)
(* use (the comment on evictLocked).                                       *)
OverflowsOnlyInUse ==
    (\E d \in published' : d \notin published) /\ Cardinality(published') > MaxOpen
        => \A d \in published' : \E c \in Callers : lease'[c] = d

(* Every step of any caller leaves Stats.Open the true number of files the *)
(* pool holds and the pool within its capacity, and goes over Max only     *)
(* when the comment on evictLocked lets it: nothing idle is left to evict. *)
CapacityKept ==
    [][LiveCountsHeld' /\ CapacityBound' /\ OverflowsOnlyInUse]_vars

(* Once the pool is closed and its borrowers have finished, no descriptor  *)
(* stays open.                                                             *)
CloseDrainsAll == closed ~> [](open = {})

(* What acquireMatching concludes from a second mismatch: "no inode        *)
(* matches what we are about to record - the archive is being rewritten    *)
(* right now", so the path does not resolve to the wanted version.         *)
SecondMismatchMeansChanged ==
    \A c \in Callers :
        pc[c] = "borrowed" /\ look[c] = 2 /\ Stale(c) => disk[path[c]] # want[c]
=============================================================================
