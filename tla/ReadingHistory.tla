--------------------------- MODULE ReadingHistory ---------------------------
(***************************************************************************)
(* What becomes of reading progress when files move.  A scan walks the     *)
(* roots, stamps the index rows it finds, sweeps the others and observes   *)
(* which of them moved (internal/scanner, internal/index).  Its AfterScan  *)
(* hook (internal/app) then carries progress over the observed moves,      *)
(* repairs what is still orphaned by path rules (internal/repair) and      *)
(* purges the progress of books that are gone (internal/userdata).  A      *)
(* reader turns pages all the while.                                       *)
(*                                                                         *)
(* A file stands for its content version, which is (size, mtime), and for  *)
(* its pages.  An id <<r, p, k>> is the hash ids.NestedBookID takes of     *)
(* root r, path p and the volume k inside the file, 0 for the whole file.  *)
(* An id is stamped when its row carries the generation of this run.       *)
(*                                                                         *)
(* Progress is kept without series_id and started_at, so the refile step   *)
(* of the hook, which corrects series_id alone, is left out.  Events bounds*)
(* what the world does to the server in a run of the model.                *)
(*                                                                         *)
(* An operator named X_Bug is X with a plausible mistake in it.  No        *)
(* specification uses it: it shows that a property can fail.               *)
(***************************************************************************)
EXTENDS Integers, Sequences, FiniteSets, Functions

CONSTANTS
    Roots,      \* the configured roots, in the order a scan visits them
    Paths,      \* root-relative paths
    Files,      \* the files of the library
    Volumes,    \* Volumes[f]: pages of each volume or chapter inside f
    Untagged,   \* Untagged[p]: p without a leading [tag]
    Start,      \* Start[<<r, p>>]: the file there at first
    Moves,      \* moves <<from, to>> between locations that may happen
    Events,     \* what else may happen: see the actions that name them
    MaxReads,   \* bound on page turns
    None        \* no file

RootSet == {Roots[k] : k \in DOMAIN Roots}
Locations == RootSet \X Paths

ASSUME HistoryAssumption ==
    /\ Roots \in Seq(RootSet) /\ IsInjective(Roots)
    /\ \A f \in Files : Volumes[f] \in Seq(Nat \ {0}) /\ Volumes[f] # <<>>
    /\ IsFiniteSet(Paths)
    /\ Untagged \in [Paths -> Paths]
    /\ Start \in [Locations -> Files \cup {None}]
    /\ Moves \subseteq Locations \X Locations
    /\ Events \subseteq {"targeted", "partial", "offline", "unreadable", "cancel",
                         "crash", "userdb", "rebuild", "upgrade"}
    /\ MaxReads \in Nat
    /\ None \notin Files

VARIABLES
    disk,       \* the file at each location
    offline,    \* roots that cannot be reached
    unreadable, \* locations in a directory that cannot be read
    upgraded,   \* the binary looks for volumes inside files
    books,      \* index.db: the file behind each book id
    stamped,    \* ids whose scan_gen is this run's
    progress,   \* user.db: a row for each book id that was read
    reads,      \* page turns so far: the clock of updated_at
    opened,     \* files somebody has read
    phase,      \* where the scan is
    queue,      \* the roots the scan has yet to finish
    full,       \* Request.Full
    targeted,   \* the request names series
    cancelled,  \* the context of the run is cancelled
    rootErr,    \* RootResult.Err of the root at hand
    swept,      \* roots whose sweep was allowed
    moved       \* RootResult.Relocations of the run: <<old id, new id>>

world == <<disk, offline, unreadable, upgraded>>
reader == <<progress, reads, opened>>
request == <<queue, full, targeted>>
scan == <<phase, request, cancelled, rootErr, swept, moved>>
vars == <<world, books, stamped, reader, scan>>

Ids == RootSet \X Paths \X Nat
At(id) == <<id[1], id[2]>>
Resolves == DOMAIN books

Total(f) == SumFunctionOnSet(Volumes[f], DOMAIN Volumes[f])
Length(f, k) == IF k = 0 THEN Total(f) ELSE Volumes[f][k]
PageCount(id) == Length(books[id], id[3])
Pages(S) == SumFunctionOnSet([id \in S |-> PageCount(id)], S)

Rows == [root : RootSet, path : Paths, page : Nat \ {0}, count : Nat \ {0},
         done : BOOLEAN, at : 1..MaxReads, of : Files]

TypeOK ==
    /\ disk \in [Locations -> Files \cup {None}]
    /\ offline \subseteq RootSet /\ unreadable \subseteq Locations
    /\ {upgraded, full, targeted, cancelled, rootErr} \subseteq BOOLEAN
    /\ Resolves \subseteq Ids /\ \A id \in Resolves : books[id] \in Files
    /\ stamped \subseteq Resolves
    /\ DOMAIN progress \subseteq Ids
    /\ \A id \in DOMAIN progress : progress[id] \in Rows
    /\ reads \in 0..MaxReads /\ opened \subseteq Files
    /\ phase \in {"startup", "idle", "walk", "sweep", "carry", "repair", "purge"}
    /\ queue \subseteq RootSet /\ swept \subseteq RootSet
    /\ moved \subseteq Ids \X Ids

Init ==
    /\ disk = Start /\ offline = {} /\ unreadable = {} /\ upgraded = FALSE
    /\ books = [id \in {<<l[1], l[2], 0>> : l \in {m \in Locations : Start[m] # None}}
                    |-> Start[At(id)]]
    /\ stamped = {} /\ progress = [id \in {} |-> None] /\ reads = 0 /\ opened = {}
    /\ phase = "idle" /\ queue = {} /\ full = FALSE /\ targeted = FALSE
    /\ cancelled = FALSE /\ rootErr = FALSE /\ swept = {} /\ moved = {}

(***************************************************************************)
(* The world.  Files move between scans only: a file that moves while its  *)
(* root is walked may be seen twice or not at all, and no walk can tell.   *)
(* A file does not take a location the index still gives to another: an id *)
(* is a location, so that would be a replacement and not a move.           *)
(***************************************************************************)
Move ==
    /\ phase = "idle"
    /\ \E m \in Moves :
        /\ disk[m[1]] # None /\ disk[m[2]] = None
        /\ \A id \in Resolves : At(id) # m[2]
        /\ disk' = [disk EXCEPT ![m[2]] = disk[m[1]], ![m[1]] = None]
    /\ UNCHANGED <<offline, unreadable, upgraded, books, stamped, reader, scan>>

Delete ==
    /\ phase = "idle"
    /\ \E l \in Locations :
        /\ disk[l] # None
        /\ disk' = [disk EXCEPT ![l] = None]
    /\ UNCHANGED <<offline, unreadable, upgraded, books, stamped, reader, scan>>

Unplug ==
    /\ "offline" \in Events
    /\ \E r \in RootSet : offline' \in {offline \cup {r}, offline \ {r}}
    /\ UNCHANGED <<disk, unreadable, upgraded, books, stamped, reader, scan>>

\* A directory below the top level stops being readable: a permission, a bad
\* sector, an interrupted network share.
Deny ==
    /\ "unreadable" \in Events /\ phase = "idle"
    /\ \E l \in Locations : unreadable' \in {unreadable \cup {l}, unreadable \ {l}}
    /\ UNCHANGED <<disk, offline, upgraded, books, stamped, reader, scan>>

\* A new version starts to list the chapters of a file as books.
Upgrade ==
    /\ "upgrade" \in Events /\ phase = "idle"
    /\ upgraded' = TRUE
    /\ phase' = "startup"
    /\ UNCHANGED <<disk, offline, unreadable, books, stamped, reader, request,
                   cancelled, rootErr, swept, moved>>

\* Counts pages from 0.
Clamped_Bug(id) == 0..(PageCount(id) - 1)

\* The pages clampPage lets through.
Clamped(id) == 1..PageCount(id)

\* PutProgress.  A row keeps the length it was first written with, unless the
\* reader has acknowledged that the book is of another length now.  "Completed" is
\* the last page or what the reader says.
Read ==
    /\ reads < MaxReads
    /\ \E id \in Resolves : \E page \in Clamped(id), done, staleSeen \in BOOLEAN :
        LET kept == id \in DOMAIN progress /\ ~staleSeen
            row == [root |-> id[1], path |-> id[2], page |-> page,
                    count |-> IF kept THEN progress[id].count ELSE PageCount(id),
                    done |-> done, at |-> reads + 1, of |-> books[id]]
        IN  /\ progress' = [i \in DOMAIN progress \cup {id} |->
                                IF i = id THEN row ELSE progress[i]]
            /\ opened' = opened \cup {books[id]}
    /\ reads' = reads + 1
    /\ UNCHANGED <<world, books, stamped, scan>>

(***************************************************************************)
(* The scan.                                                               *)
(***************************************************************************)
Position(r) == CHOOSE k \in DOMAIN Roots : Roots[k] = r

\* The root the scan is at: of those it has yet to finish, the first configured.
Due(r) == r \in queue /\ \A s \in queue : Position(r) <= Position(s)

NewRun ==
    /\ stamped' = {} /\ cancelled' = FALSE /\ rootErr' = FALSE
    /\ swept' = {} /\ moved' = {}

Begin ==
    /\ phase = "idle"
    /\ \E chosen \in SUBSET RootSet :
        /\ chosen # {}
        /\ "partial" \in Events \/ chosen = RootSet
        /\ queue' = chosen
    /\ full' \in BOOLEAN
    /\ targeted' \in (IF "targeted" \in Events THEN BOOLEAN ELSE {FALSE})
    /\ NewRun
    /\ phase' = "walk"
    /\ UNCHANGED <<world, books, reader>>

\* The ids the file at a location is listed under.  An unchanged book is not
\* opened again, so it is not found to hold volumes either.
Listed(loc) ==
    LET whole == <<loc[1], loc[2], 0>>
        volumes == Volumes[disk[loc]]
        kept == ~full /\ whole \in Resolves /\ books[whole] = disk[loc]
    IN  IF kept \/ ~upgraded \/ Len(volumes) = 1 THEN {whole}
        ELSE {<<loc[1], loc[2], k>> : k \in DOMAIN volumes}

\* The rows of what was found are written, or stamped if they are unchanged.
Index(found) ==
    LET ids == UNION {Listed(l) : l \in found}
    IN  /\ books' = [id \in Resolves \cup ids |->
                        IF id \in ids THEN disk[At(id)] ELSE books[id]]
        /\ stamped' = stamped \cup ids

\* A directory that cannot be read costs its own books a warning.
Present(r) == {l \in Locations : l[1] = r /\ disk[l] # None /\ l \notin unreadable}

WalkRoot ==
    /\ phase = "walk" /\ ~cancelled
    /\ \E r \in RootSet :
       /\ Due(r)
       /\ rootErr' = (r \in offline)
       /\ IF r \in offline THEN UNCHANGED <<books, stamped>>
          ELSE \E found \in SUBSET Present(r) :
                  /\ targeted \/ found = Present(r)
                  /\ Index(found)
    /\ phase' = "sweep"
    /\ UNCHANGED <<world, reader, request, cancelled, swept, moved>>

\* The run is cancelled in the middle of the root: what was indexed is kept.
WalkCancelled ==
    /\ "cancel" \in Events
    /\ phase = "walk" /\ ~cancelled
    /\ \E r \in RootSet : /\ Due(r) /\ r \notin offline
                          /\ \E found \in SUBSET Present(r) : Index(found)
    /\ cancelled' = TRUE /\ rootErr' = FALSE
    /\ phase' = "sweep"
    /\ UNCHANGED <<world, reader, request, swept, moved>>

RootsDone ==
    /\ phase = "walk" /\ (queue = {} \/ cancelled)
    /\ phase' = "carry"
    /\ UNCHANGED <<world, books, stamped, reader, request, cancelled, rootErr, swept, moved>>

Gone(r) == {id \in Resolves : id[1] = r /\ id \notin stamped}

\* Looks for the surviving half in the root being swept only.
Relocations_Bug(r) ==
    {m \in Gone(r) \X {k \in stamped : k[1] = r} :
        /\ books[m[1]] = books[m[2]]
        /\ \A g \in Gone(r) : books[g] = books[m[1]] => g = m[1]
        /\ \A k \in stamped : books[k] = books[m[2]] => k = m[2]}

\* observeRelocations: a vanishing row and a surviving one of the same content,
\* each the only one.
Relocations(r) ==
    {m \in Gone(r) \X stamped :
        /\ books[m[1]] = books[m[2]]
        /\ \A g \in Gone(r) : books[g] = books[m[1]] => g = m[1]
        /\ \A k \in stamped : books[k] = books[m[2]] => k = m[2]}

\* An unreachable root is taken for an empty one.
SweepAllowed_Bug == ~cancelled /\ ~targeted

\* decideSweep.
SweepAllowed == ~rootErr /\ ~cancelled /\ ~targeted

SweepRoot ==
    /\ phase = "sweep"
    /\ \E r \in RootSet :
       /\ Due(r)
       /\ IF SweepAllowed
          THEN /\ moved' = moved \cup Relocations(r)
               /\ books' = [id \in Resolves \ Gone(r) |-> books[id]]
               /\ swept' = swept \cup {r}
          ELSE UNCHANGED <<moved, books, swept>>
       /\ queue' = queue \ {r}
    /\ phase' = "walk"
    /\ UNCHANGED <<world, stamped, reader, full, targeted, cancelled, rootErr>>

\* POST /api/scan/cancel, at any moment of the run.
Cancel ==
    /\ "cancel" \in Events
    /\ phase \notin {"idle", "startup"} /\ ~cancelled
    /\ cancelled' = TRUE
    /\ UNCHANGED <<world, books, stamped, reader, phase, request, rootErr, swept, moved>>

(***************************************************************************)
(* RepairSplit: retires the old rows and writes the new ones.  A move is a *)
(* record of the old id and the rows it becomes, by id.                    *)
(***************************************************************************)
Newest(S) == CHOOSE row \in S : \A other \in S : other.at <= row.at

\* Overwrites whatever the destination holds.
RepairSplit_Bug(moves) ==
    LET dest == UNION {DOMAIN m.rows : m \in moves}
        offered(id) == {m.rows[id] : m \in {n \in moves : id \in DOMAIN n.rows}}
        retired == {m.old : m \in moves}
    IN  progress' = [id \in (DOMAIN progress \cup dest) \ retired |->
                        IF id \in dest THEN Newest(offered(id)) ELSE progress[id]]

\* A destination that is as new as what is offered keeps its row.
RepairSplit(moves) ==
    LET dest == UNION {DOMAIN m.rows : m \in moves}
        offered(id) == {m.rows[id] : m \in {n \in moves : id \in DOMAIN n.rows}}
        local(id) == {progress[i] : i \in {id} \cap DOMAIN progress}
        retired == {m.old : m \in moves}
    IN  progress' = [id \in (DOMAIN progress \cup dest) \ retired |->
                        IF id \in dest THEN Newest(offered(id) \cup local(id))
                        ELSE progress[id]]

(***************************************************************************)
(* carryProgressAcrossRelocations and PlanRelocations.                     *)
(***************************************************************************)
CarryMove(m) ==
    LET row == progress[m[1]] IN
    [old |-> m[1],
     rows |-> [id \in {m[2]} |-> [row EXCEPT !.root = id[1], !.path = id[2]]]]

CarryMoves ==
    {CarryMove(m) : m \in {n \in moved :
        /\ n[1] \in DOMAIN progress
        /\ progress[n[1]].count = PageCount(n[2])
        /\ progress[n[1]].page \in 1..PageCount(n[2])}}

(***************************************************************************)
(* repairSplitProgress and repair.Plan.                                    *)
(***************************************************************************)
Orphans == DOMAIN progress \ Resolves
BooksAt(loc) == {id \in Resolves : At(id) = loc}

\* candidatesFor: the path as written, the path without its tag in every root,
\* and the path as written in the others.
Candidates(o) ==
    LET row == progress[o]
        bare == Untagged[row.path]
    IN  {<<row.root, row.path>>}
        \cup {<<r, bare>> : r \in IF bare # row.path THEN RootSet ELSE {}}
        \cup {<<r, row.path>> : r \in RootSet}

Hits(o) == {loc \in Candidates(o) : BooksAt(loc) # {}}

\* The volumes at a location partition the pages 1..total in reading order.
PagesBefore(id) == Pages({v \in BooksAt(At(id)) : v[3] < id[3]})

\* Local pages counted from 0.
RepairRow_Bug(o, id) ==
    LET row == progress[o]
        local == row.page - PagesBefore(id) - 1
        done == row.done \/ local >= PageCount(id)
    IN  [row EXCEPT !.page = IF done THEN PageCount(id) ELSE local,
                    !.count = PageCount(id), !.done = done]

\* A volume the reader has passed through is finished.  The row keeps the root
\* and the path it was found under.
RepairRow(o, id) ==
    LET row == progress[o]
        local == row.page - PagesBefore(id)
        done == row.done \/ local >= PageCount(id)
    IN  [row EXCEPT !.page = IF done THEN PageCount(id) ELSE local,
                    !.count = PageCount(id), !.done = done]

\* Without the test that the destination holds as many pages.
Repairable_Bug(o) ==
    LET row == progress[o] IN
    /\ o = <<row.root, row.path, 0>>
    /\ Cardinality(Hits(o)) = 1
    /\ \A loc \in Hits(o) : row.page <= Pages(BooksAt(loc))

\* The gates of planOne: the row named a whole file, one candidate has books, and
\* they hold as many pages as the row was written against.
Repairable(o) ==
    LET row == progress[o] IN
    /\ o = <<row.root, row.path, 0>>
    /\ Cardinality(Hits(o)) = 1
    /\ \A loc \in Hits(o) : LET total == Pages(BooksAt(loc)) IN
                            row.count = total /\ row.page <= total

RepairMove(o) ==
    LET dest == UNION {BooksAt(loc) : loc \in Hits(o)}
        reached == {id \in dest : progress[o].done \/ PagesBefore(id) < progress[o].page}
    IN  [old |-> o, rows |-> [id \in reached |-> RepairRow(o, id)]]

RepairMoves == {RepairMove(o) : o \in {p \in Orphans : Repairable(p)}}

(***************************************************************************)
(* The AfterScan hook.  It runs on the scan's context, so every step of a  *)
(* cancelled run fails, as every step may when user.db does.               *)
(***************************************************************************)
HookFails == cancelled \/ "userdb" \in Events

Carry ==
    /\ phase = "carry"
    /\ \/ ~cancelled /\ RepairSplit(CarryMoves)
       \/ HookFails /\ UNCHANGED progress
    /\ phase' = "repair"
    /\ UNCHANGED <<world, books, stamped, reads, opened, request, cancelled, rootErr,
                   swept, moved>>

Repair ==
    /\ phase = "repair"
    /\ \/ ~cancelled /\ RepairSplit(RepairMoves)
       \/ HookFails /\ UNCHANGED progress
    /\ phase' = "purge"
    /\ UNCHANGED <<world, books, stamped, reads, opened, request, cancelled, rootErr,
                   swept, moved>>

\* Every orphan goes, whichever root it was read in.
Vanished_Bug == Orphans

Vanished == {id \in Orphans : progress[id].root \in swept}

\* purgeVanishedProgress.  Result.Cancelled, which it looks at, is not set yet.
Purge ==
    /\ phase = "purge"
    /\ \/ ~cancelled /\ progress' = [id \in DOMAIN progress \ Vanished |-> progress[id]]
       \/ HookFails /\ UNCHANGED progress
    /\ phase' = "idle"
    /\ NewRun
    /\ UNCHANGED <<world, books, reads, opened, request>>

(***************************************************************************)
(* Stopping and starting.  index.db and user.db survive, the Result does   *)
(* not.  A repair runs before the server serves; there is nothing to carry *)
(* and nothing may be purged.                                              *)
(***************************************************************************)
Crash ==
    /\ "crash" \in Events
    /\ phase' = "startup"
    /\ queue' = {} /\ full' = FALSE /\ targeted' = FALSE
    /\ NewRun
    /\ UNCHANGED <<world, books, reader>>

\* --rebuild-index starts with an empty index, and scans every root.
Rebuild ==
    /\ "rebuild" \in Events /\ phase = "idle"
    /\ books' = [id \in {} |-> None]
    /\ full' = TRUE /\ targeted' = FALSE /\ queue' = RootSet
    /\ NewRun
    /\ phase' = "walk"
    /\ UNCHANGED <<world, reader>>

Startup ==
    /\ phase = "startup"
    /\ RepairSplit(RepairMoves) \/ ("userdb" \in Events /\ UNCHANGED progress)
    /\ phase' = "idle"
    /\ UNCHANGED <<world, books, stamped, reads, opened, request, cancelled, rootErr,
                   swept, moved>>

-----------------------------------------------------------------------------
Next ==
    \/ Move \/ Delete \/ Unplug \/ Deny \/ Upgrade \/ Read
    \/ Begin \/ WalkRoot \/ WalkCancelled \/ RootsDone \/ SweepRoot \/ Cancel
    \/ Carry \/ Repair \/ Purge
    \/ Crash \/ Rebuild \/ Startup

Spec == Init /\ [][Next]_vars

-----------------------------------------------------------------------------
(***************************************************************************)
(* Properties.                                                             *)
(***************************************************************************)
\* Between scans, a file somebody has read and the index still lists has progress
\* under an id that lists it: no rename, sweep, repair or purge has cost the
\* reader their place (app.carryProgressAcrossRelocations).  Files that are listed
\* as volumes are excepted: those of one file share their content version, so a
\* rename of them is ambiguous and is not carried.
HistoryFollows ==
    phase = "idle" /\ ~upgraded =>
        \A f \in Files :
            f \in opened /\ (\E id \in Resolves : books[id] = f) =>
                \E id \in Resolves \cap DOMAIN progress : books[id] = f

\* A row that resolves to a book holds the place of a reader of that very file:
\* "attaching page 4,055 of somebody's reading to the wrong book is worse than
\* leaving a row orphaned" (repair.leadingTag).
PlaceIsOfTheFile ==
    \A id \in Resolves \cap DOMAIN progress : progress[id].of = books[id]

Depth(rows, S) == SumFunctionOnSet([id \in S |-> rows[id].page], S)

\* Other orphans a repair leads to the same books.  The later place wins each of them
\* (KeepsNewest), so the earlier is not there in full.
Rivals(o) == {other \in Orphans \ {o} : Repairable(other) /\ Hits(other) = Hits(o)}

\* The volumes a repair spreads a place over add up to the page it was at: the
\* shelf reads the same percentage before and after a file is split (repair.Plan).
\* A place that meets rows or rivals there is left out.
KeepsPlace ==
    \A o \in DOMAIN progress \ DOMAIN progress' :
        phase \in {"repair", "startup"} /\ ~progress[o].done =>
            LET dest == UNION {BooksAt(loc) : loc \in Hits(o)}
                written == {id \in dest \cap DOMAIN progress' : progress'[id].at = progress[o].at}
            IN  dest \cap DOMAIN progress = {} /\ Rivals(o) = {} =>
                    Depth(progress', written) = progress[o].page

RepairsAreExact == [][KeepsPlace]_vars

\* The place a reader left last is never overwritten by an older one, whatever
\* is carried or repaired onto the book meanwhile.
KeepsNewest ==
    \A id \in DOMAIN progress \cap DOMAIN progress' : progress'[id].at >= progress[id].at

\* What a walk of the location does not find.
Hidden(loc) == disk[loc] = None \/ loc \in unreadable

\* A row of reading history that is purged is of a file that the walk of its root
\* did not find, or lists as its volumes now, whatever failed, crashed, was
\* cancelled, unplugged or left out on the way.  A purge "cannot be undone from
\* inside the product" (app.purgeVanishedProgress).  A row that a repair has moved
\* from another root is excepted: SkippedRootKeepsRows.
PurgesHidden ==
    \A id \in DOMAIN progress \ DOMAIN progress' :
        phase = "purge" /\ progress[id].root = id[1] =>
            Hidden(At(id)) \/ (upgraded /\ \E k \in Resolves : At(k) = At(id))

\* "A root whose scan was skipped keeps every row it has" (the comment on
\* app.purgeVanishedProgress).  It does not keep a row that a repair has moved into
\* it: the row still names the root it was read in, and that root was walked.
SkippedRootKeepsRows ==
    [][\A id \in DOMAIN progress \ DOMAIN progress' :
          phase = "purge" => id[1] \in swept]_vars

\* It is not always of a file that is not there, which is what the comment on
\* index.Vanished says: "a row still unresolved after that walk is one the
\* filesystem was asked about and did not have".
PurgedWasAbsent ==
    [][\A id \in DOMAIN progress \ DOMAIN progress' :
          phase = "purge" => disk[At(id)] = None]_vars

\* A row that is purged has been "offered every explanation the system has"
\* (app.purgeVanishedProgress): no book of the index is the file it was read in.
\* A carry that fails and a move to a root yet to be walked break it.
PurgedIsNowhere ==
    [][\A id \in DOMAIN progress \ DOMAIN progress' :
          phase = "purge" => \A other \in Resolves : books[other] # progress[id].of]_vars

\* An orphan the repair declines as "not-a-container" was a volume inside a file
\* (repair.SkipNotAContainer).  A row a repair has moved before keeps its first
\* root and path, so it no longer matches its own id either.
DeclinedWasAVolume ==
    phase = "repair" =>
        \A o \in Orphans : o # <<progress[o].root, progress[o].path, 0>> => o[3] # 0

\* A row of the index that a sweep deletes is of a file that the walk did not find,
\* or that is listed as its volumes now.
SweepsHidden ==
    \A id \in Resolves \ DOMAIN books' :
        phase = "sweep" => Hidden(At(id)) \/ \E k \in stamped : At(k) = At(id)

\* Whatever fails: reading history and rows of the index are deleted only for files
\* that a walk did not find, and the place a reader left last stays.
HistoryIsKept == [][PurgesHidden /\ SweepsHidden /\ KeepsNewest]_vars
=============================================================================
