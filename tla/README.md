# shelf, in TLA+

`shelf` (the Go server under `internal/` and its React client under `web/`) serves a collection of
comics that it must never write to. It indexes the files it finds into `index.db`, keeps what a
reader did in `user.db`, and streams pages out of archives. This directory holds TLA+ models of the
parts where goroutines, failures and the order of steps decide whether that works, configurations
that check them with TLC, and proofs that TLAPS checks.

Run everything from this directory:

    tlc -config PoolSafety.cfg MCOpenPool        # one run; the others are in the table below
    tlapm OpenPoolProofs.tla                     # the proofs of one module; section 4 lists them

Names in the modules are the code's where TLA+ allows it. `PROJECT.json` maps every definition to
the lines it stands for.

## 1. The system

Two databases and a file system are shared by everything else. `index.db` can be thrown away and
rebuilt from the files; `user.db` can not. Book and series ids are hashes of a root's name and a
relative path (`internal/ids`), so a file that is renamed becomes another book, which is why so much
of the code is about carrying progress across.

| Component | State it keeps | Operations | Works with | What is hard |
|---|---|---|---|---|
| `openpool` | open descriptors: map, LRU list, reference counts, `live`, `closed` | `Acquire`, `Release`, `Invalidate`, `Close` | borrowed by `source`; opened by `source.Roots`; closed by `app` | the lock is dropped around open, stat and close; a descriptor number is reused at once |
| `source` | the opened roots; nothing per book | `Open`, `List`, `Stale` for archives, volumes in archives, directories, PDFs | the pool, `pdfium`, `archive/*` | a pooled descriptor may be of the file that was replaced |
| `scanner`, control | permit (`running`), `closed`, the run's cancel and done, wait group, published `ScanStatus` | `Start`, `Run`, `Cancel`, `Wait`, `Close` | `httpapi`, `app` | the status and the permit have different locks; `Run` is outside the wait group |
| `scanner`, one root | two channels, page budget, aborted/cancelled contexts, results per series | walk, index, deliver, write, `decideSweep` | `index.Writer`, `source`, `thumbs` through a cover queue | three kinds of goroutine stop for five reasons, and a wrong sweep deletes rows |
| `scanner`, rules | none | classification, exclusion, incremental rule, cover ladder | - | pure |
| `scanner`, first sightings | a batch per root, a tally per run | add, flush, complete the bootstrap | `userdata` | not in the index transaction |
| `index` | `index.db`; the write permit; an open batch | `Writer` (rows, stamps, `SweepRoot`), reads, `UpdateDims`, `UpsertRoot`, `DeleteRoot`, orphan and vanished queries | `scanner`, `thumbs`, `httpapi`, `app` | batches end anywhere; relocations are only visible during a sweep |
| `userdata` | `user.db`: progress, preferences, settings, first sightings | `PutProgress`, `RepairSplit`, `DeleteProgress`, key/value puts, export, import | `httpapi`, `app`, `scanner` | a repair is planned outside the transaction that applies it |
| `repair` | none | `Plan`, `PlanRelocations` | called by `app` with rows of both databases | page arithmetic, and when not to guess |
| `app` | the services, in order | `New` (startup repair, `--rebuild-index`), `Run`, `Close`, the AfterScan hook | everything | the hook runs on a context that may be cancelled |
| `thumbs` | cover and page queues, flights, negative cache, decode semaphore, pending dimensions | `Get`, `Generate`, `Enqueue`, `Purge`, `EnsureDims`, `Close` | `index`, `source` | single flight on the leader's context; a purge under a publish |
| `pdfium` | lazy runtime, instance count, reaper | `Open`, `Render`, `Close` | `source` | teardown when idle |
| `auth` | token buckets | login, verify | `httpapi` | the cookie is stateless; only the bucket has state |
| `config` | the YAML file | load, validate, `AddRoot`, `RemoveRoot` | `app`, `httpapi` | replaces the file atomically, keeps a backup |
| `httpapi` | added and removed roots, digest of the file, rescan cooldowns | one handler per route | all services | adding and removing roots in a running server |
| `archive/*` | none | directories of ZIP, HV3, RAR4, archives in archives | `source` | binary formats |
| `natsort`, `hangul`, `kenc`, `ids` | none | order, initials, legacy encodings, ids | `scanner`, `index` | pure |
| `cmd/shelf`, `verify` | none | command line, offline audit | - | sequential |
| `web` | query cache, viewer and UI stores, settings writer, progress buffer | screens; debounced writes; polling | the HTTP API | a write buffer with retries and a `pagehide` race; a poll that may miss a run |

How they interact: `app.New` opens `user.db`, then `index.db`, reattaches orphaned progress, and
builds roots, pool, sources, thumbnails, scanner and HTTP in that order. `httpapi` handlers call
the scanner (`Start`, `Cancel`), the two databases, thumbnails and sources concurrently. A scan walks
the roots in order; inside a root a walker feeds workers, workers feed one writer, and the writer owns
the only transaction on `index.db`; the sweep ends the root. After the last root the scanner calls back
into `app`, which moves progress in `user.db` by what the scan saw. `app.Close` closes scanner,
thumbnails, PDF, pool, roots, index and user data, in that order, and relies on each `Close` to return
only when nothing of it runs.

What makes each component correct:

- *openpool*: a stream never loses its descriptor; none leaks; each is closed once; `Stats.Open` is
  the number held; the pool is over its size only while all of it is in use; `Close` drains it.
- *source*: a listing is recorded under the (size, mtime) of the file it was read from.
- *scanner control*: at most one run; the status is that run's; `Close` returns, and then nothing runs.
- *scanner pipeline*: it ends; its memory is bounded; a root is swept only after all of it was written.
- *index*: a batch is all or nothing; a sweep deletes what the walk did not find and no more.
- *reading history* (app, repair, userdata, index, scanner together): progress follows the file, is
  never attached to another one, is never replaced by an older place, and is deleted only for files
  that are gone.
- *thumbs*: one decode per key at a time; everybody who waits is answered; a purge loses no reader.
- *archive readers*: a container is read for what is in it, a damaged one never passes for a complete one.
- *scanner rules*: every page is in one book, and an incremental scan ends where a full one would.
- *first sightings*: what was there at the first scan is never new, and a date once written stays.
- *userdata*: the later place wins, a reset leaves nothing, and a changed book is announced until the
  reader acknowledges it.
- *dimensions*: a book that counts as measured is, and an opened book gets measured.
- *pdfium*: the runtime is not torn down under a document. *auth*: at most the burst in a window.
- *roots API*: file, index, scanner and served roots agree after every request.
- *web settings writer*: the last value chosen is the one the server ends with.

## 2. Modules

| Module | Models | Lines of the code |
|---|---|---|
| `OpenPool` | the pool and its two kinds of borrower | `openpool/pool.go`, `source/containersource.go` |
| `ScannerControl` | permit, status, `Start`, `Run`, `Cancel`, `Close` | `scanner/scanner.go` 343-620, `progress.go` |
| `ScanPipeline` | one root's pass | `scanner/scanner.go` 785-1893, `budget.go`, `gen.go`, `index/write.go` 76-194 |
| `ReadingHistory` | scans, sweeps, relocations, the AfterScan hook, the reader | `scanner`, `index/write.go` 483-634, `index/orphans.go`, `repair`, `userdata`, `app/app.go` |
| `Thumbnails` | requests, queues, workers, single flight, publishing, purge, `Close` | `thumbs/worker.go`, `cache.go`, `generate.go` 52-358, `thumbs.go` 504-650, `usage.go` 87-127 |
| `PageDims` | measuring pages beside scans that replace them | `thumbs/dims.go`, `index/pages.go`, `index/write.go` 76-130, 230-373 |
| `PdfRuntime` | what the PDF renderer promises | |
| `PdfPool` | the renderer: lazy runtime, instances, reaper, `Close` | `pdfium/pool.go`, `render.go`, `source/pdfsource.go` |
| `ZipIndex` | the ZIP directory, ZIP64, salvage | `archive/zipidx` |
| `Extents` | blocks that lie one after another, as the packers write them | |
| `HvIndex` | HV3 headers, records, masked pages | `archive/hv3` |
| `RarIndex` | RAR4 blocks, stored and packed pages | `archive/rar4` |
| `NestedReader` | random access into an archive in an archive | `archive/nested` |
| `Paths` | the order of paths, and lists made in an order | `natsort/natsort.go`, `scanner/collect.go` 142-160 |
| `NatOrder` | natural order and its stored key | `natsort` |
| `Contents` | what becomes of one container: a book, chapters, volumes | `source/containersource.go`, `chapters.go`, `nestedsource.go`, `exclude.go`, `scanner/scanner.go` 1196-1480 |
| `LibraryScan` | one series directory, its rows, the incremental rule, covers | `scanner/classify.go`, `collect.go`, `incremental.go`, `cover.go`, `scanner.go` |
| `FirstSeen` | first sightings and their bootstrap | `scanner/seen.go`, `userdata/series_seen.go` |
| `RootsAdmin` | POST, DELETE and GET of roots in a running server, scans, hand edits, restarts | `httpapi/roots.go`, `browse.go`, `scan.go`, `config/validate.go`, `rootsfile.go`, `app/app.go` |
| `RootsFile` | the splice of the file's text | `config/rootsfile.go` |
| `UserData` | progress, preferences, export and import | `userdata/progress.go`, `prefs.go`, `export.go`, `httpapi/progress.go` |
| `OpenPoolProofs`, `ScanPipelineProofs`, `ReadingHistoryProofs`, `ThumbnailsProofs` | theorems about the module of that name | |
| `ScannerProofs` | theorems about `ScannerControl`, `LibraryScan`, `NatOrder` and `Contents` | |
| `PageSourceProofs` | theorems about `PageDims`, `PdfPool`, `ZipIndex`, `HvIndex` and `RarIndex` | |
| `ServicesProofs` | theorems about `FirstSeen`, `RootsAdmin`, `RootsFile`, `UserData` and `NestedReader` | |
| `InductionTheorems` | lemmas on induction, recursive functions and sums over finite sets | |
| `MC*` | constants for TLC, and compositions | |

A module holds its state as VARIABLES with a comment each, `TypeOK` where its runs use one, `Init`, one
action per step, `Next`, the specification, and the properties. An operator named `X_Bug` (or `X_` and what
it gets wrong) is `X` with a plausible mistake; no specification uses it. Putting it in place of `X` breaks a
property, which is how we know that the property says something about the code.

`MCReaders`, `MCServices`, `MCBackground` and `MCHistory` check several specifications in one run. The
modules they EXTEND or INSTANCE share no state, so a product of them would show nothing that they do not show
alone: a selector (`reader`, `service`, `part`, `library`) is chosen in the initial state, the module it names
behaves, and the variables of the others rest. The constant `Readers` or `Services` says which modules a
configuration explores. A module that a theorem is about is EXTENDed, so that the run checks the property
the theorem names: its definitions then carry a prefix where two modules would clash (`pdInit`, `seenNext`,
`rootsSpec`, `fileNext`, `nestInit`), and where it rests it stays at its initial state, of which its properties hold.

### OpenPool

A caller is a goroutine that runs `Acquire` to `Release`. Each critical section of `Pool.mu` is one
action, and what the code does between them is another: `OpenFile` (open and fstat), `Discard`,
`CloseOwn`, `CloseDrained` (close). `Publish` includes the eviction its code ends with. The LRU list is
the relation `older`, of which eviction takes the oldest idle handles. A page reader may skip the
version check; a lister runs `acquireMatching`: mismatch, release, invalidate, look again. Files are
replaced at any time. Descriptors are reused as soon as they are closed, so a use after close would
read another container, which `BorrowedStaysOpen` excludes.

### ScannerControl

A request is one call of `Start` or `Run` and the scan it launches. `Scanner.mu` makes `Acquire`, the
second half of `release` and the reads of `Close` atomic. `Cancel` is two actions although it holds the
lock, because `progress` has a lock of its own and a run publishes its phase without `Scanner.mu`.

### ScanPipeline

The walker, each worker and the writer are processes; `bookCh` and `resCh` are bounded sequences and
`held` is the page budget. `cancelled` is the run's context, `aborted` the pipeline's own, which a
failed write sets. Rows are facts, `tx` those in the open transaction and `durable` those committed; a
batch may end after any row, as its age decides (`maybeCommit`), and a failed statement rolls the batch
back. Everything from `emit` to `sweepRoot` is there, including the drain after a failure.

### ReadingHistory

A location is a root and a path, a book id is a location and a volume number (0 for the whole file),
and a file is its own content version. A scan walks its roots one at a time: `WalkRoot` indexes what
it finds, `SweepRoot` decides, observes relocations (`Relocations`), and deletes. The roots that a run has yet to
finish are a set, `queue`, and `Due` is the first of them in the order of the configuration (a request that names
roots walks them in its own order; no property of such a run depends on it). `Carry`, `Repair` and
`Purge` are the hook's steps, each of which may fail when the context is cancelled or `user.db` fails.
`Startup` is the repair before the server serves. `Read` is `PUT /api/books/{id}/progress`. The world
moves and deletes files, unplugs roots, makes directories unreadable; `Events` says which of these a
run of the model allows. Each row remembers the file it was written for (`of`), which the code does not
have, so that the properties can speak of it.

### Thumbnails

Workers and callers are processes; a caller asks with `Get` (a page), `Enqueue` (a cover) or `Generate`
(which waits). A critical section of `Service.mu` is one action. A flight is the goroutine that leads it;
`outcome` of a follower is what it was told. `cond` is modelled as it works: `Signal` wakes one of the
workers that are asleep, `Broadcast` all of them, and a worker that is woken looks at the queues again. A
picture is the version of the source it was decoded from, so a thumbnail that is out of date can be told
from one that is not; `Broken` are the versions that no decoder reads. `intact` are the publishers whose
directory is still there: `Strike` removes a fan-out directory, as a purge or `rm -rf` does, and a purge
ends with `ForgetNegatives`. `Expire` is the ten minutes of a verdict. `owed`, which the code does not
have, is the set of keys that were answered with `ErrQueued` and not dealt with since. The semaphore is
its count `held`; the width of a thumbnail and its encoding are left out, as a key is a source and a
content version.

### PageDims

A reader's book detail queues a book (`OpenBook`, `EnsureDims`); one worker lists its pages, opens it, probes
page after page and saves what it has; thumbnails hand in what they measured (`RecordDims`), which waits in
`pending` until the flusher writes it. A scan takes the index's write permit, writes the book's row and its
pages in separate steps and commits or rolls back. A width is the version of the file it was measured on.
`dims_state` is derived in each of the three transactions, from what that transaction sees.

### PdfPool and PdfRuntime

A caller counts itself (`Instance`) under the mutex before it waits for an instance, and uncounts when the
document is closed or the instance could not be had. Each runtime has a number and a reaper of its own, whose
tick tears the runtime down when nobody is counted and the last use is old. `Close` is four steps: the look at
`closed`, what happens under the lock, `close(stop)`, and the wait for the reaper. `PdfRuntime` says it in one
screen: a runtime that is up while somebody uses it, rests after, and is shut for good. `PdfPool` implements it
under the mapping `serving <- pool # 0, users <- Counted, shut <- closed`.

### The archive readers

A container is a sequence of cells: a header or record is one cell, a payload is as many cells as it is long,
and offsets, sizes and windows are positions in it. So the arithmetic of the readers is kept and their bytes are
not. `ZipIndex` builds a container as a packer does (a stub before it, ZIP64 or not, a comment after), lets an
accident cut it, zero it from some place on, put a hole in it or falsify a size, and then reads it as
`ReadCentralDirectory` does. The 16-bit count wraps at `Wrap`, and a 32-bit slot that holds `Saturated` refers to the 64-bit
record. The loop of `salvageLocalHeaders` is a recursive function on its steps: `salvageStep` is one pass of it, with the offset, the
payload that is trusted last and the place up to which was searched. `HvIndex` has the header window, the tag search,
the mode and the mask of a page by its own position; the container may be cut or packed again after it was
indexed. `RarIndex` walks blocks, one step of a recursive function on positions for each; a size has a high and a low half, and `Low`
is where the low one wraps. What the packers write is given position by position: `BlockAt` of `Extents` is where
a block begins, `BlockOf` the block that has the cell at an offset.
`NestedReader` is the one with state: stream position, tail, restart. Each call holds the mutex and is one step.
A byte is its own offset, so that an answer from elsewhere can be told.

### NatOrder, Contents, LibraryScan

`NatOrder` types every pair of names over an alphabet with a digit zero and one, two ASCII letters (one of them
small), a punctuation mark, a full-width digit and a byte that no encoding explains; `Compare` must agree with
the order of `Key`. `Contents` packs a container of pages, cover, nested archives, encrypted entries, foreign formats
and junk, in directories; `ReadIndex` says how the reading of it can end, with what came before: at a damage, and in a RAR or HV3 at a password or a
method that the reader refuses (`rar4.go` answers these with the entries read so far). `indexContainer` is `indexUnit` of a file, with `expandContainer` and `expandChapters`.
`LibraryScan` edits a series directory (files put, rewritten, deleted; a build with PDF support or without; an index of
an older build; pages measured) and scans it, incrementally or fully; the reads of a scan may fail.

The recursions of the code are written as what they compute. `NatOrder` says of a chunk where it ends, and walks the chunks by
a recursive function on positions. A sort is `InOrder` of `Paths`: the k-th of a set is the one with k - 1 before
it. `collectBooks` walks down the directories and joins what they hold; here a directory's own images are a book by what
is anywhere below it (`Beside`), which is what the walk's return value tells the directory above.

### RootsAdmin, RootsFile

`RootsAdmin` has the configuration file and its backup, what the process holds of it (the list it started with,
`added`, `removed`, the digest, open handles, the scanner's table), the rows of the index, one request in
progress as a sequence of steps, one scan, hand edits and restarts. The handler's mutex lets in one request; a
scan and the operator's editor do not ask for it. `past` remembers what the properties must know and the code
does not: removals that a scan asked for earlier may not have seen (`late`), answered removals (`gone`), an edit by
hand between the two reads of a request (`raced`), and a served list that moved away from a baseline which stayed
where it was, because the server wrote over a file it had not adopted (`adrift`). `RootsFile` has the text: lines of a kind and an
indentation, and the splice by the line numbers that a YAML parser reports (which is external). `Parses` has the files that parser accepts with a block list
of mappings: comments and empty lines anywhere, also between a bare dash and its first key and inside a value, and in a `|` a line that
begins with `#` is text. `spanOf` goes wrong on some of these, and `Tidy` says of which entries it does not: the dash is at most
`dashSearchDepth` lines above the first key, and no empty line and no `#` breaks the last value.

### FirstSeen, UserData

`FirstSeen` runs scans root by root; a root's batch is flushed after its index rows, the flush may fail, the run
may be cancelled, and the process may end between two steps. `disk` has the age of each series' files: in
the bootstrap a series is dated by them, later by the clock. `UserData` has a table each of progress and preferences, the
length of each book, and a document that was exported and perhaps edited. A PUT is two steps, the
read of the book and the write; the patch of preferences is too.

`ScanPipeline` and `ReadingHistory` meet in `decideSweep`: the first shows that a sweep follows a
complete walk, the second takes the walk as one step and shows what sweeps do to reading history. `Contents`
and `LibraryScan` are what one worker of `ScanPipeline` does with one unit. `ListPages` and `UpdateDims` of
`PageDims` and the Writer of `ScanPipeline` meet at the write permit of the index.

## 3. What the runs show

All passing runs explore the whole state space of their instance.

| Run | Instance | Properties | About |
|---|---|---|---|
| `PoolSafety` | 2 callers, 2 containers, versions 1-2, pool of 1, 5 descriptors; symmetry and a view | `BorrowedStaysOpen`, `PoolConsistent`, `ListingMatchesRecord` | descriptors and listings, under replacement, eviction and shutdown |
| `PoolDrain` | 2 callers, 3 containers, pool of 1, 3 descriptors, fair; a view | `CapacityKept`, `CloseDrainsAll` | the pool at its limit; a closed pool ends empty |
| `Control` | 2 requests of either kind, 2 closers, any number of `Cancel`s, fair | `StatusIsOfTheRun`, `CloseMeansQuiet`, `NothingIsStuck` | the life of scans |
| `Pipeline` | 3 series (a container and a book, none, one of 4 pages), budget 3, 2 workers, channels of 1, fair | `SweepSeesTheWholeRoot`, `BudgetBalances`, `PassEnds` | one root's pass |
| `History` | moving: 2 roots, 3 paths, one with a tag, a file of two chapters and a file of one, 2 page turns, an upgrade that splits files; failing: 2 roots, 2 paths, 1 file, every kind of failure | `HistoryFollows`, `PlaceIsOfTheFile`, `RepairsAreExact`, `HistoryIsKept` | progress follows its file, and no other; what may be deleted |
| `Thumbs` | 2 workers, 1 caller, 1 page in versions 1-2, the second broken, 2 permits, page queue of 1; symmetry and a view | `OneFlightPerKey`, `QueuesAgree`, `PicturesAreCurrent`, `NobodySleepsOnWork` | queues, flights and what is served, under replacement, cancellation and shutdown |
| `ThumbsFair` | 1 worker, 1 caller, 1 page in versions 1-2, 1 permit, 2 deletions, 2 attempts at publishing, fair; a view | `EverybodyReturns` | everybody who waits is answered |
| `Background` | renderer: 3 callers, 1 instance, 2 runtimes, 2 closers; dimensions: 1 book of up to 3 pages, one unreadable, versions 1-2, 2 scans, passes of 1; fair | `RuntimeIsHeld`, `CloseReturns`, `RunsAsPromised`, `DimsAgree`, `OpenedIsMeasured` | the PDF renderer implements its abstract runtime; measuring beside scans |
| `Readers` | every ZIP of up to 3 entries, HV3 of 2, RAR of 2, inner archives of up to 6 bytes, names of up to 3 code points, containers up to weight 4, series after 2 edits | `ZipIsRead`, `HvIsRead`, `RarIsRead`, `NestedIsTrue`, `SortKeyAgrees`, `ContainerIsRead`, `IncrementalIsFull`, `UnchangedIsKept` | how a collection is read |
| `Services` | 3 directories, 2 requests, 1 hand edit, 1 scan, 2 starts; files of up to 7 lines; 3 series in 2 roots; 1 book of up to 2 pages, 1 reader, 3 seconds | `RootsTruthful`, `WritesStartable`, `SplicesAreLocal`, `OldIsNotNew`, `SightingsLast`, `DevicesAgree`, `HintLasts` | what the server and its operator change |
| `PipelineHalfRead` | as `Pipeline` | `CancelledSeriesNotWritten` is violated | finding 1 |
| `RootsGhost` | `Services` with the roots alone | `DeletedStaysGone` is violated | finding 2 |

Some properties are conjunctions of parts that are stated in the component's module, each with its comment:
`PoolConsistent` of `TypeOK`, `RefsCountBorrowers`, `PublishedIsReachable`, `NoDescriptorLeak`, `ClosedByOne`
and `ClosedPublishesNothing`; `CapacityKept` of `LiveCountsHeld`, `CapacityBound` and `OverflowsOnlyInUse`;
`NothingIsStuck` of `CloseReturns` and `PermitReturns`; `BudgetBalances` of `TypeOK`, `BudgetIsInFlight` and
`BudgetBounded`; `QueuesAgree` of `TypeOK`, `QueuedIsQueued` and `IdleMeansDone`; `PicturesAreCurrent` of
`VersionedIsCurrent` and `VerdictIsOfThePicture`; `EverybodyReturns` of `RequestsReturn` and `CloseReturns`;
`HistoryIsKept` of `PurgesHidden`, `SweepsHidden` and `KeepsNewest`; `NestedIsTrue` of `nestTypeOK`, `AnswersAreTrue` and
`StreamIsWhereItIs`; `RuntimeIsHeld` of `BorrowersKeepRuntime` and `ReaperIsOwned`; `HvIsRead` of `DirectoryIsFound` and
`NeverServesNoise`; `RarIsRead` of `WalkIsExact`, `CutKeepsThePrefix` and `PageIsItsOwn`; `ContainerIsRead` of `EveryPageOnce` and `VerdictIsTrue`; `SplicesAreLocal` of `RemovesOnlyItsOwn` and `AddThenRemove`; those of the `MC` modules of what their
definitions name.

Bounds, and why they are enough:

- *PoolSafety*. With a pool of one, two containers already evict each other, two callers race on one
  path, and a handle that is evicted while borrowed needs a second container. Five descriptors are more
  than two callers can hold, lend, and have in flight at once, so `OpenFile` never waits. Two versions
  give a stale handle; a third would add nothing that `Stale` can see. The view leaves out values that
  are overwritten before they are read.
- *PoolDrain*. Three containers are needed for an insertion to find the pool over its size.
- *Control*. Two requests: one has the permit and one competes. Two closers: the one that closes and the
  one that finds it closed.
- *Pipeline*. One series of two books has a last book; one of none skips the workers; one larger than
  the budget needs its special rule; two workers compete for the budget; channels of one are full as soon
  as there is something in them.
- *History, moving*. Two roots have an order of walking and two files are needed to attach a place to the
  wrong one. The second file has another length, because length is all that the repair can go by when a
  path is taken over. Two page turns are an old place and a newer one.
- *History, failing*. Every event acts on one file's rows. `MaxReads` is 1: a row is there or not.
- *Thumbs*. One page in two versions has two keys, so a queue of one drops, and two workers may meet on a
  key or fly two at once; a caller of `Generate` is a third goroutine in singleflight. Two permits, because
  with one the semaphore alone would keep two goroutines from generating a key. Version 2 is broken, so that
  a verdict and a picture compete for one key. One worker may sleep while the other works, which is where a
  wake-up could be lost. The cache is not deleted here (`MaxStrikes` is 0): `lookup` treats a deleted file
  as one that was never made. The view leaves out what a generation ended with once nothing depends on it.
- *ThumbsFair*. Two keys and one permit, so that a leader waits for the other's. A worker and a caller of
  `Generate` also follow each other. Two deletions are as many as the attempts (the code's five, here two),
  so a publish succeeds at once, succeeds again, or gives up. `FairView` leaves out as much, and
  which picture a file has and what a request was promised; no guard and neither property reads these, so
  two states it identifies enable the same steps and stay identified by them.

- *Background*. Three callers and one instance: one has it, one waits counted, one comes when the reaper has
  ticked. Two runtimes: the one torn down and its successor, whose reaper must not be mistaken for the first. For
  the dimensions one book is enough, because nothing relates two books but the queue; three pages with passes of
  one have a first, a last and an unreadable one; a second version and a second scan replace what is being
  measured or waits. `MaxPending` is 1: the flusher writes what waits in any case.
- *Readers*. Three entries have an entry before, inside and after a damage; a count that wraps at 3 wraps at the
  third. An HV3 window of 5 ends right after the `LIST` chunk of the longest header and shows the first record of a
  shorter one, so that record is checked or cannot be. The low half of a
  RAR size wraps at 2, so sizes 1 and 3 have equal low halves. A tail window of 2 and inner archives of up to 6
  bytes with reads of up to 4: a read before, across and inside the window, and one past the end. Names
  of 3 code points have two chunks of one kind or three of alternating kinds; `CountBase` is 2, so a run of three
  digits needs a count of two items. Directories are a root, two chapters, two
  chapters within one, and `__MACOSX`; the weight 4 is 4 entries at most, where an entry that is no ordinary page counts twice. Two edits and two scans: an edit can hide behind another.
- *Services*. Two requests are an addition and a removal of the same root, or two of either; one hand edit falls
  between their steps; two starts are a restart. Names may collide (`m` and `n` slug to one name) and directories
  may be nested. A base name has up to `MaxSuffix` roots, one for each directory, and the operator adds to a file of
  fewer than `MaxRoots`, so neither is ever in the way. No directory holds our own data or the configuration file and all of them open (`StorageUnder`, `FileUnder`, `Reachable`), so
the gates that refuse such a root stay open here; the theorems hold for any. Seven lines are `roots:` and two entries with a comment, a
blank line or a bare dash between or after them, or a dash three lines above its first key below another entry, or a `|` with an empty line or a `#` in it. Three series, two of one
  root, are a batch of two and one that another root's failure must not touch. A book of one or two pages
  grows and shrinks; three seconds are a place before, at and after an import. There is one client; the other
  device's reading is the document it imports.

`MaxVersion`, `MaxReads`, `MaxStrikes`, `MaxEdits`, `MaxRequests`, `MaxScans`, `MaxStarts`, `MaxRuns`,
`MaxRuntimes`, `MaxPending`, `MaxSuffix`, `MaxRoots`, `SeenClock`, `UserClock` and the sizes above are the only bounds.
`CHECK_DEADLOCK FALSE` is set where the system, or what the bounds leave of it, really stops: all requests made
and all closers returned, the pass over, the service closed, the container read, the clock at its end.

### Fairness

- `OpenPool`: a goroutine inside the pool or with a stream in hand is scheduled; nobody has to ask for
  a page, replace a file or shut down. That a stream ends is the HTTP server's write timeout and the
  client's doing.
- `ScannerControl`: a call that was made runs on, and the roots are finitely many (`ScanRoot` is not
  fair, `RootsDone` is). Two steps are strongly fair: they take `Scanner.mu` against any number of
  `Cancel`s, and Go's `sync.Mutex` hands itself to a waiter that has starved for a millisecond.
- `ScanPipeline`: goroutines are scheduled and reading one book takes a finite time. Nobody has to
  cancel.
- `Thumbnails`: goroutines are scheduled and a read takes a finite time. A step of a goroutine is strongly
  fair because a permit is a place in a channel, which serves its waiters in order: one who waits is not
  passed over for ever. Nobody has to ask, to cancel, to purge or to close.
- `PdfPool`: time passes (`Age`), a reaper's ticker fires, and a `Close` that has begun goes on. Nobody has to open
  or to close a document, so nothing is promised about a caller that waits for an instance.
- `PageDims`: the worker is a goroutine, and a scan that has begun a transaction goes on or rolls back; the permit
  is held for finitely many steps. Nobody has to open a book or to start a scan.
- The other modules have safety and action properties only and no fairness.

### Findings

1. *A container half read* (`PipelineHalfRead`). A cancellation between listing a container and
   expanding it records the container as a plain book, although `scanner.go:842` says that the series
   of a cancelled book is not written. A container of chapters keeps that row in later incremental scans.
2. *A deleted root comes back* (`RootsGhost`). `DELETE /api/roots/{name}` purges the root's rows first, so that they
   are not orphaned in an index from which `App.reconcileRoots` removes nothing (`httpapi/roots.go:619`). But the
   scanner keeps the root in its table until the restart, and every run upserts every root of the table
   (`scanner.go:550`): a scan after the purge writes the row again, and the root is listed for ever.

Other statements of the documentation that the models refute, as configurations that are expected to fail:

| Command | Violated | What it shows |
|---|---|---|
| `tlc -config ControlStuck.cfg MCScannerControl` | `FinishedIsIdle` | A run publishes idle before it releases its permit. A `Cancel` in between publishes cancelling, which stays until the next scan; a web client polls for as long and never refreshes the library. `progress.go:23` says a finished run is idle. |
| `tlc -config HistoryCancelled.cfg MCReadingHistory` | `PurgedIsNowhere` | A carry that fails is logged with "the next scan will try again" (`app.go:414`), but the rows that were evidence are swept. The next scan purges the progress of a file that is there. |
| `tlc -config PoolSecondLook.cfg MCOpenPool` | `SecondMismatchMeansChanged` | A second mismatch in `acquireMatching` does not mean that the file is changing now: a borrower that opened the replaced file earlier may have published it again. The book fails this scan and is read by the next. |
| `tlc -config HistoryUnreadable.cfg MCReadingHistory` | `PurgedWasAbsent` | A sub-directory that cannot be read is a warning, so its books are swept and their history purged, against the comment on `index.Vanished`. |
| `tlc -config ThumbsTwice.cfg MCThumbnails` | `CachedIsNotRegenerated` | A request that missed the cache before a flight landed enters singleflight after it, and decodes again; singleflight does not look in the cache. The comment on coalescing promises exactly one decode for concurrent misses. |

The others have no configuration of their own; a change of one shows them, with the property of the second column in
place of those it lists:

| Change | Violated | What it shows |
|---|---|---|
| `ThumbsTwice.cfg` with `Sources, Loose <- OneCover`, `MaxVersion = 2` | `ChangedSourceMisses` | The key of a cover file in a series directory is the series, the width and an empty content version: a new `cover.jpg` hits the old thumbnail until the cache is purged, under the same ETag. `thumbs.go:13` says that a changed source file produces a different key. |
| `Services.cfg` | `RestoreKeepsPlace` | A place past the length that the reader last acknowledged is exported with the older length and clamped to it by the import (`export.go:209`), although the export is "what makes it portable". |
| `ControlStuck.cfg` | `HookKnowsCancelled` | `Result.Cancelled` is set after the hook that is told to check it (`scanner.go:154`, `540`), so the test in `purgeVanishedProgress` never fires. Its context is cancelled, which has the same effect. |
| `PipelineHalfRead.cfg` | `BookHasItsPages` | A batch may be committed between a book row and its pages, against the comment on `Writer.rollback`. |
| `HistoryCancelled.cfg` with `Start <- Apart`, `Moves <- Onward`, `Events = {}` | `PurgedIsNowhere` | A move to a root that is walked later is not observed, because its new row is not there when the old one is swept. |
| `HistoryUnreadable.cfg` with `Roots <- ThreeRoots`, `Moves <- SamePath`, `Events = {}` | `DeclinedWasAVolume` | A repaired row keeps the orphan's root and path, so the next repair takes it for a volume and declines it. |
| `HistoryUnreadable.cfg` with `Paths = {p}`, `Files = {f}`, `Start <- Alone`, `Moves <- SamePath`, `Events = {"offline", "rebuild"}` | `SkippedRootKeepsRows` | `app.go` says of the purge that "a root whose scan was skipped keeps every row it has". A repaired row still names the root it was read in (`repair/split.go`), and `VanishedProgress` goes by that name: a file is read in A and moves to B, the repair finds it, B is unplugged and the index rebuilt. The scan sweeps A, skips B, and purges the progress of the file in B. |
| `HistoryUnreadable.cfg` with `Start <- AtTwin`, `Events = {"upgrade"}` | `PurgedWasAbsent` | The same path in another root makes a file that is split in place ambiguous: its progress is declined and then purged. |
| `ThumbsTwice.cfg` | `OwnCancellation` | Who follows the flight of a cancelled caller of `Generate` gets its cancellation. No handler calls `Generate`. |
| `ThumbsTwice.cfg` | `UndecodableIsBroken` | A read that fails half way, for a reason that has nothing to do with the picture, is remembered as undecodable for ten minutes (`readCapped`, `generate.go:266`); the comment on `ErrUndecodable` has it that "the source picture cannot be turned into a thumbnail" (`thumbs.go:89`). |
| `Background.cfg` | `StateNeverDrifts` | `dims.go:153` says that `dims_state` can never drift from the page rows. A book that moved without a change gets its row rewritten with the state the scan read before it, so what the worker measured meanwhile is in the pages and not in the state, until a page of the book is measured or read again. |
| `Background.cfg` | `DoneIsMeasured` | `UpsertBook` counts its row and may end the batch (`index/write.go:276`). The worker then measures the old pages under the new row and derives `done` from them; the new pages follow without a size, and `httpapi/books.go:93` has it that "a `done` book is still never queued". |
| `Readers.cfg` with `Dirs <- MCDirsDot` | `ContainerIsRead` | A chapter whose directory is called `.` is a chapter of no page. |
| `Readers.cfg` with `Readers = {"scan"}`, `Places <- MCDeepPlaces`, `BaseName = 0`, `CoverMaxLoose = 0`, `MaxDepth = 0`, `MaxEdits = 3` | `NamesAreRight` | `scanner.go:1826` says of the row of a skipped book that it "is already right". The name of a directory's book ends in `(loose pages)` when other books lie below it (`collect.go:119`), and its fingerprint has its children only: a book that appears two directories further down changes the name and not the fingerprint, and the row keeps the old name until its place in the series moves or the directory changes. |
| `Readers.cfg` with `SameSecond = TRUE` | `IncrementalIsFull` | A file that is rewritten to its old length within the second it was scanned in is not read again; `incremental.go` accepts that. |
| `Services.cfg` with `Services = {"roots"}` | `PickerAgrees` | `browse.go:231` says that the picker and the 400 of POST are the same sentence. A removed root stays in the process's list, so the picker calls its directory a duplicate, which POST accepts. |
| `Services.cfg` with `Services = {"roots"}`, `MaxEdits = 3`, `MaxRequests = 1`, `MaxScans = 0` | `BaselineAlwaysTruthful` | `settings.go:263` says that after a hot change "this process and the file agree again". The operator edits the file, a root is deleted while the server has not adopted that edit, and the operator puts back the file as it was: it equals the baseline, so nothing asks for a restart, and lists a root that the process has removed. |
| `Services.cfg`, `OtherOptionsStay` (`UserData`), two clients, `Options = {"fit", "mode"}` | `OtherOptionsStay` | `prefs.go:24` keeps an absent option as it is. `PutPrefs` reads the row before its transaction, so of two patches at once one option is set back. |
| `Services.cfg` with `Services = {"file"}` | `TakesTheWholeEntry` (`RootsFile`) | A test promises that a removal takes the whole entry and nothing else (`TestRootsFile_removeTakesTheWholeEntryAndNothingElse`). Of a dash three lines above its first key the dash stays, and of a value that an empty line or a `#` breaks the rest stays. |
| `Services.cfg` with `Services = {"file"}` | `AddedIsRead` | Below such an entry `AddRoot` puts the new one in the middle of a value, or as deep as the keys, and the file is not one that the server reads. |
| `Services.cfg` with `Services = {"file"}` | `OthersKeepTheirText` | `RemoveRoot` takes its own lines only. When the entry above ends in a `|`, a deep comment that stood below the removed entry turns into text of that value. |

`Contents` has one more, `VolumesInOrder`: `scanner.go:1357` says that `sort_key` orders the volumes of a container in the
natural order of their names. Volumes get their place in the order of the container's listing, which is whatever the
packer wrote, and the model, which has no sort keys, states the property of that place.

The properties of the run `History` are stated around these. `HistoryFollows` excepts libraries after an upgrade, because
volumes of one file share its (size, mtime) and renaming the file is ambiguous, and the run moves files within a root or
to one that is walked earlier. `PurgesHidden` excepts a row that a repair has moved from another root.

### What would go wrong

`PROJECT.json` names one mistake for each property of each passing run. TLC finds these too, each in place of the
operator before the underscore and under the run's own configuration:

| Property | Mistakes |
|---|---|
| `PoolConsistent` | `ReleaseMismatch_Again`, `Invalidate_KeepsEntry`, `PublishLost_Leak`, `MustCloseAtRelease_First`, `Publish_Unchecked` |
| `CapacityKept` | `CloseOr_Uncounted` |
| `NothingIsStuck` | `BeginFails_Bug` |
| `BudgetBalances` | `WalkSeries_Bug`, `AcquireBudget_Late` |
| `HistoryIsKept` | `Vanished_Bug` |
| `QueuesAgree`, `PicturesAreCurrent`, `EverybodyReturns` | `Rest_Bug`, `Take_Bug`; `KeyOf_Bug`; `CloseMark_Bug` |
| `DimsAgree` | `EnsureDims_Twice`, `Finish_StaysQueued` |
| `ZipIsRead` | `Escalated_All`, `HeaderVerdict_GivesUp` |
| `HvIsRead`, `RarIsRead` | `Backed_AnyTag`; `ParsesFile_Unchecked`, `rarOpenEntry_Stored` |
| `ContainerIsRead` | `inChapter_Loose` |
| `IncrementalIsFull` | `fingerprint_Names`, `fingerprint_Candidates`, `fileUnchanged_AnyStatus`, `fileUnchanged_SizeOnly`, `WriteBook_Stamps` |
| `RootsTruthful`, `SplicesAreLocal` | `Rebase_Always`, `ScannedByDefault_Removed`; `insertAt_Bottom` |
| `SightingsLast`, `DevicesAgree`, `HintLasts` | `Insert_Overwrites`; `Stored_Residue`; `Baseline_AnyLength` |

## 4. What is proved

Each theorem holds for every value of the constants that the module's named assumption allows: any number of
goroutines, files, roots, requests and restarts, not the few of a configuration. The invariants below were checked
by TLC on the runs' instances before they were proved.

| Module | Theorem | States |
|---|---|---|
| `OpenPoolProofs` | `PoolInvariant` | the inductive invariant |
| | `PoolTypeOK` | `TypeOK` |
| | `BorrowedNeverClosed` | `BorrowedStaysOpen` |
| | `RefsExact`, `HitsAreOpen`, `NothingLeaks`, `OneCloser`, `ClosedStaysEmpty` | `RefsCountBorrowers`, `PublishedIsReachable`, `NoDescriptorLeak`, `ClosedByOne`, `ClosedPublishesNothing` |
| | `PoolIsConsistent` | `PoolConsistent`, the conjunction of these and the types |
| | `ListingIsOfItsVersion` | `ListingMatchesRecord` |
| | `CapacityIsKept` | `CapacityKept`: `LiveCountsHeld`, `CapacityBound` and `OverflowsOnlyInUse` after every step |
| `ScannerProofs` | `ControlInvariant`, `ControlTypeOK` | the inductive invariant, `TypeOK` |
| | `OneScanAtATime` | two scans that have not given the permit back are one |
| | `StatusNeverLies` | `StatusIsOfTheRun` |
| | `QuietAfterClose` | `CloseMeansQuiet` |
| | `ScanIsInductive` | the inductive invariant of `LibraryScan`, where no file is rewritten to its length within its second |
| | `IncrementalIsAlwaysFull` | `IncrementalIsFull`, there |
| | `UnchangedIsAlwaysKept` | `UnchangedIsKept`, there |
| | `SortKeyAlwaysAgrees` | `SortKeyAgrees` |
| | `ContainerAlwaysRead` | `ContainerIsRead`, where no directory of the container is called `.` |
| `ScanPipelineProofs` | `PipelineInvariant` | the inductive invariant |
| | `SweepIsSafe` | `SweepSeesTheWholeRoot` |
| | `BudgetIsKept` | `BudgetBalances` |
| | `OneHandAtATime` | a book is in one channel or in one worker's hands, a series with one goroutine, and none is lost |
| `ReadingHistoryProofs` | `HistoryInvariant` | the inductive invariant |
| | `HistoryStaysKept` | `HistoryIsKept` |
| | `RepairsStayExact` | `RepairsAreExact` |
| | `PlacesAreOfTheirFile` | `PlaceIsOfTheFile`, where files have different lengths and no scan is cut short, skips a root or fails |
| | `ProgressFollowsFiles` | `HistoryFollows`, where besides no file is there twice and none moves to a root that is walked later |
| `ThumbnailsProofs` | `ThumbnailsInvariant` | the inductive invariant |
| | `OneFlight` | `OneFlightPerKey` |
| | `DecodesAreBounded` | the permits in use are as many as the goroutines that decode, and never more than there are |
| | `QueuesAlwaysAgree` | `QueuesAgree` |
| | `NoWakeUpIsLost` | `NobodySleepsOnWork` |
| | `PicturesStayCurrent` | `PicturesAreCurrent`, which excepts the verdicts of reads that failed half way |
| `PageSourceProofs` | `SizesAgree` | `DimsAgree`, which excepts a book whose last batch ended between its row and its pages |
| | `QueuedIsAlwaysServed` | `QueuedIsServed` |
| | `PoolInvariant` | the inductive invariant |
| | `NothingTornAway` | `BorrowersKeepRuntime` |
| | `NoReaperIsLost` | `ReaperIsOwned` |
| | `RuntimeIsAlwaysHeld` | `RuntimeIsHeld`, the conjunction of these |
| | `PoolImplementsRuntime` | `Spec => Runtime!Spec`: the renderer implements `PdfRuntime` |
| | `HvAlwaysRead`, `RarAlwaysRead`, `ZipAlwaysRead` | `HvIsRead`, `RarIsRead`, `ZipIsRead` |
| `ServicesProofs` | `OldStaysOld` | `OldIsNotNew` |
| | `SightingsAreKept` | `SightingsLast` |
| | `RootsStayTruthful` | `RootsTruthful` |
| | `WritesAreStartable` | `WritesStartable` |
| | `DevicesConverge` | `DevicesAgree` |
| | `HintsAreKept` | `HintLasts` |
| | `SplicesStayLocal` | `SplicesAreLocal` |
| | `NestedStaysTrue` | `NestedIsTrue` |

### OpenPool

The assumptions are `PoolAssumption`: there is a container, callers are finitely many, the capacity is
positive, and `None` is not a descriptor.

None of the properties is inductive alone. That a borrowed descriptor stays open needs the exact reference count
(the last release must be recognised), which needs that the count is of the handle and not of a number
that was reused (a descriptor in hand of one goroutine is reachable by no other), which needs that map,
flag and list agree. `IInv` is their conjunction with `Control`, which says what a caller holds at each
of its steps, and `DrainIsOpen`, which says what `Close` has yet to close. `ListerAsks`, that a lister
never skips the version check, is proved beside it. The proof has a lemma for each kind of step: a caller
that moves without touching a handle (`MoveStep`), one that borrows (`BorrowStep`), releases
(`ReleaseStep`), publishes with eviction (`PublishStep`), and so on; `NextIInv` sorts the actions of `Next`
into them. Lemmas on the number of borrowers before and after a lease rest on `FiniteSetTheorems`.

`CapacityKept` needs one thing more, that the list is in an order (`IsLine`): eviction takes the oldest idle handles
for as long as there are too many, and the model says so by counting, for each idle handle, the idle ones that are older.
`PlacesInLine` shows that these counts are 0, 1, 2, ... without a gap or a repetition, so that exactly as many
handles go as are too many, or all the idle ones (`EvictsEnough`); what is left over Max is then in use, and there
are no more handles in use than callers (`LeasedAreFew`).

### ScannerControl

The assumption is `ControlAssumption`, that `None` is not a request. `StatusIsOfTheRun` would be inductive
but for the second run that might publish over the first; `OneHolder` excludes it: whoever has the permit
is the run that `current` names. `CloseMeansQuiet` speaks of the end of `Close` only, and needs to know
what a closer knew before: that the scanner is closed, so no run will begin (`CloserKnows`); that the run
it waits for is the only one there can be (`OneHolder`); and that a run which has closed its done channel
had given the permit back before (`DoneIsLast`), as `release` does the two in this order. `IInv` is the
conjunction of these with the types. The proof has a lemma for each kind of step of a run (`MoveStep`,
`PublishStep`, `FinishStep`, `ReleaseStep`, ...), one for `Cancel` and one for `Close`.

### ScanPipeline

The assumption is `PipelineAssumption`: a library is a sequence of series, each a sequence of books with a positive
number of pages; there is a worker; channels and budget are positive. Workers may be infinitely many.

A sweep looks at flags, and the property at rows; what joins them is the way of a book. A book that was fed is in
the channel or in one worker's hands until its result is set (`Jobs`, `JobsApart`, `NoneIsLost`), so that
`remaining`, which the workers decrement, is the number of open books (`Counted`), and exactly one worker finds it
zero and takes the series on. From there the series is in one place until it is written (`Carried`, `CarriedApart`),
and a series that is settled and in no such place has all its rows, unless a write failed (`Written`). `Stops` says
that whoever stopped early left a trace that `decideSweep` reads: an aborted or half-read book and a cancelled walk
imply a done context, and the writer is past its loop only when every worker has exited and nothing is left in a
channel or a batch. `Budget` says that `held` is the sum of the page rows of the series that hold some
and that more than the limit is held only by one series alone. `IInv` is the conjunction. Each part has a lemma for
the steps that can disturb it; `NextIInv` puts them together.

The sum is a fold over a set, which unfolds in an order that CHOOSE picks. `InductionTheorems` shows that the order does not
matter (`SumInsert`, `SumRemove`, `SumBounds` and what follows), by induction over finite sets: the induction theorems
of the library take an operator and cannot be instantiated, so `FiniteSubsets` states the induction with a *set* of
subsets in the place of the predicate and is proved from the well-foundedness of the strict subset ordering.

### ReadingHistory

The assumption is `HistoryAssumption`: roots are a sequence without repetition, a file has at least one volume and each
volume a page, paths are finitely many. Libraries, moves and numbers of page turns are arbitrary.

*For every library and every failure.* `HistoryStaysKept` and `RepairsStayExact` have no other hypothesis: `Events` may be
all of them. `WalkInv` is inductive. Its heart is `SweptAreWalked`: a root that was swept in this run, or is about to be, has a
stamped row at every location that can be seen, however the walk of a targeted or partial request went. A sweep and a
purge delete by the stamps and by `swept`, so what they delete was hidden. `AtRest`, that a run's knowledge
dies with it, is needed because a crash comes between any two steps. `KeepsNewest` is a fact about `RepairSplit`
(`SplitWrites`). `RepairsStayExact` is arithmetic: the volumes at a place are an arbitrary finite set of rows, each with a length,
and the row of each is what is left of the page after those before it. `SumSpread` says that a total which fills one term
after the other is spread without a gap and without a rest; `SpreadAddsUp` applies it to `RepairMove`. An orphan that meets
rows there, or another orphan that is led to the same books, is excepted in the property: the later place wins.

*Where files can be told apart.* `PlaceIsOfTheFile` cannot hold in general, because a path rule has only a length to go by,
so the theorem assumes `LengthsTell`. It also assumes `Undisturbed`: no root is skipped, nothing is cancelled, crashes or
fails. A row that outlives its file, which a skipped root or a failed purge leaves, is taken over by the next file at its
path. Directories that become unreadable, targeted requests and rebuilds are allowed. `PlaceInv` says what makes a path
rule safe at the time it runs: between runs no row of reading history is an orphan (`RunsAreWhole`), after the sweeps every row of
the index is stamped (`StampedOnce`), a stamped row is of the file that is there (`NothingReplaced`), a file is there as a whole or as all of its volumes, so that the rows of a location have the length of
the file (`PagesAtPlace`), and a row of reading history has the length of the file it was written for (`LengthsKept`). The
carry needs `CarriesAreTrue`, that what was observed to move has one content version.

*Where files can be followed.* `HistoryFollows` needs more: that no file is there twice (a copy makes a move ambiguous, and
the code declines to choose), and that files move within a root or to one that is walked before, because the new row must
be there when the old one is swept. After an upgrade the property says nothing, so `FollowInv` speaks of the time before. `Followed` is the
induction: a file that was read has its row; or the run has observed its move and the carry is to come, which takes
the row because its page lies within its length (`CarryIsTaken`); or the file is in the index no more and nowhere on disk.
`FoundInTime` and `NamedOnce` make the observation certain: when a sweep is to delete the row of a file that is somewhere, the file has
exactly one other row, stamped in this run. Section 3 has what happens without these hypotheses: a move to a root that
is walked later, a cancelled carry and an unreadable directory each cost the reader their place.

### Thumbnails

The assumption is `ThumbnailsAssumption`: workers are finitely many and at least one, and are no callers; permits,
queue and attempts are positive.

`Leaders` says that a key in flight and the goroutine that leads it name each other, from which `OneFlightPerKey`
follows. `Counts` joins the two counters of the code, permits held and busy workers, to the sets they
count. `Promises` says of every key that was answered with `ErrQueued` that it is queued, in flight, or with a worker
that has just taken it; with `Counts` it makes `Stats.Idle` true only when every promise is kept. That no wake-up is lost
needs `Distinct` (a job is queued once) and that `Signal` wakes one sleeper for each job. `Versioned` is the part about
contents: nobody knows of a version the index has yet to learn, a picture is no older than its key says, and a verdict that was read of
the current version is true. A read may fail half way at any time, and the code remembers that as a verdict (`unread`); nothing is
claimed of these, and the table of section 3 shows what comes of them (`UndecodableIsBroken`).

### PageDims

The assumption is `PageDimsAssumption`. A scan derives `dims_state` from pages it read before its transaction, the
worker writes between the two, and the flusher writes late; so `RowsInv` says the property of three states at once: what is
committed (`DoneMeansMeasured`), what the open transaction would commit (`Batched`), and what the scan has in hand of
the book it is at (`InFlight`). Its lemmas say what `Sized`, `StateOf` and the two forms of an update do to a
measured book, for any sequence of sizes. A batch may end after any row, so also between a book's row and its pages. `apart` remembers of a row
that this happened and that nothing has derived its state since, and `SizesAgree` excepts such a row and no other; section 3 has what becomes of it (`DoneIsMeasured`). `LineInv` says that the queue holds a
book once and not the one in the worker's hands.

### PdfPool

The assumption is `PoolAssumption` of `PdfPool`. The reaper compares a counter with zero, and the callers are a
set; `CountIsExact`, that the counter is the number of those counted, joins the two and is the heart of
`PoolInv`. With `PoolIsCurrent` (the runtime that is up is the last that was made) and `CountedKeepRuntime` it is
inductive; `NothingTornAway` follows. `NoReaperIsLost` needs a stronger invariant, `ReaperInv`, which also says
where a closer and the runtime it waits for stand. The refinement maps every step: a caller that
counts itself is `Enter`, one that uncounts is `Leave`, a tick that tears down is `Rest` (which needs `Counted = {}`, that
is, `CountIsExact`), `CloseLock` is `Shut`, and the others stutter. The fairness of `Runtime!FairSpec` is checked by TLC
(`RunsAsPromised`).

### FirstSeen, RootsAdmin, UserData

The assumptions are `FirstSeenAssumption` (finitely many series), `RootsAssumption` (the file at the beginning is one, and
has no name twice) and `UserDataAssumption` (positive bounds).

*First sightings.* `OldIsNotNew` compares a date in `user.db` with the files, and is broken, if at all, by a bootstrap
that is completed although a series was missed, many runs later. `NoneIsMissed` says what a run that still counts as
sound has seen so far; `Carries` what its batch has in hand, and `UnseenIsNew` what a completed bootstrap leaves. Their
conjunction with `Ordered`, about the clock, is `SeenInv`.

*The list of roots.* A request reads the file, and later writes it, and later adopts it, while the operator and other
scans go on. `ReadsHold` says that, unless somebody edited by hand in between, the file is what the handler read and then what it
wrote; `Stages` what a request has reached; `NamesUnique` that no file or backup that is left has a name twice, for which
`Appended` and `Removed` say what a splice does to a sequence of entries. `Adopted` is the heart: the baseline lists what
the process serves, but for a removal that is recorded and not yet released. Both requests keep it in either of two ways,
which is where the proof splits: the baseline was the file they had read, and moves with their write; or it was not, and stays,
and then the served list has left it (`past.adrift`) unless what they wrote happens to be the baseline. The first statement of
`RootsTruthful` had no such exception and held with one edit by hand; the attempt to prove it led to the
scenario of `BaselineAlwaysTruthful` above. `Excused` says that no scan asked for after a removal walks the removed root.
`WritesStartable` needs of it all only that the entry to be added was reachable and outside our own data when it was validated, and
`NamesUnique`.

*Readers' data.* `DevicesAgree` is about every pair of documents that two devices could exchange, so its proof is that of
an algebraic fact: `MergeAgrees`, that taking the newer place of each book commutes, and `ImportTwice`, that it is
idempotent.

### RootsFile

The assumption is `FileAssumption`: an indentation is a number. The theorem is about a text of any length, and the proof
about any text that the parser accepts (`TextLines`), whoever wrote it. It has two halves. `SpanIsOwn` is about every entry: what `spanOf` works
out from two line numbers of the tree is a run of the entry's own lines, with all its keys among them, that meets no other entry. It begins at
the dash or, when that is too far up, at the first key, and it ends before the first line after the last key that is no
body (`StopsAreNoBodies`, which rests on the one indentation that the keys and the dashes of a list have). So a removal can leave something of its
own entry, and takes nothing of another. `SpanIsEntry` is about a tidy one: the run is then from the first to the last line
that the grammar gives to the entry. The rest is arithmetic on positions.
`CutIsWellFormed` and `InsertIsWellFormed` say that the text is still one the server reads (each value that is left still has the line it
goes on from, `GrammarOfKeys`, and each bare dash its key); `SpliceCuts` that every line outside the run is there in its order;
`CutTakesOneStart` that there is one entry less; `InsertThenCut` that the text comes back line by line.
`MayInsert` is what `loadRootsFile` must know of the place for a new entry: that nothing follows which the entry above could
claim, and `InsertAtIsAPlace` that it is so below a tidy one. That an entry is tidy cannot be left out: `TakesTheWholeEntry` and `AddedIsRead` fail.

### LibraryScan

The assumption is `ScanAssumption`: a path is that of a file or of a directory. The series may hold any files at any
depth, and the names may be of any kinds.

`IncrementalIsFull` compares what is in the index with what a scan of everything would write, and it is far from
inductive: a row that is kept was written from a disk that has been edited many times since. `ScanInv` therefore says
of every row what is still true of it *now*, however the disk changed: `FilePages`, that if the file at its path has
the row's length and time, a row that was read well has the file's pages and the file is good; `DirPages`, the same of
a directory, picture by picture: where a child is still the one of its length and time in the fingerprint, its page
has that child's contents; `DirName`, that the name of a directory's book says what its fingerprint shows of other
books, as far as the directories in it are still as old. `DiskInv` is why an edit keeps this: a
file that is put anew has a time or a length that nothing had before it, so never the two that a row has seen
(`EditKeepsRows`). That is where `~ SameSecond` is needed, and it is the limit of the rule in `incremental.go`: the
code accepts it, and the table in section 3 shows what happens beyond it. `CurrentInv` says that until the next edit the stamps of the rows are those of
the disk, from which `UnchangedIsKept` follows: a scan finds every readable book unchanged. `KeptIsRight` is the heart
of the step `Scan`: a book that is skipped would have been read as its row says. `IncrementalIsFull` and the theorem
leave out the name of a directory's book below which files lie deeper than in its own directories, as `Seen` has it;
`NamesAreRight` has that case, and fails.

### NatOrder

The assumption is `NameAssumption`: characters are numbers, counts are written to a base above one.
`SortKeyAlwaysAgrees` holds of names of any length. It is a statement about two recursions, `Compare` and `Key`, and
needs inductions; they are made with sets (`InductionTheorems`): the positions (or the numbers, for the digits of a count) from which the
statement holds are a set, and `NatSet` says that a set of naturals which has every number whose smaller ones it has
is all of them. `Recursion` is the one lemma that says of a recursive function that it is what its equation says;
`DigitsIs`, `KeyIs` and `WalkIs` use it. Then `RecordOrder`: the records of two chunks differ, in the order of the
chunks, before either ends, unless the chunks are equal. The count of digits in front of the digits makes that true
(`CountDecides`), and `appendCount_Bare` shows that the digits alone would not do. From the chunks to the names is an
induction on what is left of both (`TailsAgree`).

### Contents

The assumption is `ContentsAssumption`: names are numbers in the natural order. `ContainerAlwaysRead` is about a
container of any number of entries of any kinds. Lists that are made in an order are `InOrder`, and `InOrderIs` says
what such a list is: every member of the set once, in the order (`Lists`), whenever the order is total on the set
(`Orders`); that `Less` is one on paths is `LessOrders`. On these rest `SelectedIs`, `FinishIs` and `WholeListing`.
`Exact` says that the two rules the code has for chapters, `chapterOf`, which names the chapters of a listing, and
`inChapter`, which selects a chapter's pages when it is opened, agree on every page. Nothing but this agreement keeps
a page from being lost or shown twice (`ChapterBooks`). It needs that no directory is called `.`, because that name
stands for the loose pages; the table in section 3 has the counterexample. `BoxInv` adds that no path is packed twice
and that what was scanned is the container. A reader may stop anywhere, for any reason it can have: the pages before it are one book under
the status of that reason, never a series (`Truth`), and with an encrypted entry there are none.

### HvIndex, RarIndex and ZipIndex

The assumptions are `HvAssumption`, that lengths are numbers and the window shows at least the longest heading with its LIST,
`RarAssumption`, that lengths are numbers and `Low` is positive, and `ZipAssumption`: the second tail shows an end record with the
longest comment, as 65 KiB do in the code; a directory of the longest container is not refused, and the limit for one is below
the 32-bit marker. A container may have any number of entries of any lengths. The proofs
begin with what a packer writes: `BlocksAreLaid` (blocks lie one after another), `BlocksRise` (so they do not overlap),
`BlockOfIs` (an offset inside one belongs to it). They say which cell is at each offset (`ContainerHolds`,
`ArchiveHolds`, `ZipContainerHolds`). A file that was cut is a start of its container, so they hold of a cut one as far as it goes.

*HV3.* `HeaderIsFound` says that the LIST chunk which the search takes is that of the directory: a stray one in a title is
followed by text and never `Backed` while the window shows the next cell, and an empty one counts only where no other
does, which is why the case of no entries has a lemma of its own (`EmptyIsListed`). `HvInv` says that the file is a start of what
was packed last and that the offsets on record are numbers, and no more: a container may be packed again after it was indexed, so a
record may point anywhere. `NeverServesNoise` follows because a page is opened only at a FILE block of the recorded
length, and what is behind one is that block's bytes under the mode the container has now.

*RAR.* `WalkOver` is the induction over the files: after a step for each block of the lead and each of the first files, the walk
is at the next header with these files listed. `StopIs` says where that ends (the end of the file, a cut,
an end block, a refused flag) and `ArchiveIsListed` what is then listed. `RarInv` keeps it for the index on record: what is
listed are the first files of what is packed, whatever method they have now. `SpliceIs` says that the archive made for the decoder
is a container of that one file, to which `ArchiveIsListed` applies again.

*ZIP.* `ZipInv` says that the file is the container, or a start of it, or the container with cells wiped out (`Faded`), or the
container without its end record and with one size too large by one, and that the index is what `ReadCentralDirectory`
answers on this very file. What remains is what it answers on each of them. `ReadEndIs`: an end record that is found is the
one that was written, with its 64-bit companion, or one whose size is still the marker, which is refused as too large. `DirectoryIs`: the records that
parse are the first m that were written, each at its true place, whatever the stub and the escalation (`DirRecordIs`), so that the
count tells a directory that lost some, unless it lost a multiple of `Wrap`. A cut leaves no end record, or one whose comment
runs past the end (`NoEndLeft`, `CutIs`), and a salvage follows.

The salvage is a walk that might go on for ever; `Walking` is the invariant that bounds it. What is listed lies in the file, one entry
after another and before `lastData`; the walk is never behind `lastData`, and as long as it is not over, k steps
have moved that to k/2 at least, or to (k - 1)/2 while it stands at a header that a search has found. Hence `SalvageEnds`: after 2 * Len + 2 steps it is
over, and `SalvageLies`: no entry is listed twice and none outside the file. `IntactIsListed` is the completeness:
from a place before an entry that is whole, a step leads to that entry, or to a place still before it, or goes past it by a size that
is too large, which is the exception of `Swallowed`. `CutIsChained` says that behind the stub the chain of a
file that was only cut never breaks, so no look-alike of a header in a payload is ever met.

### NestedReader

The assumption is `NestedAssumption`: lengths are numbers and the window at the end is not empty. `NestedIsTrue` is inductive as
it stands, because `StreamIsWhereItIs` says what the answers rest on: the stream is no further than the bytes there are, the
tail is the last bytes of them and of the right length once it was filled, and a closed reader has no stream. `SequentialIsTrue` is
the lemma on a restart, a discard and a read from any position; `ReadTailKeeps`, `ReadForwardKeeps` and `OtherReadsKeep` are the
paths of `ReadAt`, among them the read that begins before the window and ends in it.

### Model-checked only

- Liveness. `CloseDrainsAll`, `NothingIsStuck`, `PassEnds`, `EverybodyReturns`, `CloseReturns`, `OpenedIsMeasured` and
  the fairness of `RunsAsPromised` need fairness, and TLAPS does not reason about ENABLED.

## 5. What is not modelled

- *Bytes and text*: name encodings and the guess of one (`kenc`), initial consonants (`hangul`), time stamps in
  archives, decompression, the glob grammar, image decoding and scaling. They are sequential and well within
  reach of ordinary tests.
- *The web client*: its write buffers, retries and polling. Its hazards are in `PROJECT.json`.
- *The login throttle, `cmd/shelf`, `verify`*: a token bucket behind one mutex; one-shot commands.
- *Settings, migrations and list queries* of the two databases.
- *Of the thumbnail service*: the walk that `Usage` caches, the AVIF gate (a second permit that is taken inside
  the first and always in that order), the cache of PDF pages, which has no queue.
- *Of the PDF renderer*: the handle of the page cache, a runtime that fails to start, an idle timeout below zero
  (no reaper). A reaper that tore its runtime down itself may still be on its way out when `Close` returns.
- *Of the measuring*: `Stop`, books that do not open, a write that fails. The sizes of a replaced file can land on
  the new pages (`dims.go:156`), which the properties allow; a book that the worker has in hand while a scan replaces its pages
  is not queued again.
- *Of the archive readers*: an entry is one cell of header and one of payload per byte; two headers in one cell, or
  a tag that begins inside a payload by chance, are left out but for the phantom headers of `ZipIndex`.
- *Of containers*: one path twice. A damaged container of volumes is an error and is not expanded; `__MACOSX/._x.zip`
  becomes a volume; a RAR container of volumes is declined and recorded as empty. The model does as the code does.
- *Of first sightings*: roots that are disabled. A file whose mtime is 0 has no age to be dated by and is excepted.
- *Of reading progress*: an acknowledgement stores the length the index has at the PUT, not the one the reader saw
  (`progress.go:111`).
- *Inside the models*: files that move while their root is walked (no walk can tell); a file that moves
  onto a location the index still gives to another (a replacement, not a move); in `ReadingHistory` a book that
  changes between the read and the write of one `PUT progress` (`UserData` has the two as steps) and `DELETE progress`; a stale
  baseline that no longer matches the length (the row keeps what the code keeps, and the repair declines it); a
  targeted pass of `ScanPipeline` (it never sweeps); hash collisions of ids.

## 6. Plan

Done, by importance: the descriptor pool because every page goes through it; the scanner because a wrong sweep
destroys data; reading history because it is the one thing that cannot be rebuilt; thumbnails and their dimensions; what is
read of a collection and when it is read again; the roots and user data that a running server changes; the PDF
renderer with its abstract runtime.

Next:

1. An abstract specification of what the descriptor pool promises (a lease of a descriptor of the path asked for, at
   most one version per listing), and `OpenPool` shown to implement it.
2. `SettingsWriter` (`web/src/api/settingsWriter.ts`): revisions, one request on the wire, retries,
   quarantine of a refused field, the `pagehide` race; the abstract promise is that the server ends with the
   last value chosen. With it, debounced progress and the scan poll.
3. The order of `app.New`, `Run` and `Close`, and the write permit of `index` shared by scanner, dimensions and roots.
