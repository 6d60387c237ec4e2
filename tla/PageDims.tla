------------------------------- MODULE PageDims -------------------------------
(***************************************************************************)
(* The sizes of pages: a reader who opens a book queues it, one goroutine  *)
(* measures the pages without a width and writes what it and the           *)
(* thumbnails measured, and meanwhile a scan rewrites book rows and page   *)
(* rows, in transactions that hold the index's one write permit.  A width  *)
(* is the version of the file the picture came from, 0 is NULL.  A batch   *)
(* may end between a book's row and its pages; `apart' is a history field  *)
(* that no step reads: it says of a row that its pages came in a later     *)
(* batch and that nothing has derived its state since.                     *)
(* An operator named X_Bug is X with a plausible mistake in it.            *)
(***************************************************************************)
EXTENDS Integers, Sequences, FiniteSets, Functions

CONSTANTS
  Books,
  Unreadable,   \* the page numbers whose picture does not declare its size
  PassBatch,    \* dimsPassBatch
  MaxPages, MaxVersion, MaxRuns, MaxPending   \* bounds

ASSUME PageDimsAssumption ==
  /\ PassBatch \in Nat \ {0}
  /\ {MaxPages, MaxVersion, MaxRuns, MaxPending} \subseteq Nat

VARIABLES
  file,      \* from books to the file: [ver, n]
  index,     \* what is committed: [ver, state, pages, apart] of every book
  tx,        \* the scan's open transaction, NoTx or what it would commit
  job,       \* the scan's book in flight, NoJob
  visited,   \* the books this run of the scan has read
  runs,      \* the runs that ended
  pending,   \* dims.pending: from books to [no, w] measured
  queue, queued,
  worker     \* dimsWorker

scanVars == <<tx, job, visited, runs>>
sizeVars == <<pending, queue, queued, worker>>
pdVars == <<file, index, scanVars, sizeVars>>

NoTx == <<>>
NoJob == [kind |-> "none"]
Waiting == [phase |-> "wait"]
States == {"none", "partial", "done"}

NullPages(f) == [i \in 1..f.n |-> 0]
Unmeasured(pages) == {i \in DOMAIN pages : pages[i] = 0}

\* refreshDimsState.
Derived(pages) ==
  CASE Unmeasured(pages) = DOMAIN pages -> "none"
    [] Unmeasured(pages) = {} /\ pages # <<>> -> "done"
    [] OTHER -> "partial"

\* The sizes are written in their order: the last one of a page stays.
Sizes(dims, i) == {k \in DOMAIN dims : dims[k].no = i}
LastSize(dims, i) == CHOOSE k \in Sizes(dims, i) : \A l \in Sizes(dims, i) : l <= k
Sized(pages, dims) ==
  [i \in DOMAIN pages |->
    IF Sizes(dims, i) = {} THEN pages[i] ELSE dims[LastSize(dims, i)].w]

pdInit ==
  /\ \E n \in 1..MaxPages : file = [b \in Books |-> [ver |-> 1, n |-> n]]
  /\ index = [b \in Books |-> [ver |-> 1, state |-> "none", pages |-> NullPages(file[b]), apart |-> FALSE]]
  /\ tx = NoTx /\ job = NoJob /\ visited = {} /\ runs = 0
  /\ pending = [b \in Books |-> <<>>] /\ queue = <<>> /\ queued = {}
  /\ worker = Waiting

------------------------------------------------------------------------------
(* The measuring. *)

\* UpdateDims, one transaction: it waits while the scan holds the permit.
UpdateDims(b, dims) ==
  /\ tx = NoTx
  /\ LET pages == Sized(index[b].pages, dims)
     IN  index' = [index EXCEPT ![b] = [@ EXCEPT !.state = Derived(pages), !.pages = pages, !.apart = FALSE]]

EnsureDims_Twice(b) ==
  /\ queued' = queued \cup {b} /\ queue' = Append(queue, b)
EnsureDims(b) ==
  \/ b \in queued /\ UNCHANGED <<queue, queued>>
  \/ b \notin queued /\ queued' = queued \cup {b} /\ queue' = Append(queue, b)

\* GET /api/books/{bid}.
OpenBook(b) ==
  /\ index[b].state # "done"
  /\ EnsureDims(b)
  /\ UNCHANGED <<file, index, scanVars, pending, worker>>

\* recordDims, at the end of a page's thumbnail.
RecordDims(b, i) ==
  /\ i \in DOMAIN index[b].pages /\ i <= file[b].n /\ i \notin Unreadable
  /\ Len(pending[b]) < MaxPending
  /\ pending' = [pending EXCEPT ![b] = Append(@, [no |-> i, w |-> file[b].ver])]
  /\ UNCHANGED <<file, index, scanVars, queue, queued, worker>>

\* flushDims: take all that is pending; a signal or the ticker woke the worker.
TakePending ==
  /\ worker.phase = "wait"
  /\ worker' = [phase |-> "flush", batch |-> pending]
  /\ pending' = [b \in Books |-> <<>>]
  /\ UNCHANGED <<file, index, scanVars, queue, queued>>
WritePending(b) ==
  /\ worker.phase = "flush" /\ worker.batch[b] # <<>>
  /\ UpdateDims(b, worker.batch[b])
  /\ worker' = [worker EXCEPT !.batch[b] = <<>>]
  /\ UNCHANGED <<file, scanVars, pending, queue, queued>>

\* runDimsQueue: the next book, or back to waiting.
NextBook ==
  /\ \/ worker.phase = "flush" /\ \A b \in Books : worker.batch[b] = <<>>
     \/ worker.phase = "next"
  /\ \/ queue = <<>> /\ worker' = Waiting /\ UNCHANGED queue
     \/ queue # <<>> /\ worker' = [phase |-> "list", book |-> Head(queue)] /\ queue' = Tail(queue)
  /\ UNCHANGED <<file, index, scanVars, pending, queued>>

Finish_StaysQueued(b) == worker' = [phase |-> "next"] /\ UNCHANGED queued
Finish(b) == worker' = [phase |-> "next"] /\ queued' = queued \ {b}

ListPages_FirstBatch(b) ==
  LET todo == Unmeasured(index[b].pages)
  IN  {i \in todo : Cardinality({j \in todo : j <= i}) <= PassBatch}
ListPages(b) == Unmeasured(index[b].pages)

\* measureBook: list the pages without a width, open the file.
ListTodo ==
  /\ worker.phase = "list"
  /\ LET b == worker.book
     IN  \/ ListPages(b) = {} /\ Finish(b)
         \/ /\ ListPages(b) # {} /\ UNCHANGED queued
            /\ worker' = [phase |-> "open", book |-> b, todo |-> ListPages(b)]
  /\ UNCHANGED <<file, index, scanVars, pending, queue>>
OpenFile ==
  /\ worker.phase = "open"
  /\ worker' = [phase |-> "probe", book |-> worker.book, todo |-> worker.todo,
                held |-> file[worker.book], got |-> <<>>]
  /\ UNCHANGED <<file, index, scanVars, pending, queue, queued>>

\* measurePage: a page that is not in the file, or does not say, is skipped.
Probe ==
  /\ worker.phase = "probe" /\ Len(worker.got) < PassBatch
  /\ \E i \in worker.todo :
       /\ \A j \in worker.todo : i <= j
       /\ LET says == i <= worker.held.n /\ i \notin Unreadable
          IN  worker' = [worker EXCEPT !.todo = @ \ {i},
                                       !.got = IF says THEN Append(@, [no |-> i, w |-> worker.held.ver]) ELSE @]
  /\ UNCHANGED <<file, index, scanVars, pending, queue, queued>>
Save ==
  /\ worker.phase = "probe" /\ worker.got # <<>>
  /\ Len(worker.got) = PassBatch \/ worker.todo = {}
  /\ UpdateDims(worker.book, worker.got)
  /\ worker' = [worker EXCEPT !.got = <<>>]
  /\ UNCHANGED <<file, scanVars, pending, queue, queued>>
Measured ==
  /\ worker.phase = "probe" /\ worker.got = <<>> /\ worker.todo = {}
  /\ Finish(worker.book)
  /\ UNCHANGED <<file, index, scanVars, pending, queue>>

------------------------------------------------------------------------------
(* The scan. *)

Open == IF tx = NoTx THEN index ELSE tx

\* maybeCommit: the batch is full or old, or stays open.
MaybeCommit(rows, commit) ==
  \/ commit /\ index' = rows /\ tx' = NoTx
  \/ ~ commit /\ tx' = rows /\ UNCHANGED index

\* indexUnit: an unchanged book that has moved is kept with what its row says
\* now; any other is read again.
ScanReads(b) ==
  /\ job = NoJob /\ b \notin visited /\ runs < MaxRuns
  /\ visited' = visited \cup {b}
  /\ \/ /\ index[b].ver = file[b].ver
        /\ job' = [kind |-> "moved", book |-> b, ver |-> file[b].ver,
                   state |-> index[b].state, apart |-> index[b].apart]
     \/ job' = [kind |-> "read", book |-> b, ver |-> file[b].ver,
                state |-> "none", apart |-> FALSE, pages |-> NullPages(file[b])]
  /\ UNCHANGED <<file, index, tx, runs, sizeVars>>

\* writeSeries: UpsertBook, which counts the row and may end the batch.
RowOf(row) == [row EXCEPT !.ver = job.ver, !.state = job.state, !.apart = job.apart]
WriteRow(commit) ==
  /\ job.kind \in {"moved", "read"}
  /\ MaybeCommit([Open EXCEPT ![job.book] = RowOf(@)], commit)
  /\ job' = IF job.kind = "moved" THEN NoJob ELSE [job EXCEPT !.kind = "pages", !.apart = commit]
  /\ UNCHANGED <<file, visited, runs, sizeVars>>

PagesOf(row) == [row EXCEPT !.pages = job.pages, !.apart = job.apart]
WritePages_Keep(commit) ==
  /\ job.kind = "pages"
  /\ MaybeCommit([Open EXCEPT ![job.book] = [PagesOf(@) EXCEPT !.state = index[job.book].state]], commit)
  /\ job' = NoJob
  /\ UNCHANGED <<file, visited, runs, sizeVars>>

\* ReplacePages.
WritePages(commit) ==
  /\ job.kind = "pages"
  /\ MaybeCommit([Open EXCEPT ![job.book] = PagesOf(@)], commit)
  /\ job' = NoJob
  /\ UNCHANGED <<file, visited, runs, sizeVars>>

\* The end of the run commits; a write can also fail, which rolls the batch
\* back and ends the run.
Flush ==
  /\ job = NoJob /\ visited # {}
  /\ index' = Open /\ tx' = NoTx /\ visited' = {} /\ runs' = runs + 1
  /\ UNCHANGED <<file, job, sizeVars>>
Rollback ==
  /\ tx # NoTx
  /\ tx' = NoTx /\ job' = NoJob /\ visited' = {} /\ runs' = runs + 1
  /\ UNCHANGED <<file, index, sizeVars>>

\* The file is replaced on the disk.
Rewrite(b) ==
  /\ file[b].ver < MaxVersion
  /\ \E n \in 1..MaxPages : file' = [file EXCEPT ![b] = [ver |-> @.ver + 1, n |-> n]]
  /\ UNCHANGED <<index, scanVars, sizeVars>>

Scan == \E commit \in BOOLEAN : WriteRow(commit) \/ WritePages(commit)
Worker ==
  \/ TakePending \/ NextBook \/ ListTodo \/ OpenFile \/ Probe \/ Save \/ Measured
  \/ \E b \in Books : WritePending(b)

pdNext ==
  \/ \E b \in Books : OpenBook(b) \/ ScanReads(b) \/ Rewrite(b)
  \/ \E b \in Books, i \in 1..MaxPages : RecordDims(b, i)
  \/ Worker \/ Scan \/ Flush \/ Rollback

pdSpec == pdInit /\ [][pdNext]_pdVars

\* The worker goes on, and a scan ends its transaction.
pdFairSpec == pdSpec /\ WF_pdVars(Worker) /\ WF_pdVars(Scan \/ Flush)

------------------------------------------------------------------------------
Sizings == [no : Nat \ {0}, w : Nat \ {0}]
Pages == Seq(Nat)
BookRows == [ver : Nat \ {0}, state : States, pages : Pages, apart : BOOLEAN]
Rows == [Books -> BookRows]
Files == [ver : Nat \ {0}, n : Nat \ {0}]
Jobs ==
  {NoJob} \cup [kind : {"moved"}, book : Books, ver : Nat \ {0}, state : States, apart : BOOLEAN]
          \cup [kind : {"read", "pages"}, book : Books, ver : Nat \ {0}, state : {"none"},
                apart : BOOLEAN, pages : Pages]
Flushing == [phase : {"flush"}, batch : [Books -> Seq(Sizings)]]
Listing == [phase : {"list"}, book : Books]
Opening == [phase : {"open"}, book : Books, todo : SUBSET (Nat \ {0})]
Probing == [phase : {"probe"}, book : Books, todo : SUBSET (Nat \ {0}), held : Files, got : Seq(Sizings)]
Phases == [phase : {"wait", "next"}] \cup Flushing \cup Listing \cup Opening \cup Probing

pdTypeOK ==
  /\ file \in [Books -> Files] /\ index \in Rows
  /\ tx \in Rows \cup {NoTx} /\ job \in Jobs /\ visited \subseteq Books /\ runs \in Nat
  /\ pending \in [Books -> Seq(Sizings)]
  /\ queue \in Seq(Books) /\ queued \subseteq Books /\ worker \in Phases

\* "A `done` book is still never queued": so a book that says it is done has no
\* page left to measure, whatever a scan read before the worker wrote.  The one
\* exception: its last batch ended between its row and its pages.
MeansMeasured(row) == row.state = "done" => row.apart \/ Unmeasured(row.pages) = {}
DoneMeansMeasured == \A b \in Books : MeansMeasured(index[b])

\* A book waits once and no book is forgotten: one that counts as queued is in
\* the queue or in the worker's hands, for EnsureDims will not queue it again.
InHand == IF worker.phase \in {"list", "open", "probe"} THEN {worker.book} ELSE {}
QueuedIsServed ==
  /\ Cardinality(Range(queue)) = Len(queue)
  /\ queued = Range(queue) \cup InHand

\* A page that a book counts as measured has its size, and a book that is
\* counted as queued is queued: scans, readers and the worker in any order.
DimsAgree == DoneMeansMeasured /\ QueuedIsServed

\* A book that waits in the queue gets its pages measured, those that say their
\* size, unless its file changes or a scan writes meanwhile.
Waits(b, v, k) == b \in Range(queue) /\ file[b].ver = v /\ runs = k
Served(b, v, k) ==
  \/ \A i \in DOMAIN index[b].pages :
       index[b].pages[i] # 0 \/ i \in Unreadable \/ i > file[b].n
  \/ file[b].ver # v \/ runs # k
OpenedIsMeasured ==
  \A b \in Books : \A v \in 1..MaxVersion, k \in 0..MaxRuns : Waits(b, v, k) ~> Served(b, v, k)

\* Expected to fail: without the exception.  The worker derives "done" from the
\* old pages under the new row, and the new pages come after it.
DoneIsMeasured == \A b \in Books : index[b].state = "done" => Unmeasured(index[b].pages) = {}

\* Expected to fail.  "The summary column can never drift from the data it
\* describes."
StateNeverDrifts == \A b \in Books : index[b].state = Derived(index[b].pages)
==============================================================================
