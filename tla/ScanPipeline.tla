---------------------------- MODULE ScanPipeline ----------------------------
(***************************************************************************)
(* One root's pass of a scan (internal/scanner scanRoot): the walker that  *)
(* enumerates series, the workers that index their books, the page budget  *)
(* and the channel that bound what is in flight, the one writer and its    *)
(* transaction on index.db, and the decision to sweep.                     *)
(*                                                                         *)
(* The walk finds the series 1..Len(Pages) in order, and Pages[s][i] is    *)
(* the number of page rows of book i of series s.  Rows are facts: <<s, 0>>*)
(* stands for the series row of s at this generation, <<s, i>> for the     *)
(* book row and <<s, -i>> for its pages.  What a crash leaves behind is    *)
(* durable.                                                                *)
(*                                                                         *)
(* A book that cannot be read is recorded like any other and is not told   *)
(* apart.  Logs, progress, covers and the series_seen batch are left out.  *)
(*                                                                         *)
(* An operator named X_Bug is X with a plausible mistake in it.  No        *)
(* specification uses it: it shows that a property can fail.               *)
(***************************************************************************)
EXTENDS Integers, Sequences, Functions

CONSTANTS
    Pages,         \* what the walk finds
    Containers,    \* books <<s, i>> that expand into volumes or chapters
    Workers,
    BookBuffer,    \* capacity of bookCh
    ResultBuffer,  \* capacity of resCh
    PageLimit      \* pageBudget.limit

Series == DOMAIN Pages
Books(s) == DOMAIN Pages[s]

ASSUME PipelineAssumption ==
    /\ Pages \in Seq(Seq(Nat \ {0}))
    /\ Containers \subseteq Series \X Nat
    /\ Workers # {}
    /\ {BookBuffer, ResultBuffer, PageLimit} \subseteq Nat \ {0}

VARIABLES
    cancelled,  \* ctx of the run is cancelled
    aborted,    \* abort() was called: a write failed
    walkAt,     \* the next thing the walker does: <<series, book>>
    walkErr,    \* how the walk ended: "none", "cancelled", "disk"
    walking,    \* the walker has not closed bookCh
    bookCh,
    worker,     \* where each worker is, and on which book
    result,     \* result[s][i]: seriesTask.results
    remaining,  \* seriesTask.remaining
    held,       \* pageBudget.held
    resCh,
    writer,     \* where the writer is, and on which row
    failed,     \* writeResults' firstErr # nil
    stamps,     \* genStamps: unchanged books yet to be stamped
    tx,         \* rows in the open transaction
    durable,    \* rows committed
    outErr,     \* RootResult.Err # nil
    outcome     \* "none", then what became of the sweep

walk == <<walkAt, walkErr, walking>>
rows == <<stamps, tx, durable>>
end == <<outErr, outcome>>
vars == <<cancelled, aborted, walk, bookCh, worker, result, remaining, held,
          resCh, writer, failed, rows, end>>

PipeDone == cancelled \/ aborted
Facts == {f \in Series \X Int : f[2] = 0 \/ f[2] \in Books(f[1]) \/ -f[2] \in Books(f[1])}
Results == {"none", "read", "unchanged", "aborted", "halfRead"}

TypeOK ==
    /\ {cancelled, aborted, walking, failed, outErr} \subseteq BOOLEAN
    /\ walkAt \in (1..Len(Pages) + 1) \X Nat
    /\ walkErr \in {"none", "cancelled", "disk"}
    /\ bookCh \in Seq(Series \X Nat) /\ Len(bookCh) <= BookBuffer
    /\ resCh \in Seq(Series) /\ Len(resCh) <= ResultBuffer
    /\ worker \in [Workers -> [at : {"idle", "taken", "reading", "budget", "waiting", "offer", "exited"},
                               job : {<<0, 0>>} \cup (Series \X Nat)]]
    /\ \A s \in Series : result[s] \in [Books(s) -> Results]
    /\ remaining \in [Series -> Nat]
    /\ held \in Nat
    /\ writer \in [at : {"receive", "row", "written", "ended", "decided", "done"},
                   row : {<<0, 0>>} \cup Facts]
    /\ stamps \subseteq Facts /\ tx \subseteq Facts /\ durable \subseteq Facts
    /\ outcome \in {"none", "sweep", "keep", "swept", "sweepFailed"}

Init ==
    /\ cancelled = FALSE /\ aborted = FALSE
    /\ walkAt = <<1, 0>> /\ walkErr = "none" /\ walking = TRUE
    /\ bookCh = <<>> /\ resCh = <<>>
    /\ worker = [w \in Workers |-> [at |-> "idle", job |-> <<0, 0>>]]
    /\ result = [s \in Series |-> [i \in Books(s) |-> "none"]]
    /\ remaining = [s \in Series |-> 0]
    /\ held = 0
    /\ writer = [at |-> "receive", row |-> <<0, 0>>]
    /\ failed = FALSE
    /\ stamps = {} /\ tx = {} /\ durable = {}
    /\ outErr = FALSE /\ outcome = "none"

\* pageRows: an unchanged book and an aborted one carry none.
PageRows(s) ==
    SumFunctionOnSet(Pages[s], {i \in Books(s) : result[s][i] \in {"read", "halfRead"}})

(***************************************************************************)
(* The walker (walkRoot and the emit it is given).                         *)
(***************************************************************************)
NextSeries == walkAt' = <<walkAt[1] + 1, 0>>
StopWalk(err) == walkErr' = err /\ walking' = FALSE /\ UNCHANGED walkAt

\* The top level cannot be read.
WalkFails ==
    /\ walking /\ walkAt = <<1, 0>>
    /\ StopWalk("disk")
    /\ UNCHANGED <<cancelled, aborted, bookCh, worker, result, remaining, held,
                   resCh, writer, failed, rows, end>>

\* Between two children, in emit's select, or in deliver's.
WalkCancelled ==
    /\ walking /\ PipeDone /\ walkAt[1] \in Series
    /\ StopWalk("cancelled")
    /\ UNCHANGED <<cancelled, aborted, bookCh, worker, result, remaining, held,
                   resCh, writer, failed, rows, end>>

\* Counts the books that are left after the first.
WalkSeries_Bug ==
    /\ walking /\ ~PipeDone /\ walkAt[1] \in Series /\ walkAt[2] = 0
    /\ walkAt' = <<walkAt[1], 1>>
    /\ remaining' = [remaining EXCEPT ![walkAt[1]] = Len(Pages[walkAt[1]]) - 1]
    /\ UNCHANGED <<cancelled, aborted, walkErr, walking, bookCh, worker, result, held,
                   resCh, writer, failed, rows, end>>

WalkSeries ==
    /\ walking /\ ~PipeDone /\ walkAt[1] \in Series /\ walkAt[2] = 0
    /\ walkAt' = <<walkAt[1], 1>>
    /\ remaining' = [remaining EXCEPT ![walkAt[1]] = Len(Pages[walkAt[1]])]
    /\ UNCHANGED <<cancelled, aborted, walkErr, walking, bookCh, worker, result, held,
                   resCh, writer, failed, rows, end>>

FeedBook ==
    /\ walking /\ walkAt[1] \in Series /\ walkAt[2] \in Books(walkAt[1])
    /\ Len(bookCh) < BookBuffer
    /\ bookCh' = Append(bookCh, walkAt)
    /\ IF walkAt[2] = Len(Pages[walkAt[1]]) THEN NextSeries
       ELSE walkAt' = <<walkAt[1], walkAt[2] + 1>>
    /\ UNCHANGED <<cancelled, aborted, walkErr, walking, worker, result, remaining, held,
                   resCh, writer, failed, rows, end>>

\* A series with no books goes straight to the writer and needs no budget.
OfferEmpty ==
    /\ walking /\ walkAt[1] \in Series /\ walkAt[2] = 1 /\ Books(walkAt[1]) = {}
    /\ Len(resCh) < ResultBuffer
    /\ resCh' = Append(resCh, walkAt[1])
    /\ NextSeries
    /\ UNCHANGED <<cancelled, aborted, walkErr, walking, bookCh, worker, result, remaining,
                   held, writer, failed, rows, end>>

WalkEnds ==
    /\ walking /\ walkAt[1] \notin Series
    /\ StopWalk("none")
    /\ UNCHANGED <<cancelled, aborted, bookCh, worker, result, remaining, held,
                   resCh, writer, failed, rows, end>>

(***************************************************************************)
(* The workers.                                                            *)
(***************************************************************************)
Put(w, at, job) == worker' = [worker EXCEPT ![w] = [at |-> at, job |-> job]]
Job(w) == worker[w].job
Task(w) == worker[w].job[1]

Take(w) ==
    /\ worker[w].at = "idle" /\ bookCh # <<>>
    /\ bookCh' = Tail(bookCh)
    /\ Put(w, "taken", Head(bookCh))
    /\ UNCHANGED <<cancelled, aborted, walk, result, remaining, held, resCh, writer,
                   failed, rows, end>>

\* range bookCh ends.
Exit(w) ==
    /\ worker[w].at = "idle" /\ bookCh = <<>> /\ ~walking
    /\ Put(w, "exited", <<0, 0>>)
    /\ UNCHANGED <<cancelled, aborted, walk, bookCh, result, remaining, held, resCh,
                   writer, failed, rows, end>>

\* results[i] is set, and the last book of a series takes the series on.
Settle(w, r) ==
    LET s == Task(w) IN
    /\ result' = [result EXCEPT ![s][Job(w)[2]] = r]
    /\ remaining' = [remaining EXCEPT ![s] = @ - 1]
    /\ IF remaining[s] = 1 THEN Put(w, "budget", <<s, 0>>)
       ELSE Put(w, "idle", <<0, 0>>)

\* indexUnit returns at once when the context is done.
SkipBook(w) ==
    /\ worker[w].at = "taken" /\ PipeDone
    /\ Settle(w, "aborted")
    /\ UNCHANGED <<cancelled, aborted, walk, bookCh, held, resCh, writer, failed, rows, end>>

ReadBook(w) ==
    /\ worker[w].at = "taken" /\ ~PipeDone
    /\ Put(w, "reading", Job(w))
    /\ UNCHANGED <<cancelled, aborted, walk, bookCh, result, remaining, held, resCh,
                   writer, failed, rows, end>>

\* The book is indexed, or the incremental rule finds it unchanged.  A book that
\* only notices the cancellation when Open or List fails is aborted.  A container
\* whose listing succeeded first is not expanded once the context is done
\* (expandContainer, expandChapters): the container itself is the book.
FinishBook(w) ==
    /\ worker[w].at = "reading"
    /\ \/ /\ Job(w) \notin Containers \/ ~PipeDone
          /\ \E r \in {"read", "unchanged"} : Settle(w, r)
       \/ PipeDone /\ Settle(w, "aborted")
       \/ Job(w) \in Containers /\ PipeDone /\ Settle(w, "halfRead")
    /\ UNCHANGED <<cancelled, aborted, walk, bookCh, held, resCh, writer, failed, rows, end>>

\* Without the rule that lets an oversized item in when nothing is in flight.
AcquireBudget_NoExtraRule(w) ==
    /\ worker[w].at \in {"budget", "waiting"}
    /\ LET n == PageRows(Task(w)) IN
       /\ n = 0 \/ held + n <= PageLimit
       /\ held' = held + n
    /\ Put(w, "offer", Job(w))
    /\ UNCHANGED <<cancelled, aborted, walk, bookCh, result, remaining, resCh, writer,
                   failed, rows, end>>

\* Tests what is held before the new pages are added to it.
AcquireBudget_Late(w) ==
    /\ worker[w].at \in {"budget", "waiting"}
    /\ held <= PageLimit
    /\ held' = held + PageRows(Task(w))
    /\ Put(w, "offer", Job(w))
    /\ UNCHANGED <<cancelled, aborted, walk, bookCh, result, remaining, resCh, writer,
                   failed, rows, end>>

\* pageBudget.acquire, in deliver.
AcquireBudget(w) ==
    /\ worker[w].at \in {"budget", "waiting"}
    /\ LET n == PageRows(Task(w)) IN
       /\ n = 0 \/ held = 0 \/ held + n <= PageLimit
       /\ held' = held + n
    /\ Put(w, "offer", Job(w))
    /\ UNCHANGED <<cancelled, aborted, walk, bookCh, result, remaining, resCh, writer,
                   failed, rows, end>>

WaitForBudget(w) ==
    /\ worker[w].at = "budget"
    /\ PageRows(Task(w)) # 0 /\ held # 0 /\ held + PageRows(Task(w)) > PageLimit
    /\ Put(w, "waiting", Job(w))
    /\ UNCHANGED <<cancelled, aborted, walk, bookCh, result, remaining, held, resCh,
                   writer, failed, rows, end>>

\* The select may prefer the context to a budget that has just come back.
BudgetCancelled(w) ==
    /\ worker[w].at = "waiting" /\ PipeDone
    /\ Put(w, "exited", <<0, 0>>)
    /\ UNCHANGED <<cancelled, aborted, walk, bookCh, result, remaining, held, resCh,
                   writer, failed, rows, end>>

Offer(w) ==
    /\ worker[w].at = "offer" /\ Len(resCh) < ResultBuffer
    /\ resCh' = Append(resCh, Task(w))
    /\ Put(w, "idle", <<0, 0>>)
    /\ UNCHANGED <<cancelled, aborted, walk, bookCh, result, remaining, held, writer,
                   failed, rows, end>>

\* Returns without giving the pages back.
OfferCancelled_Bug(w) ==
    /\ worker[w].at = "offer" /\ PipeDone
    /\ Put(w, "exited", <<0, 0>>)
    /\ UNCHANGED <<cancelled, aborted, walk, bookCh, result, remaining, held, resCh,
                   writer, failed, rows, end>>

OfferCancelled(w) ==
    /\ worker[w].at = "offer" /\ PipeDone
    /\ held' = held - PageRows(Task(w))
    /\ Put(w, "exited", <<0, 0>>)
    /\ UNCHANGED <<cancelled, aborted, walk, bookCh, result, remaining, resCh,
                   writer, failed, rows, end>>

(***************************************************************************)
(* The writer (writeResults and index.Writer).  It works on a context that *)
(* cannot be cancelled.                                                    *)
(***************************************************************************)
Ready == [at |-> "receive", row |-> <<0, 0>>]
ToBook(s, i) ==
    writer' = IF i \in Books(s) THEN [at |-> "row", row |-> <<s, i>>]
              ELSE [at |-> "written", row |-> <<s, 0>>]
HasAborted(s) == \E i \in Books(s) : result[s][i] = "aborted"

Commit(written) == durable' = durable \cup tx \cup written /\ tx' = {}

\* A statement or a commit fails: the transaction is rolled back, and abort()
\* stops the walker and the workers.
Fail == failed' = TRUE /\ aborted' = TRUE /\ tx' = {} /\ UNCHANGED durable

\* The rows join the transaction, which is committed when it is full or old.
Insert(written) ==
    /\ \/ tx' = tx \cup written /\ UNCHANGED durable
       \/ Commit(written)
    /\ UNCHANGED <<failed, aborted>>

\* Once a write has failed the channel is only drained.  A series with an aborted
\* book is left as it was.
Receive ==
    /\ writer.at = "receive" /\ resCh # <<>>
    /\ resCh' = Tail(resCh)
    /\ LET s == Head(resCh) IN
       IF failed \/ HasAborted(s)
       THEN held' = held - PageRows(s) /\ UNCHANGED writer
       ELSE writer' = [at |-> "row", row |-> <<s, 0>>] /\ UNCHANGED held
    /\ UNCHANGED <<cancelled, aborted, walk, bookCh, worker, result, remaining, failed,
                   rows, end>>

\* commitIdle.
Tick ==
    /\ writer.at = "receive" /\ ~failed /\ tx # {}
    /\ \/ Commit({}) /\ UNCHANGED <<failed, aborted>>
       \/ Fail
    /\ UNCHANGED <<cancelled, walk, bookCh, worker, result, remaining, held, resCh,
                   writer, stamps, end>>

\* The series row, a book row or the pages of one.
WriteRow ==
    /\ writer.at = "row"
    /\ LET s == writer.row[1]
           i == writer.row[2]
       IN  /\ i \in Books(s) => result[s][i] # "unchanged"
           /\ Insert({writer.row})
           /\ IF i > 0 THEN writer' = [writer EXCEPT !.row = <<s, -i>>]
              ELSE ToBook(s, 1 - i)
    /\ UNCHANGED <<cancelled, walk, bookCh, worker, result, remaining, held, resCh,
                   stamps, end>>

WriteFails ==
    /\ writer.at = "row"
    /\ Fail
    /\ held' = held - PageRows(writer.row[1])
    /\ writer' = Ready
    /\ UNCHANGED <<cancelled, walk, bookCh, worker, result, remaining, resCh, stamps, end>>

\* Nothing to rewrite: the row is stamped forward with the others.
Stamp ==
    /\ writer.at = "row"
    /\ LET s == writer.row[1]
           i == writer.row[2]
       IN  /\ \/ i \in Books(s) /\ result[s][i] = "unchanged"
              \/ i = 0 /\ \A b \in Books(s) : result[s][b] = "unchanged"
           /\ stamps' = stamps \cup {writer.row}
           /\ ToBook(s, i + 1)
    /\ UNCHANGED <<cancelled, aborted, walk, bookCh, worker, result, remaining, held,
                   resCh, failed, tx, durable, end>>

\* The budget goes back, and a full batch of stamps goes out.
EndSeries ==
    /\ writer.at = "written"
    /\ held' = held - PageRows(writer.row[1])
    /\ writer' = Ready
    /\ \/ UNCHANGED <<rows, failed, aborted>>
       \/ stamps # {} /\ stamps' = {} /\ (Insert(stamps) \/ Fail)
    /\ UNCHANGED <<cancelled, walk, bookCh, worker, result, remaining, resCh, end>>

\* resCh is closed once the walker and every worker have returned.
WriterEnds ==
    /\ writer.at = "receive" /\ resCh = <<>>
    /\ ~walking /\ \A w \in Workers : worker[w].at = "exited"
    /\ writer' = [Ready EXCEPT !.at = "ended"]
    /\ stamps' = {}
    /\ \/ ~failed /\ Commit(stamps) /\ UNCHANGED failed
       \/ failed' = TRUE /\ tx' = {} /\ UNCHANGED durable
    /\ UNCHANGED <<cancelled, aborted, walk, bookCh, worker, result, remaining, held,
                   resCh, end>>

(***************************************************************************)
(* The decision, for a run that is not confined to named series.           *)
(***************************************************************************)
\* A write failure cannot be the effect of a cancellation.  An error of the walk
\* can, if the pipeline is done.
RootErr == failed \/ (walkErr = "disk" /\ ~PipeDone)

\* Takes a run that reported no error for a complete one.
DecideSweep_Bug ==
    /\ writer.at = "ended"
    /\ writer' = [writer EXCEPT !.at = "decided"]
    /\ outErr' = RootErr
    /\ outcome' = IF RootErr THEN "keep" ELSE "sweep"
    /\ UNCHANGED <<cancelled, aborted, walk, bookCh, worker, result, remaining, held,
                   resCh, failed, rows>>

DecideSweep ==
    /\ writer.at = "ended"
    /\ writer' = [writer EXCEPT !.at = "decided"]
    /\ outErr' = RootErr
    /\ outcome' = IF RootErr \/ cancelled THEN "keep" ELSE "sweep"
    /\ UNCHANGED <<cancelled, aborted, walk, bookCh, worker, result, remaining, held,
                   resCh, failed, rows>>

\* The sweep is one transaction, whatever happens to ctx by now.
Sweep ==
    /\ writer.at = "decided"
    /\ writer' = [writer EXCEPT !.at = "done"]
    /\ \/ outcome # "sweep" /\ UNCHANGED end
       \/ outcome = "sweep" /\ outcome' = "swept" /\ UNCHANGED outErr
       \/ outcome = "sweep" /\ outcome' = "sweepFailed" /\ outErr' = TRUE
    /\ UNCHANGED <<cancelled, aborted, walk, bookCh, worker, result, remaining, held,
                   resCh, failed, rows>>

Cancel ==
    /\ ~cancelled /\ writer.at # "done"
    /\ cancelled' = TRUE
    /\ UNCHANGED <<aborted, walk, bookCh, worker, result, remaining, held, resCh,
                   writer, failed, rows, end>>

-----------------------------------------------------------------------------
WalkStep ==
    \/ WalkFails \/ WalkCancelled \/ WalkSeries \/ FeedBook \/ OfferEmpty \/ WalkEnds

WorkStep(w) ==
    \/ Take(w) \/ Exit(w) \/ SkipBook(w) \/ ReadBook(w) \/ FinishBook(w)
    \/ AcquireBudget(w) \/ WaitForBudget(w) \/ BudgetCancelled(w)
    \/ Offer(w) \/ OfferCancelled(w)

WriteStep ==
    \/ Receive \/ Tick \/ WriteRow \/ WriteFails \/ Stamp \/ EndSeries \/ WriterEnds
    \/ DecideSweep \/ Sweep

Next == WalkStep \/ (\E w \in Workers : WorkStep(w)) \/ WriteStep \/ Cancel

Spec == Init /\ [][Next]_vars

\* Goroutines are scheduled, and reading one book takes a finite time.  Nobody
\* has to cancel.
FairSpec ==
    /\ Spec
    /\ WF_vars(WalkStep) /\ WF_vars(WriteStep)
    /\ \A w \in Workers : WF_vars(WorkStep(w))

-----------------------------------------------------------------------------
(***************************************************************************)
(* Properties.                                                             *)
(***************************************************************************)
Holding(s) ==
    \/ \E w \in Workers : worker[w].at = "offer" /\ Task(w) = s
    \/ \E k \in DOMAIN resCh : resCh[k] = s
    \/ writer.at \in {"row", "written"} /\ writer.row[1] = s

\* The budget counts exactly the series between a worker that has acquired it and
\* the writer that returns it, on every way out of deliver and writeResults: a
\* series abandoned to a cancellation or drained after a failure gives back what
\* it took and no more.
BudgetIsInFlight ==
    held = SumFunctionOnSet([s \in Series |-> PageRows(s)], {s \in Series : Holding(s)})

\* More than PageLimit page rows are in flight only when a single series alone is
\* larger than that.
BudgetBounded ==
    held > PageLimit => \E s \in Series : held = PageRows(s)

\* The budget is neither lost nor exceeded, and every variable keeps its type,
\* whatever is cancelled or fails on the way.
BudgetBalances == TypeOK /\ BudgetIsInFlight /\ BudgetBounded

\* A root is swept only when every series the walk found has its row and all its
\* books at this generation, committed: what the sweep deletes is what the walk
\* did not find, whatever was cancelled, failed or rolled back on the way.
SweepSeesTheWholeRoot ==
    outcome \in {"sweep", "swept"} =>
        \A s \in Series : <<s, 0>> \in durable
            /\ \A i \in Books(s) : <<s, i>> \in durable

\* The pass of a root ends, whichever series is larger than the budget, however
\* full the channels are, and whoever stops first.
PassEnds == <>(writer.at = "done")

\* "aborted marks a book abandoned because the run was cancelled. Its series is
\* not written at all" (bookResult.aborted).  It does not hold: a container that
\* is caught between its listing and its expansion is recorded as a book.
CancelledSeriesNotWritten ==
    \A s \in Series : \A i \in Books(s) :
        result[s][i] = "halfRead" => <<s, i>> \notin durable

\* "the batch is atomic, so a partially applied series is never visible" (the
\* comment on Writer.rollback).  It does not hold: maybeCommit runs after every
\* row, so a batch may end between a book and its pages.
BookHasItsPages ==
    \A s \in Series : \A i \in Books(s) :
        <<s, i>> \in durable /\ result[s][i] = "read" /\ writer.at = "receive"
            => <<s, -i>> \in durable \cup tx
=============================================================================
