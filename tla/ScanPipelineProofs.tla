------------------------- MODULE ScanPipelineProofs -------------------------
(***************************************************************************)
(* For any library, any number of workers and any capacity: a root is      *)
(* swept only when all that the walk found is committed, and the page      *)
(* budget is what is in flight.                                            *)
(***************************************************************************)
EXTENDS ScanPipeline, InductionTheorems

Reading  == {"taken", "reading"}
Carrying == {"budget", "waiting", "offer"}
Writing  == {"row", "written"}

(* How far the walker is.  A book is open until a worker has set its       *)
(* result.                                                                 *)
Begun(s)  == s < walkAt[1] \/ (s = walkAt[1] /\ walkAt[2] > 0)
Fed(s, i) == s < walkAt[1] \/ (s = walkAt[1] /\ i < walkAt[2])
Open(s)   == {i \in Books(s) : result[s][i] = "none"}
OpenBook(b) == b[1] \in Series /\ b[2] \in Open(b[1]) /\ Fed(b[1], b[2])
Settled == {s \in Series : s < walkAt[1] /\ Open(s) = {}}

(* Types that TypeOK leaves open.                                          *)
Shape ==
    /\ result = [s \in Series |-> result[s]]
    /\ walkAt[1] \in Series =>
          walkAt[2] \in {0, 1} \cup Books(walkAt[1])
    /\ writer.at = "written" => writer.row[2] = 0

(* A book that was fed is in the channel or with one worker until it is    *)
(* settled, and nobody settles a book that was not.                        *)
Jobs ==
    /\ \A k \in 1..Len(bookCh) : OpenBook(bookCh[k])
    /\ \A w \in Workers : worker[w].at \in Reading => OpenBook(Job(w))
    /\ \A s \in Series : \A i \in Books(s) : ~Fed(s, i) => i \in Open(s)
JobsApart ==
    /\ \A j, k \in 1..Len(bookCh) : bookCh[j] = bookCh[k] => j = k
    /\ \A w \in Workers : worker[w].at \in Reading =>
          /\ \A k \in 1..Len(bookCh) : bookCh[k] # Job(w)
          /\ \A v \in Workers : worker[v].at \in Reading /\ Job(v) = Job(w) => v = w
NoneIsLost ==
    \A s \in Series : \A i \in Open(s) :
        Fed(s, i) => \/ \E k \in 1..Len(bookCh) : bookCh[k] = <<s, i>>
                     \/ \E w \in Workers : worker[w].at \in Reading /\ Job(w) = <<s, i>>

(* seriesTask.remaining counts the open books.                             *)
Counted == \A s \in Series : Begun(s) => remaining[s] = Cardinality(Open(s))

(* A series that is settled is in one place only on its way to the rows.   *)
Carried ==
    /\ \A w \in Workers : worker[w].at \in Carrying => Task(w) \in Settled
    /\ \A k \in 1..Len(resCh) : resCh[k] \in Settled
    /\ writer.at \in Writing => writer.row[1] \in Settled
CarriedApart ==
    /\ \A v, w \in Workers :
          worker[v].at \in Carrying /\ worker[w].at \in Carrying /\ Task(v) = Task(w) => v = w
    /\ \A j, k \in 1..Len(resCh) : resCh[j] = resCh[k] => j = k
    /\ \A w \in Workers : worker[w].at \in Carrying =>
          /\ \A k \in 1..Len(resCh) : resCh[k] # Task(w)
          /\ writer.at \in Writing => writer.row[1] # Task(w)
    /\ writer.at \in Writing => \A k \in 1..Len(resCh) : resCh[k] # writer.row[1]

(* The budget, and a series that is larger than it.                        *)
Holders == {s \in Series : Holding(s)}
Rows    == [s \in Series |-> PageRows(s)]
Budget  ==
    /\ held = SumFunctionOnSet(Rows, Holders)
    /\ held > PageLimit => \E s \in Holders : held = Rows[s]

(* The rows of a series that are written, and those of the series that the *)
(* writer is at.                                                           *)
Recorded == stamps \cup tx \cup durable
Behind(i, j) == j < i \/ (i < 0 /\ j <= -i)
OnTheWay(s) ==
    \/ \E w \in Workers : worker[w].at \in Carrying /\ Task(w) = s
    \/ \E k \in 1..Len(resCh) : resCh[k] = s
    \/ writer.at \in Writing /\ writer.row[1] = s
Written ==
    ~failed =>
        /\ writer.at = "row" => \A j \in 0..Len(Pages[writer.row[1]]) :
              Behind(writer.row[2], j) => <<writer.row[1], j>> \in Recorded
        /\ writer.at = "written" => \A j \in 0..Len(Pages[writer.row[1]]) :
              <<writer.row[1], j>> \in Recorded
        /\ ~PipeDone => \A s \in Settled : ~OnTheWay(s) =>
              \A j \in 0..Len(Pages[s]) : <<s, j>> \in Recorded

(* What has stopped early says so.                                         *)
Stops ==
    /\ \A s \in Series : \A i \in Books(s) : result[s][i] \in {"aborted", "halfRead"} => PipeDone
    /\ walkErr = "cancelled" => PipeDone
    /\ walkErr = "none" /\ ~walking => walkAt[1] \notin Series
    /\ aborted => failed
    /\ ~PipeDone => \A w \in Workers : worker[w].at = "exited" => bookCh = <<>> /\ ~walking
    /\ writer.at \in {"ended", "decided", "done"} =>
          /\ resCh = <<>> /\ stamps = {} /\ tx = {} /\ ~walking
          /\ \A w \in Workers : worker[w].at = "exited"
    /\ outcome # "none" => writer.at \in {"decided", "done"}

IInv ==
    /\ TypeOK /\ Shape /\ Jobs /\ JobsApart /\ NoneIsLost /\ Counted
    /\ Carried /\ CarriedApart /\ Budget /\ Written /\ Stops
    /\ SweepSeesTheWholeRoot

-----------------------------------------------------------------------------
(* Series and books are finite, and books have pages.                      *)
LEMMA Library ==
  /\ Len(Pages) \in Nat /\ Series = 1..Len(Pages) /\ IsFiniteSet(Series)
  /\ \A s \in Series :
        /\ Len(Pages[s]) \in Nat /\ Books(s) = 1..Len(Pages[s]) /\ IsFiniteSet(Books(s))
        /\ \A i \in Books(s) : Pages[s][i] \in Nat \ {0}
  <1>1. Len(Pages) \in Nat /\ Series = 1..Len(Pages)
    BY PipelineAssumption DEF Series
  <1>2. ASSUME NEW s \in Series
        PROVE  /\ Len(Pages[s]) \in Nat /\ Books(s) = 1..Len(Pages[s]) /\ IsFiniteSet(Books(s))
               /\ \A i \in Books(s) : Pages[s][i] \in Nat \ {0}
    <2>1. Pages[s] \in Seq(Nat \ {0})
      BY <1>1, PipelineAssumption
    <2>2. Len(Pages[s]) \in Nat /\ Books(s) = 1..Len(Pages[s])
      BY <2>1 DEF Books
    <2>3. IsFiniteSet(1..Len(Pages[s]))
      BY <2>2, FS_Interval
    <2>4. QED
      BY <2>1, <2>2, <2>3
  <1>3. IsFiniteSet(1..Len(Pages))
    BY <1>1, FS_Interval
  <1>4. QED
    BY <1>1, <1>2, <1>3

(* A channel, one longer and one shorter.                                  *)
LEMMA Sent ==
  ASSUME NEW S, NEW s \in Seq(S), NEW k \in S
  PROVE  /\ Append(s, k) \in Seq(S) /\ Len(s) \in Nat /\ Len(Append(s, k)) = Len(s) + 1
         /\ \A i \in 1..Len(s) : Append(s, k)[i] = s[i]
         /\ Append(s, k)[Len(s) + 1] = k
         /\ \A i \in 1..(Len(s) + 1) : i \in 1..Len(s) \/ i = Len(s) + 1
  OBVIOUS

\* What receiving from a channel does to the sequence that models it.
LEMMA Received ==
  ASSUME NEW S, NEW s \in Seq(S), s # <<>>
  PROVE  /\ Tail(s) \in Seq(S) /\ Len(s) \in Nat \ {0} /\ Len(Tail(s)) = Len(s) - 1
         /\ Head(s) = s[1] /\ s[1] \in S /\ 1 \in 1..Len(s)
         /\ \A i \in 1..(Len(s) - 1) : Tail(s)[i] = s[i + 1] /\ i + 1 \in 1..Len(s) /\ i + 1 # 1
         /\ \A i \in 1..Len(s) : i = 1 \/ (i - 1 \in 1..(Len(s) - 1) /\ Tail(s)[i - 1] = s[i])
  OBVIOUS

(* The page rows of a series, and those of one without books.              *)
LEMMA RowsType ==
  ASSUME NEW s \in Series
  PROVE  PageRows(s) \in Nat /\ (Books(s) = {} => PageRows(s) = 0)
  <1> DEFINE B == {i \in Books(s) : result[s][i] \in {"read", "halfRead"}}
  <1>1. B \in SUBSET Books(s) /\ IsFiniteSet(Books(s))
    BY Library
  <1>2. IsFiniteSet(B)
    BY <1>1, FS_Subset
  <1>3. \A i \in B : Pages[s][i] \in Nat
    BY Library
  <1>4. SumFunctionOnSet(Pages[s], B) \in Nat
    <2> HIDE DEF B
    <2>1. QED
      BY <1>2, <1>3, SumType
  <1>5. ASSUME Books(s) = {} PROVE SumFunctionOnSet(Pages[s], B) = 0
    <2>1. B = {}
      BY <1>5
    <2>2. QED
      BY <2>1, SumEmpty
  <1>6. QED
    BY <1>4, <1>5 DEF PageRows

(* A series in flight gave its rows to the budget.                         *)
LEMMA GivenBack ==
  ASSUME IInv, NEW s \in Holders
  PROVE  held - PageRows(s) \in Nat
  <1>1. Holders \in SUBSET Series /\ IsFiniteSet(Holders)
    BY Library, FS_Subset DEF Holders
  <1>2. \A t \in Holders : Rows[t] \in Nat /\ Rows[t] = PageRows(t)
    BY <1>1, RowsType DEF Rows
  <1> HIDE DEF Holders, Rows
  <1>3. Rows[s] <= SumFunctionOnSet(Rows, Holders) /\ SumFunctionOnSet(Rows, Holders) \in Nat
    BY <1>1, <1>2, SumBounds, SumType
  <1>4. QED
    BY <1>2, <1>3 DEF IInv, Budget

\* The inductive invariant holds at the start.
LEMMA InitIInv == Init => IInv
  <1> SUFFICES ASSUME Init PROVE IInv
    OBVIOUS
  <1>0. /\ Series = 1..Len(Pages) /\ Len(Pages) \in Nat
        /\ \A s \in Series : \A i \in Books(s) : i \in Nat \ {0}
    BY Library
  <1>1. TypeOK
    <2>1. /\ walkAt \in (1..Len(Pages) + 1) \X Nat
          /\ {cancelled, aborted, walking, failed, outErr} \subseteq BOOLEAN
          /\ walkErr \in {"none", "cancelled", "disk"}
      <3>1. walkAt \in (1..Len(Pages) + 1) \X Nat /\ walkErr \in {"none", "cancelled", "disk"}
        BY <1>0 DEF Init
      <3>2. cancelled = FALSE /\ aborted = FALSE /\ walking = TRUE /\ failed = FALSE /\ outErr = FALSE
        BY DEF Init
      <3>3. QED
        BY <3>1, <3>2
    <2>2. /\ bookCh \in Seq(Series \X Nat) /\ Len(bookCh) <= BookBuffer
          /\ resCh \in Seq(Series) /\ Len(resCh) <= ResultBuffer
      BY PipelineAssumption DEF Init
    <2>3. worker \in [Workers -> [at : {"idle", "taken", "reading", "budget", "waiting", "offer", "exited"},
                               job : {<<0, 0>>} \cup (Series \X Nat)]]
      BY DEF Init
    <2>4. \A s \in Series : result[s] \in [Books(s) -> Results]
      BY DEF Init, Results
    <2>5. remaining \in [Series -> Nat] /\ held \in Nat
      BY DEF Init
    <2>6. /\ writer \in [at : {"receive", "row", "written", "ended", "decided", "done"},
                         row : {<<0, 0>>} \cup Facts]
          /\ stamps \subseteq Facts /\ tx \subseteq Facts /\ durable \subseteq Facts
          /\ outcome \in {"none", "sweep", "keep", "swept", "sweepFailed"}
      BY DEF Init
    <2>7. QED
      BY <2>1, <2>2, <2>3, <2>4, <2>5, <2>6 DEF TypeOK
  <1>2. Shape /\ Jobs /\ JobsApart /\ NoneIsLost
    <2>1. Shape
      BY DEF Init, Shape
    <2>2. \A s \in Series : \A i \in Books(s) : ~Fed(s, i) /\ i \in Open(s)
      BY <1>0 DEF Init, Fed, Open
    <2>3. Jobs /\ NoneIsLost
      BY <2>2 DEF Init, Jobs, NoneIsLost, Reading, Open
    <2>4. JobsApart
      BY DEF Init, JobsApart, Reading
    <2>5. QED
      BY <2>1, <2>3, <2>4
  <1>3. Counted /\ Carried /\ CarriedApart /\ Written /\ Stops /\ SweepSeesTheWholeRoot
    BY <1>0 DEF Init, Counted, Begun, Carried, CarriedApart, Carrying, Writing, Written, Settled,
                Stops, PipeDone, SweepSeesTheWholeRoot, Books
  <1>4. Budget
    <2>1. Holders = {}
      BY DEF Init, Holders, Holding
    <2>2. QED
      BY <2>1, SumEmpty, PipelineAssumption DEF Init, Budget
  <1>5. QED
    BY <1>1, <1>2, <1>3, <1>4 DEF IInv

(* What settling book i of series s with r does.                           *)
Settles(w, s, i, r) ==
    /\ worker[w].at \in Reading /\ Job(w) = <<s, i>> /\ Fed(s, i)
    /\ r \in {"aborted", "halfRead"} => PipeDone
    /\ result' = [t \in Series |-> result'[t]]
    /\ \A t \in Series : t # s => result'[t] = result[t]
    /\ result'[s] \in [Books(s) -> Results] /\ result'[s][i] = r
    /\ \A j \in Books(s) : j # i => result'[s][j] = result[s][j]
    /\ Open(s)' = Open(s) \ {i} /\ \A t \in Series : t # s => Open(t)' = Open(t)
    /\ remaining[s] = Cardinality(Open(s)) /\ remaining' = [remaining EXCEPT ![s] = @ - 1]
    /\ Cardinality(Open(s)') = Cardinality(Open(s)) - 1 /\ Cardinality(Open(s)) \in Nat \ {0}
    /\ \/ Open(s)' = {} /\ worker' = [worker EXCEPT ![w] = [at |-> "budget", job |-> <<s, 0>>]]
       \/ Open(s)' # {} /\ worker' = [worker EXCEPT ![w] = [at |-> "idle", job |-> <<0, 0>>]]
    /\ UNCHANGED <<cancelled, aborted, walk, bookCh, held, resCh, writer, failed, rows, end>>

(* A worker settles one open book, and takes the series on with the last.  *)
LEMMA Settling ==
  ASSUME IInv, NEW w \in Workers, SkipBook(w) \/ FinishBook(w)
  PROVE  \E s \in Series, r \in Results \ {"none"}, i \in Nat :
           i \in Open(s) /\ i \in Books(s) /\ Settles(w, s, i, r)
  <1>1. worker[w].at \in Reading
    BY DEF SkipBook, FinishBook, Reading
  <1>2. PICK r \in Results \ {"none"} : Settle(w, r) /\ (r \in {"aborted", "halfRead"} => PipeDone)
    BY DEF SkipBook, FinishBook, Results
  <1>3. PICK s \in Series, i \in Nat : i \in Open(s) /\ Job(w) = <<s, i>> /\ Fed(s, i)
    <2>1. OpenBook(Job(w)) /\ worker[w].job \in {<<0, 0>>} \cup (Series \X Nat)
      BY <1>1 DEF IInv, Jobs, TypeOK
    <2>2. Job(w)[1] \in Series /\ Job(w)[2] \in Nat /\ Job(w) = <<Job(w)[1], Job(w)[2]>>
      BY <2>1, Library DEF OpenBook, Open, Job
    <2>3. QED
      BY <2>1, <2>2 DEF OpenBook
  <1>4. /\ result' = [result EXCEPT ![s][i] = r] /\ remaining' = [remaining EXCEPT ![s] = @ - 1]
        /\ remaining[s] = 1 => worker' = [worker EXCEPT ![w] = [at |-> "budget", job |-> <<s, 0>>]]
        /\ remaining[s] # 1 => worker' = [worker EXCEPT ![w] = [at |-> "idle", job |-> <<0, 0>>]]
    BY <1>2, <1>3 DEF Settle, Task, Job, Put
  <1>5. /\ i \in Books(s) /\ result[s][i] = "none" /\ result = [t \in Series |-> result[t]]
        /\ \A t \in Series : result[t] \in [Books(t) -> Results]
    <2>1. i \in Books(s) /\ result[s][i] = "none"
      BY <1>3 DEF Open
    <2>2. result = [t \in Series |-> result[t]]
      BY DEF IInv, Shape
    <2>3. \A t \in Series : result[t] \in [Books(t) -> Results]
      BY DEF IInv, TypeOK
    <2>4. QED
      BY <2>1, <2>2, <2>3
  <1>6. /\ result' = [t \in Series |-> result'[t]]
        /\ \A t \in Series : t # s => result'[t] = result[t]
        /\ result'[s] = [result[s] EXCEPT ![i] = r]
    BY <1>4, <1>5
  <1>7. /\ result'[s] \in [Books(s) -> Results] /\ result'[s][i] = r
        /\ \A j \in Books(s) : j # i => result'[s][j] = result[s][j]
    BY <1>5, <1>6
  <1>8. Open(s)' = Open(s) \ {i} /\ \A t \in Series : t # s => Open(t)' = Open(t)
    BY <1>6, <1>7 DEF Open
  <1>9. IsFiniteSet(Open(s)) /\ Cardinality(Open(s)) \in Nat
    <2>1. Open(s) \in SUBSET Books(s) /\ IsFiniteSet(Books(s))
      BY Library DEF Open
    <2>2. IsFiniteSet(Open(s))
      BY <2>1, FS_Subset
    <2>3. QED
      BY <2>2, FS_CardinalityType
  <1>10. Cardinality(Open(s) \ {i}) = Cardinality(Open(s)) - 1 /\ Cardinality(Open(s)) # 0
    <2>1. Cardinality(Open(s) \ {i}) = Cardinality(Open(s)) - 1
      BY <1>3, <1>9, FS_RemoveElement
    <2>2. Cardinality(Open(s)) # 0
      BY <1>3, <1>9, FS_EmptySet
    <2>3. QED
      BY <2>1, <2>2
  <1>11. IsFiniteSet(Open(s) \ {i}) /\ (Cardinality(Open(s) \ {i}) = 0 <=> Open(s) \ {i} = {})
    <2>1. IsFiniteSet(Open(s) \ {i})
      BY <1>9, FS_RemoveElement
    <2>2. QED
      BY <2>1, FS_EmptySet
  <1>12. remaining[s] = Cardinality(Open(s))
    <2>1. Begun(s)
      BY <1>3, <1>5, Library DEF Begun, Fed, IInv, TypeOK
    <2>2. QED
      BY <2>1 DEF IInv, Counted
  <1>13. UNCHANGED <<cancelled, aborted, walk, bookCh, held, resCh, writer, failed, rows, end>>
    BY DEF SkipBook, FinishBook, walk, rows, end
  <1>14. Cardinality(Open(s)') = Cardinality(Open(s)) - 1
    BY <1>8, <1>10
  <1>15. \/ Open(s)' = {} /\ worker' = [worker EXCEPT ![w] = [at |-> "budget", job |-> <<s, 0>>]]
         \/ Open(s)' # {} /\ worker' = [worker EXCEPT ![w] = [at |-> "idle", job |-> <<0, 0>>]]
    <2>1. remaining[s] = 1 <=> Open(s)' = {}
      BY <1>8, <1>9, <1>10, <1>11, <1>12
    <2>2. QED
      BY <1>4, <2>1
  <1>16. Settles(w, s, i, r)
    BY <1>1, <1>2, <1>3, <1>4, <1>6, <1>7, <1>8, <1>9, <1>10, <1>12, <1>13, <1>14, <1>15 DEF Settles
  <1>17. QED
    BY <1>3, <1>5, <1>16

(* Every step keeps the types.                                             *)
LEMMA TypeStep == IInv /\ [Next]_vars => TypeOK'
  <1> SUFFICES ASSUME IInv, [Next]_vars PROVE TypeOK'
    OBVIOUS
  <1> USE DEF TypeOK, walk, rows, end
  <1>0. /\ TypeOK /\ Series = 1..Len(Pages) /\ Len(Pages) \in Nat
        /\ BookBuffer \in Nat /\ ResultBuffer \in Nat
        /\ result = [s \in Series |-> result[s]]
    BY Library, PipelineAssumption DEF IInv, Shape
  <1>a. worker \in [Workers -> [at : {"idle", "taken", "reading", "budget", "waiting", "offer", "exited"},
                               job : {<<0, 0>>} \cup (Series \X Nat)]]
    BY <1>0
  <1>b. writer \in [at : {"receive", "row", "written", "ended", "decided", "done"}, row : {<<0, 0>>} \cup Facts]
    BY <1>0
  <1>1. CASE UNCHANGED vars
    BY <1>0, <1>1 DEF vars
  <1>2. CASE WalkFails
    BY <1>2, <1>0 DEF WalkFails, StopWalk
  <1>3. CASE WalkCancelled
    BY <1>3, <1>0 DEF WalkCancelled, StopWalk
  <1>4. CASE WalkSeries
    <2>1. walkAt' \in (1..Len(Pages) + 1) \X Nat /\ remaining' \in [Series -> Nat]
      BY <1>4, <1>0, Library DEF WalkSeries
    <2>2. QED
      BY <1>4, <1>0, <2>1 DEF WalkSeries
  <1>5. CASE FeedBook
    <2>1. walkAt \in Series \X Nat /\ walkAt[2] + 1 \in Nat
      BY <1>5, <1>0 DEF FeedBook
    <2>2. bookCh' \in Seq(Series \X Nat) /\ Len(bookCh') <= BookBuffer
      BY <1>5, <1>0, <2>1 DEF FeedBook
    <2>3. walkAt' \in (1..Len(Pages) + 1) \X Nat
      <3>1. walkAt' = <<walkAt[1] + 1, 0>> \/ walkAt' = <<walkAt[1], walkAt[2] + 1>>
        BY <1>5 DEF FeedBook, NextSeries
      <3>2. walkAt[1] + 1 \in 1..Len(Pages) + 1 /\ walkAt[1] \in 1..Len(Pages) + 1
        BY <2>1, <1>0
      <3>3. QED
        BY <3>1, <3>2, <2>1
    <2>4. QED
      BY <1>5, <1>0, <2>2, <2>3 DEF FeedBook
  <1>6. CASE OfferEmpty
    <2>1. resCh' \in Seq(Series) /\ Len(resCh') <= ResultBuffer
      BY <1>6, <1>0 DEF OfferEmpty
    <2>2. walkAt' \in (1..Len(Pages) + 1) \X Nat
      BY <1>6, <1>0 DEF OfferEmpty, NextSeries
    <2>3. QED
      BY <1>6, <1>0, <2>1, <2>2 DEF OfferEmpty
  <1>7. CASE WalkEnds
    BY <1>7, <1>0 DEF WalkEnds, StopWalk
  <1>8. ASSUME NEW w \in Workers, Take(w)
        PROVE  TypeOK'
    <2>1. /\ Head(bookCh) \in Series \X Nat /\ Tail(bookCh) \in Seq(Series \X Nat)
          /\ Len(Tail(bookCh)) <= BookBuffer
      <3>1. bookCh # <<>> /\ bookCh \in Seq(Series \X Nat) /\ Len(bookCh) <= BookBuffer /\ BookBuffer \in Nat
        BY <1>8, <1>0 DEF Take
      <3>2. /\ Head(bookCh) \in Series \X Nat /\ Tail(bookCh) \in Seq(Series \X Nat)
            /\ Len(Tail(bookCh)) = Len(bookCh) - 1 /\ Len(bookCh) \in Nat
        BY <3>1, Received
      <3>3. QED
        BY <3>1, <3>2
    <2>2. QED
      BY <1>8, <1>0, <2>1 DEF Take, Put
  <1>9. ASSUME NEW w \in Workers, Exit(w)
        PROVE  TypeOK'
    BY <1>9, <1>0 DEF Exit, Put, Job, Task
  <1>10. ASSUME NEW w \in Workers, SkipBook(w)
        PROVE  TypeOK'
    <2>1. PICK s \in Series, r \in Results \ {"none"}, i \in Nat :
            i \in Open(s) /\ i \in Books(s) /\ Settles(w, s, i, r)
      BY <1>10, Settling
    <2> USE <2>1 DEF Settles
    <2>2. \A t \in Series : result'[t] \in [Books(t) -> Results]
      BY <1>0
    <2>3. remaining' \in [Series -> Nat]
      <3>1. remaining[s] - 1 \in Nat /\ remaining' = [remaining EXCEPT ![s] = remaining[s] - 1]
        OBVIOUS
      <3>2. QED
        BY <3>1, <1>0
    <2>4. worker' \in [Workers -> [at : {"idle", "taken", "reading", "budget", "waiting", "offer", "exited"},
                              job : {<<0, 0>>} \cup (Series \X Nat)]]
      <3>1. <<s, 0>> \in Series \X Nat
        OBVIOUS
      <3>2. \/ worker' = [worker EXCEPT ![w] = [at |-> "budget", job |-> <<s, 0>>]]
            \/ worker' = [worker EXCEPT ![w] = [at |-> "idle", job |-> <<0, 0>>]]
        OBVIOUS
      <3> HIDE <2>1 DEF Settles
      <3>3. QED
        BY <1>a, <3>1, <3>2
    <2>5. UNCHANGED <<cancelled, aborted, walk, bookCh, held, resCh, writer, failed, rows, end>>
      OBVIOUS
    <2>6. QED
      BY <2>2, <2>3, <2>4, <2>5, <1>0
  <1>11. ASSUME NEW w \in Workers, ReadBook(w)
        PROVE  TypeOK'
    BY <1>11, <1>0 DEF ReadBook, Put, Job, Task
  <1>12. ASSUME NEW w \in Workers, FinishBook(w)
        PROVE  TypeOK'
    <2>1. PICK s \in Series, r \in Results \ {"none"}, i \in Nat :
            i \in Open(s) /\ i \in Books(s) /\ Settles(w, s, i, r)
      BY <1>12, Settling
    <2> USE <2>1 DEF Settles
    <2>2. \A t \in Series : result'[t] \in [Books(t) -> Results]
      BY <1>0
    <2>3. remaining' \in [Series -> Nat]
      <3>1. remaining[s] - 1 \in Nat /\ remaining' = [remaining EXCEPT ![s] = remaining[s] - 1]
        OBVIOUS
      <3>2. QED
        BY <3>1, <1>0
    <2>4. worker' \in [Workers -> [at : {"idle", "taken", "reading", "budget", "waiting", "offer", "exited"},
                              job : {<<0, 0>>} \cup (Series \X Nat)]]
      <3>1. <<s, 0>> \in Series \X Nat
        OBVIOUS
      <3>2. \/ worker' = [worker EXCEPT ![w] = [at |-> "budget", job |-> <<s, 0>>]]
            \/ worker' = [worker EXCEPT ![w] = [at |-> "idle", job |-> <<0, 0>>]]
        OBVIOUS
      <3> HIDE <2>1 DEF Settles
      <3>3. QED
        BY <1>a, <3>1, <3>2
    <2>5. UNCHANGED <<cancelled, aborted, walk, bookCh, held, resCh, writer, failed, rows, end>>
      OBVIOUS
    <2>6. QED
      BY <2>2, <2>3, <2>4, <2>5, <1>0
  <1>13. ASSUME NEW w \in Workers, AcquireBudget(w)
        PROVE  TypeOK'
    <2>1. Task(w) \in Series
      BY <1>13 DEF AcquireBudget, IInv, Carried, Carrying, Settled
    <2>2. PageRows(Task(w)) \in Nat
      BY <2>1, RowsType
    <2>3. held' \in Nat
      BY <1>13, <1>0, <2>2 DEF AcquireBudget
    <2>4. QED
      BY <1>13, <1>0, <2>3 DEF AcquireBudget, Put, Job
  <1>14. ASSUME NEW w \in Workers, WaitForBudget(w)
        PROVE  TypeOK'
    BY <1>14, <1>0 DEF WaitForBudget, Put, Job, Task
  <1>15. ASSUME NEW w \in Workers, BudgetCancelled(w)
        PROVE  TypeOK'
    BY <1>15, <1>0 DEF BudgetCancelled, Put, Job, Task
  <1>16. ASSUME NEW w \in Workers, Offer(w)
        PROVE  TypeOK'
    <2>1. Task(w) \in Series
      BY <1>16 DEF Offer, IInv, Carried, Carrying, Settled
    <2>2. resCh' \in Seq(Series) /\ Len(resCh') <= ResultBuffer
      BY <1>16, <1>0, <2>1 DEF Offer
    <2>3. QED
      BY <1>16, <1>0, <2>2 DEF Offer, Put
  <1>17. ASSUME NEW w \in Workers, OfferCancelled(w)
        PROVE  TypeOK'
    <2>1. Task(w) \in Holders
      BY <1>17 DEF OfferCancelled, IInv, Carried, Carrying, Settled, Holders, Holding
    <2>2. held' \in Nat
      BY <1>17, <2>1, GivenBack DEF OfferCancelled
    <2>3. QED
      BY <1>17, <1>0, <2>2 DEF OfferCancelled, Put
  <1>18. CASE Receive
    <2>1. resCh # <<>> /\ resCh' = Tail(resCh) /\ Head(resCh) \in Series
      <3>1. resCh # <<>> /\ resCh' = Tail(resCh) /\ resCh \in Seq(Series)
        BY <1>18, <1>0 DEF Receive
      <3>2. QED
        BY <3>1, Received
    <2>2. resCh' \in Seq(Series) /\ Len(resCh') <= ResultBuffer
      BY <2>1, <1>0
    <2>3. Head(resCh) \in Holders
      <3>1. 1 \in DOMAIN resCh /\ Head(resCh) = resCh[1]
        BY <2>1, <1>0
      <3>2. QED
        BY <2>1, <3>1 DEF Holders, Holding
    <2>4. held - PageRows(Head(resCh)) \in Nat
      BY <2>3, GivenBack
    <2>5. held' \in Nat
      BY <1>18, <1>0, <2>4 DEF Receive
    <2>6. <<Head(resCh), 0>> \in Facts
      BY <2>1 DEF Facts
    <2>7. writer' \in [at : {"receive", "row", "written", "ended", "decided", "done"}, row : {<<0, 0>>} \cup Facts]
      <3>1. writer' = writer \/ writer' = [at |-> "row", row |-> <<Head(resCh), 0>>]
        BY <1>18 DEF Receive
      <3>2. QED
        BY <3>1, <1>b, <2>6
    <2>8. QED
      BY <1>18, <1>0, <2>2, <2>5, <2>7 DEF Receive
  <1>19. CASE Tick
    BY <1>19, <1>0 DEF Tick, Commit, Fail
  <1>20. CASE WriteRow
    <2>1. writer.row \in Facts /\ writer.row[1] \in Series /\ writer.row[2] \in Int
      BY <1>20 DEF WriteRow, Facts, IInv, Carried, Writing, Settled, TypeOK
    <2>2. ASSUME NEW i \in Int, i \in Books(writer.row[1]) \/ -i \in Books(writer.row[1]) \/ i = 0
          PROVE  <<writer.row[1], i>> \in Facts
      BY <2>1, <2>2 DEF Facts
    <2>3. writer' \in [at : {"receive", "row", "written", "ended", "decided", "done"}, row : {<<0, 0>>} \cup Facts]
      <3>1. CASE writer.row[2] > 0
        <4>1. -(-writer.row[2]) = writer.row[2] /\ writer.row[2] \in Books(writer.row[1])
          BY <3>1, <2>1, Library DEF Facts
        <4>2. <<writer.row[1], -writer.row[2]>> \in Facts
          BY <4>1, <2>1, <2>2
        <4>3. writer' = [writer EXCEPT !.row = <<writer.row[1], -writer.row[2]>>]
          BY <1>20, <3>1 DEF WriteRow
        <4>4. QED
          BY <4>2, <4>3, <1>0
      <3>2. CASE ~(writer.row[2] > 0)
        <4>1. <<writer.row[1], 0>> \in Facts
          BY <2>2
        <4>2. ASSUME 1 - writer.row[2] \in Books(writer.row[1])
              PROVE  <<writer.row[1], 1 - writer.row[2]>> \in Facts
          BY <2>1, <2>2, <4>2
        <4>3. QED
          BY <1>20, <3>2, <4>1, <4>2 DEF WriteRow, ToBook
      <3>3. QED
        BY <3>1, <3>2
    <2>4. tx' \subseteq Facts /\ durable' \subseteq Facts
      BY <1>20, <2>1, <1>0 DEF WriteRow, Insert, Commit
    <2>5. QED
      BY <1>20, <1>0, <2>3, <2>4 DEF WriteRow, Insert, Commit
  <1>21. CASE WriteFails
    <2>1. writer.row[1] \in Holders
      BY <1>21 DEF WriteFails, IInv, Carried, Writing, Settled, Holders, Holding
    <2>2. held' \in Nat
      BY <1>21, <2>1, GivenBack DEF WriteFails
    <2>3. QED
      BY <1>21, <1>0, <2>2 DEF WriteFails, Fail, Ready
  <1>22. CASE Stamp
    <2>1. writer.row \in Facts /\ writer.row[1] \in Series /\ writer.row[2] \in Int
      BY <1>22 DEF Stamp, Facts, IInv, Carried, Writing, Settled, TypeOK
    <2>2. /\ <<writer.row[1], 0>> \in Facts
          /\ writer.row[2] + 1 \in Books(writer.row[1]) => <<writer.row[1], writer.row[2] + 1>> \in Facts
      BY <2>1 DEF Facts
    <2>3. QED
      BY <1>22, <1>0, <2>1, <2>2 DEF Stamp, ToBook
  <1>23. CASE EndSeries
    <2>1. writer.row[1] \in Holders
      BY <1>23 DEF EndSeries, IInv, Carried, Writing, Settled, Holders, Holding
    <2>2. held' \in Nat
      BY <1>23, <2>1, GivenBack DEF EndSeries
    <2>3. /\ {cancelled', aborted', walking', failed', outErr'} \subseteq BOOLEAN
          /\ stamps' \subseteq Facts /\ tx' \subseteq Facts /\ durable' \subseteq Facts
      BY <1>23, <1>0 DEF EndSeries, Insert, Commit, Fail
    <2>4. QED
      BY <1>23, <1>0, <2>2, <2>3 DEF EndSeries, Ready
  <1>24. CASE WriterEnds
    BY <1>24, <1>0 DEF WriterEnds, Ready, Commit
  <1>25. CASE DecideSweep
    <2>1. outErr' \in BOOLEAN /\ outcome' \in {"keep", "sweep"}
      BY <1>25, <1>0 DEF DecideSweep, RootErr
    <2>2. QED
      BY <1>25, <1>0, <2>1 DEF DecideSweep
  <1>26. CASE Sweep
    BY <1>26, <1>0 DEF Sweep
  <1>27. CASE Cancel
    BY <1>27, <1>0 DEF Cancel
  <1>q. QED
    BY <1>1, <1>2, <1>3, <1>4, <1>5, <1>6, <1>7, <1>8, <1>9, <1>10, <1>11, <1>12, <1>13, <1>14, <1>15, <1>16, <1>17, <1>18, <1>19, <1>20, <1>21, <1>22, <1>23, <1>24, <1>25, <1>26, <1>27 DEF Next, WalkStep, WorkStep, WriteStep

-----------------------------------------------------------------------------
(* What the walker does to the frontier between books fed and not.         *)
Feeds(s, i) ==
    /\ walkAt = <<s, i>> /\ i \in Books(s) /\ i \in Open(s) /\ <<s, i>> \in Series \X Nat
    /\ bookCh' = Append(bookCh, <<s, i>>)
    /\ \A t \in Series : t < walkAt'[1] => t < walkAt[1] \/ (t = s /\ i = Len(Pages[s]))
    /\ \A t \in Series : t < walkAt[1] => t < walkAt'[1]
    /\ \A t \in Series : Begun(t)' = Begun(t)
    /\ \A t \in Series : \A j \in Books(t) : Fed(t, j)' <=> Fed(t, j) \/ (t = s /\ j = i)

\* FeedBook feeds the book the walk stands at.
LEMMA Feeding ==
  ASSUME IInv, FeedBook
  PROVE  \E s \in Series, i \in Nat : Feeds(s, i)
  <1>0. /\ walkAt \in (1..Len(Pages) + 1) \X Nat /\ Series = 1..Len(Pages) /\ Len(Pages) \in Nat
        /\ \A s \in Series : Len(Pages[s]) \in Nat /\ Books(s) = 1..Len(Pages[s])
    BY Library DEF IInv, TypeOK
  <1>1. PICK s \in Series, i \in Nat : walkAt = <<s, i>> /\ i \in Books(s)
    BY <1>0 DEF FeedBook
  <1>2. i \in Open(s)
    BY <1>0, <1>1 DEF IInv, Jobs, Fed
  <1>3. /\ bookCh' = Append(bookCh, <<s, i>>)
        /\ \/ i = Len(Pages[s]) /\ walkAt' = <<s + 1, 0>>
           \/ i # Len(Pages[s]) /\ walkAt' = <<s, i + 1>>
    BY <1>1 DEF FeedBook, NextSeries
  <1>4. ASSUME NEW t \in Series
        PROVE  /\ t < walkAt'[1] => t < walkAt[1] \/ (t = s /\ i = Len(Pages[s]))
               /\ t < walkAt[1] => t < walkAt'[1]
               /\ Begun(t)' = Begun(t)
    BY <1>0, <1>1, <1>3 DEF Begun
  <1>5. ASSUME NEW t \in Series, NEW j \in Books(t)
        PROVE  Fed(t, j)' <=> Fed(t, j) \/ (t = s /\ j = i)
    <2>1. /\ s \in Nat /\ i \in Nat /\ t \in Nat /\ j \in Nat /\ walkAt[1] = s /\ walkAt[2] = i
          /\ t = s => j <= Len(Pages[s])
          /\ Len(Pages[s]) \in Nat
      BY <1>0, <1>1
    <2>2. CASE i = Len(Pages[s]) /\ walkAt' = <<s + 1, 0>>
      BY <2>1, <2>2 DEF Fed
    <2>3. CASE i # Len(Pages[s]) /\ walkAt' = <<s, i + 1>>
      BY <2>1, <2>3 DEF Fed
    <2>4. QED
      BY <1>3, <2>2, <2>3
  <1>6. Feeds(s, i)
    BY <1>1, <1>2, <1>3, <1>4, <1>5 DEF Feeds
  <1>7. QED
    BY <1>1, <1>6

\* OfferEmpty passes a series without books.
LEMMA Skipping ==
  ASSUME IInv, OfferEmpty
  PROVE  \E s \in Series :
           /\ walkAt[1] = s /\ Books(s) = {} /\ resCh' = Append(resCh, s) /\ walkAt' = <<s + 1, 0>>
           /\ \A t \in Series : /\ t < walkAt'[1] <=> t < walkAt[1] \/ t = s
                                /\ Begun(t)' = Begun(t)
           /\ \A t \in Series : \A j \in Books(t) : Fed(t, j)' = Fed(t, j)
  <1>0. /\ walkAt \in (1..Len(Pages) + 1) \X Nat /\ Series = 1..Len(Pages) /\ Len(Pages) \in Nat
        /\ \A s \in Series : Len(Pages[s]) \in Nat /\ Books(s) = 1..Len(Pages[s])
    BY Library DEF IInv, TypeOK
  <1>1. PICK s \in Series : walkAt = <<s, 1>> /\ Books(s) = {}
    BY <1>0 DEF OfferEmpty
  <1>2. resCh' = Append(resCh, s) /\ walkAt' = <<s + 1, 0>>
    BY <1>1 DEF OfferEmpty, NextSeries
  <1>3. \A t \in Series : /\ t < walkAt'[1] <=> t < walkAt[1] \/ t = s
                          /\ Begun(t)' = Begun(t)
    BY <1>0, <1>1, <1>2 DEF Begun
  <1>4. ASSUME NEW t \in Series, NEW j \in Books(t)
        PROVE  Fed(t, j)' = Fed(t, j)
    BY <1>0, <1>1, <1>2 DEF Fed
  <1>5. QED
    BY <1>1, <1>2, <1>3, <1>4

(* Settling a book leaves every other book open.                           *)
LEMMA OthersStay ==
  ASSUME NEW w, NEW s \in Series, NEW i, NEW r, Settles(w, s, i, r), NEW b \in Series \X Nat, b # <<s, i>>
  PROVE  OpenBook(b)' = OpenBook(b)
  <1>1. b = <<b[1], b[2]>> /\ b[1] \in Series
    OBVIOUS
  <1>2. b[2] \in Open(b[1])' <=> b[2] \in Open(b[1])
    BY <1>1 DEF Settles
  <1>3. Fed(b[1], b[2])' = Fed(b[1], b[2])
    BY DEF Settles, Fed, walk
  <1>4. QED
    BY <1>2, <1>3 DEF OpenBook

(* Every step keeps the rest of the types.                                *)
LEMMA ShapeStep == IInv /\ [Next]_vars => Shape'
  <1> SUFFICES ASSUME IInv, [Next]_vars PROVE Shape'
    OBVIOUS
  <1> USE DEF Shape, walk, rows, end
  <1>0. /\ walkAt \in (1..Len(Pages) + 1) \X Nat /\ Series = 1..Len(Pages) /\ Len(Pages) \in Nat
        /\ \A s \in Series : Len(Pages[s]) \in Nat /\ Books(s) = 1..Len(Pages[s])
        /\ bookCh \in Seq(Series \X Nat) /\ resCh \in Seq(Series)
        /\ worker \in [Workers -> [at : {"idle", "taken", "reading", "budget", "waiting", "offer", "exited"},
                               job : {<<0, 0>>} \cup (Series \X Nat)]]
        /\ writer \in [at : {"receive", "row", "written", "ended", "decided", "done"}, row : {<<0, 0>>} \cup Facts]
    BY Library DEF IInv, TypeOK
  <1>i. Shape
    BY DEF IInv
  <1>1. CASE UNCHANGED vars
    BY <1>0, <1>i, <1>1 DEF vars
  <1>2. CASE WalkFails
    BY <1>2, <1>0, <1>i DEF WalkFails, StopWalk
  <1>3. CASE WalkCancelled
    BY <1>3, <1>0, <1>i DEF WalkCancelled, StopWalk
  <1>4. CASE WalkSeries
    BY <1>4, <1>0, <1>i DEF WalkSeries
  <1>5. CASE FeedBook
    BY <1>5, <1>0, <1>i DEF FeedBook, NextSeries
  <1>6. CASE OfferEmpty
    BY <1>6, <1>0, <1>i DEF OfferEmpty, NextSeries
  <1>7. CASE WalkEnds
    BY <1>7, <1>0, <1>i DEF WalkEnds, StopWalk
  <1>8. ASSUME NEW w \in Workers, Take(w)
        PROVE  Shape'
    BY <1>8, <1>0, <1>i DEF Take, Put, Job, Task
  <1>9. ASSUME NEW w \in Workers, Exit(w)
        PROVE  Shape'
    BY <1>9, <1>0, <1>i DEF Exit, Put, Job, Task
  <1>10. ASSUME NEW w \in Workers, SkipBook(w)
        PROVE  Shape'
    <2>1. PICK s \in Series, r \in Results \ {"none"}, i \in Nat :
            i \in Open(s) /\ i \in Books(s) /\ Settles(w, s, i, r)
      BY <1>10, Settling
    <2>2. QED
      BY <2>1, <1>0, <1>i DEF Settles
  <1>11. ASSUME NEW w \in Workers, ReadBook(w)
        PROVE  Shape'
    BY <1>11, <1>0, <1>i DEF ReadBook, Put, Job, Task
  <1>12. ASSUME NEW w \in Workers, FinishBook(w)
        PROVE  Shape'
    <2>1. PICK s \in Series, r \in Results \ {"none"}, i \in Nat :
            i \in Open(s) /\ i \in Books(s) /\ Settles(w, s, i, r)
      BY <1>12, Settling
    <2>2. QED
      BY <2>1, <1>0, <1>i DEF Settles
  <1>13. ASSUME NEW w \in Workers, AcquireBudget(w)
        PROVE  Shape'
    BY <1>13, <1>0, <1>i DEF AcquireBudget, Put, Job, Task
  <1>14. ASSUME NEW w \in Workers, WaitForBudget(w)
        PROVE  Shape'
    BY <1>14, <1>0, <1>i DEF WaitForBudget, Put, Job, Task
  <1>15. ASSUME NEW w \in Workers, BudgetCancelled(w)
        PROVE  Shape'
    BY <1>15, <1>0, <1>i DEF BudgetCancelled, Put, Job, Task
  <1>16. ASSUME NEW w \in Workers, Offer(w)
        PROVE  Shape'
    BY <1>16, <1>0, <1>i DEF Offer, Put, Job, Task
  <1>17. ASSUME NEW w \in Workers, OfferCancelled(w)
        PROVE  Shape'
    BY <1>17, <1>0, <1>i DEF OfferCancelled, Put, Job, Task
  <1>18. CASE Receive
    BY <1>18, <1>0, <1>i DEF Receive
  <1>19. CASE Tick
    BY <1>19, <1>0, <1>i DEF Tick, Commit, Fail
  <1>20. CASE WriteRow
    <2>1. UNCHANGED <<walk, result>> /\ writer.at = "row"
      BY <1>20 DEF WriteRow
    <2>2. \/ writer' = [writer EXCEPT !.row = <<writer.row[1], -writer.row[2]>>]
          \/ writer'.at = "row" \/ writer'.row[2] = 0
      BY <1>20 DEF WriteRow, ToBook
    <2>3. writer'.at = "row" \/ writer'.row[2] = 0
      BY <2>1, <2>2, <1>0
    <2>4. QED
      BY <2>1, <2>3, <1>i
  <1>21. CASE WriteFails
    BY <1>21, <1>0, <1>i DEF WriteFails, Fail, Ready
  <1>22. CASE Stamp
    BY <1>22, <1>0, <1>i DEF Stamp, ToBook
  <1>23. CASE EndSeries
    BY <1>23, <1>0, <1>i DEF EndSeries, Insert, Commit, Fail, Ready
  <1>24. CASE WriterEnds
    BY <1>24, <1>0, <1>i DEF WriterEnds, Ready, Commit
  <1>25. CASE DecideSweep
    BY <1>25, <1>0, <1>i DEF DecideSweep
  <1>26. CASE Sweep
    BY <1>26, <1>0, <1>i DEF Sweep
  <1>27. CASE Cancel
    BY <1>27, <1>0, <1>i DEF Cancel
  <1>q. QED
    BY <1>1, <1>2, <1>3, <1>4, <1>5, <1>6, <1>7, <1>8, <1>9, <1>10, <1>11, <1>12, <1>13, <1>14, <1>15, <1>16, <1>17, <1>18, <1>19, <1>20, <1>21, <1>22, <1>23, <1>24, <1>25, <1>26, <1>27 DEF Next, WalkStep, WorkStep, WriteStep

(* The walker feeds open books, and only who has a book settles it.       *)
LEMMA JobsStep == IInv /\ [Next]_vars => Jobs'
  <1> SUFFICES ASSUME IInv, [Next]_vars PROVE Jobs'
    OBVIOUS
  <1> USE DEF Reading, Job, walk, rows, end
  <1>0. /\ walkAt \in (1..Len(Pages) + 1) \X Nat /\ Series = 1..Len(Pages) /\ Len(Pages) \in Nat
        /\ \A s \in Series : Len(Pages[s]) \in Nat /\ Books(s) = 1..Len(Pages[s])
        /\ bookCh \in Seq(Series \X Nat) /\ resCh \in Seq(Series)
        /\ worker \in [Workers -> [at : {"idle", "taken", "reading", "budget", "waiting", "offer", "exited"},
                               job : {<<0, 0>>} \cup (Series \X Nat)]]
        /\ writer \in [at : {"receive", "row", "written", "ended", "decided", "done"}, row : {<<0, 0>>} \cup Facts]
    BY Library DEF IInv, TypeOK
  <1>i. Jobs /\ JobsApart
    BY DEF IInv
  <1>k. ASSUME UNCHANGED <<bookCh, result>>,
               \A t \in Series : \A j \in Books(t) : Fed(t, j)' = Fed(t, j),
               \A v \in Workers : worker'[v].at \in Reading =>
                  worker[v].at \in Reading /\ worker'[v].job = worker[v].job
        PROVE  Jobs'
    BY <1>i, <1>k DEF Jobs, OpenBook, Open
  <1>1. CASE UNCHANGED vars
    <2>1. /\ UNCHANGED <<bookCh, result>>
          /\ \A v \in Workers : worker'[v].at \in Reading =>
                worker[v].at \in Reading /\ worker'[v].job = worker[v].job
      BY <1>1, <1>0 DEF vars
    <2>2. \A t \in Series : \A j \in Books(t) : Fed(t, j)' = Fed(t, j)
      BY <1>1, <1>0 DEF Fed, vars
    <2>3. QED
      BY <2>1, <2>2, <1>k
  <1>2. CASE WalkFails
    <2>1. /\ UNCHANGED <<bookCh, result>>
          /\ \A v \in Workers : worker'[v].at \in Reading =>
                worker[v].at \in Reading /\ worker'[v].job = worker[v].job
      BY <1>2, <1>0 DEF WalkFails, StopWalk
    <2>2. \A t \in Series : \A j \in Books(t) : Fed(t, j)' = Fed(t, j)
      BY <1>2, <1>0 DEF Fed, WalkFails, StopWalk
    <2>3. QED
      BY <2>1, <2>2, <1>k
  <1>3. CASE WalkCancelled
    <2>1. /\ UNCHANGED <<bookCh, result>>
          /\ \A v \in Workers : worker'[v].at \in Reading =>
                worker[v].at \in Reading /\ worker'[v].job = worker[v].job
      BY <1>3, <1>0 DEF WalkCancelled, StopWalk
    <2>2. \A t \in Series : \A j \in Books(t) : Fed(t, j)' = Fed(t, j)
      BY <1>3, <1>0 DEF Fed, WalkCancelled, StopWalk
    <2>3. QED
      BY <2>1, <2>2, <1>k
  <1>4. CASE WalkSeries
    <2>1. /\ UNCHANGED <<bookCh, result>>
          /\ \A v \in Workers : worker'[v].at \in Reading =>
                worker[v].at \in Reading /\ worker'[v].job = worker[v].job
      BY <1>4, <1>0 DEF WalkSeries
    <2>2. \A t \in Series : \A j \in Books(t) : Fed(t, j)' = Fed(t, j)
      BY <1>4, <1>0 DEF Fed, WalkSeries
    <2>3. QED
      BY <2>1, <2>2, <1>k
  <1>5. CASE FeedBook
    <2>1. PICK s \in Series, i \in Nat :
            /\ i \in Books(s) /\ i \in Open(s) /\ <<s, i>> \in Series \X Nat
            /\ bookCh' = Append(bookCh, <<s, i>>)
            /\ \A t \in Series : \A j \in Books(t) : Fed(t, j)' <=> Fed(t, j) \/ (t = s /\ j = i)
      <3>1. PICK s \in Series, i \in Nat : Feeds(s, i)
        BY <1>5, Feeding
      <3>2. QED
        BY <3>1 DEF Feeds
    <2>2. UNCHANGED <<worker, result>>
      BY <1>5 DEF FeedBook
    <2>3. \A b : OpenBook(b) => OpenBook(b)'
      BY <2>1, <2>2 DEF OpenBook, Open
    <2>4. OpenBook(<<s, i>>)'
      BY <2>1, <2>2 DEF OpenBook, Open
    <2>5. (\A k \in 1..Len(bookCh) : OpenBook(bookCh[k]))'
      <3> SUFFICES ASSUME NEW k \in 1..Len(bookCh') PROVE OpenBook(bookCh[k])'
        OBVIOUS
      <3>0. bookCh \in Seq(Series \X Nat) /\ <<s, i>> \in Series \X Nat
        BY <2>1, <1>0
      <3>1. \/ k \in 1..Len(bookCh) /\ bookCh'[k] = bookCh[k]
            \/ bookCh'[k] = <<s, i>>
        BY <3>0, <2>1, Sent
      <3>2. CASE k \in 1..Len(bookCh) /\ bookCh'[k] = bookCh[k]
        <4>1. OpenBook(bookCh[k])
          BY <3>2, <1>i DEF Jobs
        <4>2. QED
          BY <4>1, <3>2, <2>3 DEF OpenBook, Open
      <3>3. CASE bookCh'[k] = <<s, i>>
        BY <3>3, <2>4 DEF OpenBook, Open
      <3>4. QED
        BY <3>1, <3>2, <3>3
    <2>6. ASSUME NEW v \in Workers, worker'[v].at \in Reading
          PROVE  OpenBook(Job(v))'
      <3>1. OpenBook(Job(v)) /\ Job(v)' = Job(v)
        BY <2>2, <2>6, <1>i DEF Jobs
      <3>2. QED
        BY <3>1, <2>1, <2>2 DEF OpenBook, Open
    <2>7. ASSUME NEW t \in Series, NEW j \in Books(t), ~Fed(t, j)'
          PROVE  j \in Open(t)'
      BY <2>1, <2>2, <2>7, <1>i DEF Jobs, Open
    <2>8. QED
      BY <2>5, <2>6, <2>7 DEF Jobs
  <1>6. CASE OfferEmpty
    <2>1. \A t \in Series : \A j \in Books(t) : Fed(t, j)' = Fed(t, j)
      BY <1>6, Skipping
    <2>2. UNCHANGED <<bookCh, worker, result>>
      BY <1>6 DEF OfferEmpty
    <2>3. QED
      BY <2>1, <2>2, <1>i DEF Jobs, OpenBook, Job, Open
  <1>7. CASE WalkEnds
    <2>1. /\ UNCHANGED <<bookCh, result>>
          /\ \A v \in Workers : worker'[v].at \in Reading =>
                worker[v].at \in Reading /\ worker'[v].job = worker[v].job
      BY <1>7, <1>0 DEF WalkEnds, StopWalk
    <2>2. \A t \in Series : \A j \in Books(t) : Fed(t, j)' = Fed(t, j)
      BY <1>7, <1>0 DEF Fed, WalkEnds, StopWalk
    <2>3. QED
      BY <2>1, <2>2, <1>k
  <1>8. ASSUME NEW w \in Workers, Take(w)
        PROVE  Jobs'
    BY <1>8, <1>0, <1>i DEF Take, Put, Job, Task, Jobs, OpenBook, Fed, Open
  <1>9. ASSUME NEW w \in Workers, Exit(w)
        PROVE  Jobs'
    <2>1. /\ UNCHANGED <<bookCh, result>>
          /\ \A v \in Workers : worker'[v].at \in Reading =>
                worker[v].at \in Reading /\ worker'[v].job = worker[v].job
      BY <1>9, <1>0 DEF Exit, Put, Job, Task
    <2>2. \A t \in Series : \A j \in Books(t) : Fed(t, j)' = Fed(t, j)
      BY <1>9, <1>0 DEF Fed, Exit, Put, Job, Task
    <2>3. QED
      BY <2>1, <2>2, <1>k
  <1>10. ASSUME NEW w \in Workers, SkipBook(w)
        PROVE  Jobs'
    <2>1. PICK s \in Series, r \in Results \ {"none"}, i \in Nat :
            i \in Open(s) /\ i \in Books(s) /\ Settles(w, s, i, r)
      BY <1>10, Settling
    <2>2. /\ UNCHANGED <<walk, bookCh>> /\ Fed(s, i) /\ Job(w) = <<s, i>> /\ worker[w].at \in Reading
          /\ \A v \in Workers : worker'[v].at \in Reading => v # w /\ worker'[v] = worker[v]
      BY <2>1, <1>0 DEF Settles, Reading
    <2>3. (\A k \in 1..Len(bookCh) : OpenBook(bookCh[k]))'
      <3> SUFFICES ASSUME NEW k \in 1..Len(bookCh') PROVE OpenBook(bookCh[k])'
        OBVIOUS
      <3>1. bookCh'[k] = bookCh[k] /\ bookCh[k] \in Series \X Nat /\ k \in 1..Len(bookCh)
        BY <2>2, <1>0
      <3>2. bookCh[k] # <<s, i>> /\ OpenBook(bookCh[k])
        BY <2>2, <3>1, <1>i DEF JobsApart, Jobs
      <3>3. PICK b \in Series \X Nat : b = bookCh[k]
        BY <3>1
      <3>4. OpenBook(b)'
        BY <2>1, <3>2, <3>3, OthersStay
      <3>5. QED
        BY <3>1, <3>3, <3>4 DEF OpenBook, Open, Fed
    <2>4. ASSUME NEW v \in Workers, worker'[v].at \in Reading
          PROVE  OpenBook(Job(v))'
      <3>1. v # w /\ worker'[v] = worker[v]
        BY <2>2, <2>4
      <3>2. OpenBook(Job(v)) /\ Job(v) # <<s, i>>
        BY <2>2, <2>4, <3>1, <1>i DEF JobsApart, Jobs
      <3>3. PICK b \in Series \X Nat : b = Job(v)
        <4>1. Job(v) \in {<<0, 0>>} \cup (Series \X Nat)
          BY <1>0 DEF Job
        <4>2. Job(v)[1] \in Series
          BY <3>2 DEF OpenBook
        <4>3. QED
          BY <4>1, <4>2, <1>0
      <3>4. OpenBook(b)'
        BY <2>1, <3>2, <3>3, OthersStay
      <3>5. QED
        BY <3>1, <3>3, <3>4 DEF Job, OpenBook, Open, Fed
    <2>5. ASSUME NEW t \in Series, NEW j \in Books(t), ~Fed(t, j)'
          PROVE  j \in Open(t)'
      <3>1. ~Fed(t, j) /\ j \in Open(t)
        BY <2>2, <2>5, <1>i DEF Fed, walk, Jobs
      <3>2. QED
        BY <2>1, <2>2, <3>1 DEF Settles
    <2>6. QED
      BY <2>3, <2>4, <2>5 DEF Jobs
  <1>11. ASSUME NEW w \in Workers, ReadBook(w)
        PROVE  Jobs'
    <2>1. /\ UNCHANGED <<bookCh, result>>
          /\ \A v \in Workers : worker'[v].at \in Reading =>
                worker[v].at \in Reading /\ worker'[v].job = worker[v].job
      BY <1>11, <1>0 DEF ReadBook, Put, Job, Task
    <2>2. \A t \in Series : \A j \in Books(t) : Fed(t, j)' = Fed(t, j)
      BY <1>11, <1>0 DEF Fed, ReadBook, Put, Job, Task
    <2>3. QED
      BY <2>1, <2>2, <1>k
  <1>12. ASSUME NEW w \in Workers, FinishBook(w)
        PROVE  Jobs'
    <2>1. PICK s \in Series, r \in Results \ {"none"}, i \in Nat :
            i \in Open(s) /\ i \in Books(s) /\ Settles(w, s, i, r)
      BY <1>12, Settling
    <2>2. /\ UNCHANGED <<walk, bookCh>> /\ Fed(s, i) /\ Job(w) = <<s, i>> /\ worker[w].at \in Reading
          /\ \A v \in Workers : worker'[v].at \in Reading => v # w /\ worker'[v] = worker[v]
      BY <2>1, <1>0 DEF Settles, Reading
    <2>3. (\A k \in 1..Len(bookCh) : OpenBook(bookCh[k]))'
      <3> SUFFICES ASSUME NEW k \in 1..Len(bookCh') PROVE OpenBook(bookCh[k])'
        OBVIOUS
      <3>1. bookCh'[k] = bookCh[k] /\ bookCh[k] \in Series \X Nat /\ k \in 1..Len(bookCh)
        BY <2>2, <1>0
      <3>2. bookCh[k] # <<s, i>> /\ OpenBook(bookCh[k])
        BY <2>2, <3>1, <1>i DEF JobsApart, Jobs
      <3>3. PICK b \in Series \X Nat : b = bookCh[k]
        BY <3>1
      <3>4. OpenBook(b)'
        BY <2>1, <3>2, <3>3, OthersStay
      <3>5. QED
        BY <3>1, <3>3, <3>4 DEF OpenBook, Open, Fed
    <2>4. ASSUME NEW v \in Workers, worker'[v].at \in Reading
          PROVE  OpenBook(Job(v))'
      <3>1. v # w /\ worker'[v] = worker[v]
        BY <2>2, <2>4
      <3>2. OpenBook(Job(v)) /\ Job(v) # <<s, i>>
        BY <2>2, <2>4, <3>1, <1>i DEF JobsApart, Jobs
      <3>3. PICK b \in Series \X Nat : b = Job(v)
        <4>1. Job(v) \in {<<0, 0>>} \cup (Series \X Nat)
          BY <1>0 DEF Job
        <4>2. Job(v)[1] \in Series
          BY <3>2 DEF OpenBook
        <4>3. QED
          BY <4>1, <4>2, <1>0
      <3>4. OpenBook(b)'
        BY <2>1, <3>2, <3>3, OthersStay
      <3>5. QED
        BY <3>1, <3>3, <3>4 DEF Job, OpenBook, Open, Fed
    <2>5. ASSUME NEW t \in Series, NEW j \in Books(t), ~Fed(t, j)'
          PROVE  j \in Open(t)'
      <3>1. ~Fed(t, j) /\ j \in Open(t)
        BY <2>2, <2>5, <1>i DEF Fed, walk, Jobs
      <3>2. QED
        BY <2>1, <2>2, <3>1 DEF Settles
    <2>6. QED
      BY <2>3, <2>4, <2>5 DEF Jobs
  <1>13. ASSUME NEW w \in Workers, AcquireBudget(w)
        PROVE  Jobs'
    <2>1. /\ UNCHANGED <<bookCh, result>>
          /\ \A v \in Workers : worker'[v].at \in Reading =>
                worker[v].at \in Reading /\ worker'[v].job = worker[v].job
      BY <1>13, <1>0 DEF AcquireBudget, Put, Job, Task
    <2>2. \A t \in Series : \A j \in Books(t) : Fed(t, j)' = Fed(t, j)
      BY <1>13, <1>0 DEF Fed, AcquireBudget, Put, Job, Task
    <2>3. QED
      BY <2>1, <2>2, <1>k
  <1>14. ASSUME NEW w \in Workers, WaitForBudget(w)
        PROVE  Jobs'
    <2>1. /\ UNCHANGED <<bookCh, result>>
          /\ \A v \in Workers : worker'[v].at \in Reading =>
                worker[v].at \in Reading /\ worker'[v].job = worker[v].job
      BY <1>14, <1>0 DEF WaitForBudget, Put, Job, Task
    <2>2. \A t \in Series : \A j \in Books(t) : Fed(t, j)' = Fed(t, j)
      BY <1>14, <1>0 DEF Fed, WaitForBudget, Put, Job, Task
    <2>3. QED
      BY <2>1, <2>2, <1>k
  <1>15. ASSUME NEW w \in Workers, BudgetCancelled(w)
        PROVE  Jobs'
    <2>1. /\ UNCHANGED <<bookCh, result>>
          /\ \A v \in Workers : worker'[v].at \in Reading =>
                worker[v].at \in Reading /\ worker'[v].job = worker[v].job
      BY <1>15, <1>0 DEF BudgetCancelled, Put, Job, Task
    <2>2. \A t \in Series : \A j \in Books(t) : Fed(t, j)' = Fed(t, j)
      BY <1>15, <1>0 DEF Fed, BudgetCancelled, Put, Job, Task
    <2>3. QED
      BY <2>1, <2>2, <1>k
  <1>16. ASSUME NEW w \in Workers, Offer(w)
        PROVE  Jobs'
    <2>1. /\ UNCHANGED <<bookCh, result>>
          /\ \A v \in Workers : worker'[v].at \in Reading =>
                worker[v].at \in Reading /\ worker'[v].job = worker[v].job
      BY <1>16, <1>0 DEF Offer, Put, Job, Task
    <2>2. \A t \in Series : \A j \in Books(t) : Fed(t, j)' = Fed(t, j)
      BY <1>16, <1>0 DEF Fed, Offer, Put, Job, Task
    <2>3. QED
      BY <2>1, <2>2, <1>k
  <1>17. ASSUME NEW w \in Workers, OfferCancelled(w)
        PROVE  Jobs'
    <2>1. /\ UNCHANGED <<bookCh, result>>
          /\ \A v \in Workers : worker'[v].at \in Reading =>
                worker[v].at \in Reading /\ worker'[v].job = worker[v].job
      BY <1>17, <1>0 DEF OfferCancelled, Put, Job, Task
    <2>2. \A t \in Series : \A j \in Books(t) : Fed(t, j)' = Fed(t, j)
      BY <1>17, <1>0 DEF Fed, OfferCancelled, Put, Job, Task
    <2>3. QED
      BY <2>1, <2>2, <1>k
  <1>18. CASE Receive
    <2>1. /\ UNCHANGED <<bookCh, result>>
          /\ \A v \in Workers : worker'[v].at \in Reading =>
                worker[v].at \in Reading /\ worker'[v].job = worker[v].job
      BY <1>18, <1>0 DEF Receive
    <2>2. \A t \in Series : \A j \in Books(t) : Fed(t, j)' = Fed(t, j)
      BY <1>18, <1>0 DEF Fed, Receive
    <2>3. QED
      BY <2>1, <2>2, <1>k
  <1>19. CASE Tick
    <2>1. /\ UNCHANGED <<bookCh, result>>
          /\ \A v \in Workers : worker'[v].at \in Reading =>
                worker[v].at \in Reading /\ worker'[v].job = worker[v].job
      BY <1>19, <1>0 DEF Tick, Commit, Fail
    <2>2. \A t \in Series : \A j \in Books(t) : Fed(t, j)' = Fed(t, j)
      BY <1>19, <1>0 DEF Fed, Tick, Commit, Fail
    <2>3. QED
      BY <2>1, <2>2, <1>k
  <1>20. CASE WriteRow
    <2>1. /\ UNCHANGED <<bookCh, result>>
          /\ \A v \in Workers : worker'[v].at \in Reading =>
                worker[v].at \in Reading /\ worker'[v].job = worker[v].job
      BY <1>20, <1>0 DEF WriteRow, Insert, Commit, ToBook
    <2>2. \A t \in Series : \A j \in Books(t) : Fed(t, j)' = Fed(t, j)
      BY <1>20, <1>0 DEF Fed, WriteRow, Insert, Commit, ToBook
    <2>3. QED
      BY <2>1, <2>2, <1>k
  <1>21. CASE WriteFails
    <2>1. /\ UNCHANGED <<bookCh, result>>
          /\ \A v \in Workers : worker'[v].at \in Reading =>
                worker[v].at \in Reading /\ worker'[v].job = worker[v].job
      BY <1>21, <1>0 DEF WriteFails, Fail, Ready
    <2>2. \A t \in Series : \A j \in Books(t) : Fed(t, j)' = Fed(t, j)
      BY <1>21, <1>0 DEF Fed, WriteFails, Fail, Ready
    <2>3. QED
      BY <2>1, <2>2, <1>k
  <1>22. CASE Stamp
    <2>1. /\ UNCHANGED <<bookCh, result>>
          /\ \A v \in Workers : worker'[v].at \in Reading =>
                worker[v].at \in Reading /\ worker'[v].job = worker[v].job
      BY <1>22, <1>0 DEF Stamp, ToBook
    <2>2. \A t \in Series : \A j \in Books(t) : Fed(t, j)' = Fed(t, j)
      BY <1>22, <1>0 DEF Fed, Stamp, ToBook
    <2>3. QED
      BY <2>1, <2>2, <1>k
  <1>23. CASE EndSeries
    <2>1. /\ UNCHANGED <<bookCh, result>>
          /\ \A v \in Workers : worker'[v].at \in Reading =>
                worker[v].at \in Reading /\ worker'[v].job = worker[v].job
      BY <1>23, <1>0 DEF EndSeries, Insert, Commit, Fail, Ready
    <2>2. \A t \in Series : \A j \in Books(t) : Fed(t, j)' = Fed(t, j)
      BY <1>23, <1>0 DEF Fed, EndSeries, Insert, Commit, Fail, Ready
    <2>3. QED
      BY <2>1, <2>2, <1>k
  <1>24. CASE WriterEnds
    <2>1. /\ UNCHANGED <<bookCh, result>>
          /\ \A v \in Workers : worker'[v].at \in Reading =>
                worker[v].at \in Reading /\ worker'[v].job = worker[v].job
      BY <1>24, <1>0 DEF WriterEnds, Ready, Commit
    <2>2. \A t \in Series : \A j \in Books(t) : Fed(t, j)' = Fed(t, j)
      BY <1>24, <1>0 DEF Fed, WriterEnds, Ready, Commit
    <2>3. QED
      BY <2>1, <2>2, <1>k
  <1>25. CASE DecideSweep
    <2>1. /\ UNCHANGED <<bookCh, result>>
          /\ \A v \in Workers : worker'[v].at \in Reading =>
                worker[v].at \in Reading /\ worker'[v].job = worker[v].job
      BY <1>25, <1>0 DEF DecideSweep
    <2>2. \A t \in Series : \A j \in Books(t) : Fed(t, j)' = Fed(t, j)
      BY <1>25, <1>0 DEF Fed, DecideSweep
    <2>3. QED
      BY <2>1, <2>2, <1>k
  <1>26. CASE Sweep
    <2>1. /\ UNCHANGED <<bookCh, result>>
          /\ \A v \in Workers : worker'[v].at \in Reading =>
                worker[v].at \in Reading /\ worker'[v].job = worker[v].job
      BY <1>26, <1>0 DEF Sweep
    <2>2. \A t \in Series : \A j \in Books(t) : Fed(t, j)' = Fed(t, j)
      BY <1>26, <1>0 DEF Fed, Sweep
    <2>3. QED
      BY <2>1, <2>2, <1>k
  <1>27. CASE Cancel
    <2>1. /\ UNCHANGED <<bookCh, result>>
          /\ \A v \in Workers : worker'[v].at \in Reading =>
                worker[v].at \in Reading /\ worker'[v].job = worker[v].job
      BY <1>27, <1>0 DEF Cancel
    <2>2. \A t \in Series : \A j \in Books(t) : Fed(t, j)' = Fed(t, j)
      BY <1>27, <1>0 DEF Fed, Cancel
    <2>3. QED
      BY <2>1, <2>2, <1>k
  <1>q. QED
    BY <1>1, <1>2, <1>3, <1>4, <1>5, <1>6, <1>7, <1>8, <1>9, <1>10, <1>11, <1>12, <1>13, <1>14, <1>15, <1>16, <1>17, <1>18, <1>19, <1>20, <1>21, <1>22, <1>23, <1>24, <1>25, <1>26, <1>27 DEF Next, WalkStep, WorkStep, WriteStep

(* A book is in one place.                                                *)
LEMMA JobsApartStep == IInv /\ [Next]_vars => JobsApart'
  <1> SUFFICES ASSUME IInv, [Next]_vars PROVE JobsApart'
    OBVIOUS
  <1> USE DEF Reading, walk, rows, end
  <1>0. /\ walkAt \in (1..Len(Pages) + 1) \X Nat /\ Series = 1..Len(Pages) /\ Len(Pages) \in Nat
        /\ \A s \in Series : Len(Pages[s]) \in Nat /\ Books(s) = 1..Len(Pages[s])
        /\ bookCh \in Seq(Series \X Nat) /\ resCh \in Seq(Series)
        /\ worker \in [Workers -> [at : {"idle", "taken", "reading", "budget", "waiting", "offer", "exited"},
                               job : {<<0, 0>>} \cup (Series \X Nat)]]
        /\ writer \in [at : {"receive", "row", "written", "ended", "decided", "done"}, row : {<<0, 0>>} \cup Facts]
    BY Library DEF IInv, TypeOK
  <1>i. Jobs /\ JobsApart
    BY DEF IInv
  <1>k. ASSUME UNCHANGED bookCh,
               \A v \in Workers : worker'[v].at \in Reading =>
                  worker[v].at \in Reading /\ worker'[v].job = worker[v].job
        PROVE  JobsApart'
    BY <1>i, <1>k DEF JobsApart, Job
  <1>1. CASE UNCHANGED vars
    <2>1. /\ UNCHANGED bookCh
          /\ \A v \in Workers : worker'[v].at \in Reading =>
                worker[v].at \in Reading /\ worker'[v].job = worker[v].job
      BY <1>1, <1>0 DEF vars
    <2>2. QED
      BY <2>1, <1>k
  <1>2. CASE WalkFails
    <2>1. /\ UNCHANGED bookCh
          /\ \A v \in Workers : worker'[v].at \in Reading =>
                worker[v].at \in Reading /\ worker'[v].job = worker[v].job
      BY <1>2, <1>0 DEF WalkFails, StopWalk
    <2>2. QED
      BY <2>1, <1>k
  <1>3. CASE WalkCancelled
    <2>1. /\ UNCHANGED bookCh
          /\ \A v \in Workers : worker'[v].at \in Reading =>
                worker[v].at \in Reading /\ worker'[v].job = worker[v].job
      BY <1>3, <1>0 DEF WalkCancelled, StopWalk
    <2>2. QED
      BY <2>1, <1>k
  <1>4. CASE WalkSeries
    <2>1. /\ UNCHANGED bookCh
          /\ \A v \in Workers : worker'[v].at \in Reading =>
                worker[v].at \in Reading /\ worker'[v].job = worker[v].job
      BY <1>4, <1>0 DEF WalkSeries
    <2>2. QED
      BY <2>1, <1>k
  <1>5. CASE FeedBook
    <2>1. PICK s \in Series, i \in Nat :
            /\ walkAt = <<s, i>> /\ i \in Books(s) /\ <<s, i>> \in Series \X Nat
            /\ bookCh' = Append(bookCh, <<s, i>>)
      <3>1. PICK s \in Series, i \in Nat : Feeds(s, i)
        BY <1>5, Feeding
      <3>2. QED
        BY <3>1 DEF Feeds
    <2>2. UNCHANGED worker
      BY <1>5 DEF FeedBook
    <2>3. \A b : OpenBook(b) => b # <<s, i>>
      BY <2>1, <1>0 DEF OpenBook, Fed
    <2>4. \A k \in 1..Len(bookCh) : bookCh[k] # <<s, i>>
      BY <2>3, <1>i DEF Jobs
    <2>5. \A v \in Workers : worker[v].at \in Reading => Job(v) # <<s, i>>
      BY <2>3, <1>i DEF Jobs
    <2>6. /\ Len(bookCh') = Len(bookCh) + 1 /\ Len(bookCh) \in Nat /\ bookCh'[Len(bookCh) + 1] = <<s, i>>
          /\ \A k \in 1..Len(bookCh') : (k \in 1..Len(bookCh) /\ bookCh'[k] = bookCh[k]) \/ k = Len(bookCh) + 1
      BY <2>1, <1>0, Sent
    <2>7. \A j, k \in 1..Len(bookCh') : bookCh'[j] = bookCh'[k] => j = k
      BY <2>4, <2>6, <1>i DEF JobsApart
    <2>8. QED
      BY <2>2, <2>5, <2>6, <2>7, <1>i DEF JobsApart, Job
  <1>6. CASE OfferEmpty
    <2>1. /\ UNCHANGED bookCh
          /\ \A v \in Workers : worker'[v].at \in Reading =>
                worker[v].at \in Reading /\ worker'[v].job = worker[v].job
      BY <1>6, <1>0 DEF OfferEmpty, NextSeries
    <2>2. QED
      BY <2>1, <1>k
  <1>7. CASE WalkEnds
    <2>1. /\ UNCHANGED bookCh
          /\ \A v \in Workers : worker'[v].at \in Reading =>
                worker[v].at \in Reading /\ worker'[v].job = worker[v].job
      BY <1>7, <1>0 DEF WalkEnds, StopWalk
    <2>2. QED
      BY <2>1, <1>k
  <1>8. ASSUME NEW w \in Workers, Take(w)
        PROVE  JobsApart'
    <2>1. /\ bookCh' = Tail(bookCh) /\ bookCh # <<>>
          /\ worker[w].at = "idle" /\ worker' = [worker EXCEPT ![w] = [at |-> "taken", job |-> Head(bookCh)]]
      BY <1>8 DEF Take, Put
    <2>2. /\ Head(bookCh) = bookCh[1] /\ 1 \in 1..Len(bookCh)
          /\ \A k \in 1..Len(bookCh') : bookCh'[k] = bookCh[k + 1] /\ k + 1 \in 1..Len(bookCh) /\ k + 1 # 1 /\ k \in Nat
      BY <2>1, <1>0, Received
    <2>3. \A j, k \in 1..Len(bookCh') : bookCh'[j] = bookCh'[k] => j = k
      BY <2>2, <1>i DEF JobsApart
    <2>4. worker'[w].job = bookCh[1] /\ \A v \in Workers : v # w => worker'[v] = worker[v]
      BY <2>1, <2>2, <1>0
    <2>5. \A k \in 1..Len(bookCh') : bookCh'[k] # bookCh[1]
      BY <2>2, <1>i DEF JobsApart
    <2>6. \A v \in Workers : worker[v].at \in Reading =>
            worker[v].job # bookCh[1] /\ \A k \in 1..Len(bookCh') : bookCh'[k] # worker[v].job
      BY <2>2, <1>i DEF JobsApart, Job
    <2>7. QED
      BY <2>3, <2>4, <2>5, <2>6, <1>i DEF JobsApart, Job
  <1>9. ASSUME NEW w \in Workers, Exit(w)
        PROVE  JobsApart'
    <2>1. /\ UNCHANGED bookCh
          /\ \A v \in Workers : worker'[v].at \in Reading =>
                worker[v].at \in Reading /\ worker'[v].job = worker[v].job
      BY <1>9, <1>0 DEF Exit, Put, Job, Task
    <2>2. QED
      BY <2>1, <1>k
  <1>10. ASSUME NEW w \in Workers, SkipBook(w)
        PROVE  JobsApart'
    <2>1. PICK s \in Series, r \in Results \ {"none"}, i \in Nat : Settles(w, s, i, r)
      BY <1>10, Settling
    <2>2. UNCHANGED bookCh /\ \A v \in Workers : worker'[v].at \in Reading => worker'[v] = worker[v]
      BY <2>1, <1>0 DEF Settles
    <2>3. QED
      BY <2>2, <1>i DEF JobsApart, Job
  <1>11. ASSUME NEW w \in Workers, ReadBook(w)
        PROVE  JobsApart'
    <2>1. /\ UNCHANGED bookCh
          /\ \A v \in Workers : worker'[v].at \in Reading =>
                worker[v].at \in Reading /\ worker'[v].job = worker[v].job
      BY <1>11, <1>0 DEF ReadBook, Put, Job, Task
    <2>2. QED
      BY <2>1, <1>k
  <1>12. ASSUME NEW w \in Workers, FinishBook(w)
        PROVE  JobsApart'
    <2>1. PICK s \in Series, r \in Results \ {"none"}, i \in Nat : Settles(w, s, i, r)
      BY <1>12, Settling
    <2>2. UNCHANGED bookCh /\ \A v \in Workers : worker'[v].at \in Reading => worker'[v] = worker[v]
      BY <2>1, <1>0 DEF Settles
    <2>3. QED
      BY <2>2, <1>i DEF JobsApart, Job
  <1>13. ASSUME NEW w \in Workers, AcquireBudget(w)
        PROVE  JobsApart'
    <2>1. /\ UNCHANGED bookCh
          /\ \A v \in Workers : worker'[v].at \in Reading =>
                worker[v].at \in Reading /\ worker'[v].job = worker[v].job
      BY <1>13, <1>0 DEF AcquireBudget, Put, Job, Task
    <2>2. QED
      BY <2>1, <1>k
  <1>14. ASSUME NEW w \in Workers, WaitForBudget(w)
        PROVE  JobsApart'
    <2>1. /\ UNCHANGED bookCh
          /\ \A v \in Workers : worker'[v].at \in Reading =>
                worker[v].at \in Reading /\ worker'[v].job = worker[v].job
      BY <1>14, <1>0 DEF WaitForBudget, Put, Job, Task
    <2>2. QED
      BY <2>1, <1>k
  <1>15. ASSUME NEW w \in Workers, BudgetCancelled(w)
        PROVE  JobsApart'
    <2>1. /\ UNCHANGED bookCh
          /\ \A v \in Workers : worker'[v].at \in Reading =>
                worker[v].at \in Reading /\ worker'[v].job = worker[v].job
      BY <1>15, <1>0 DEF BudgetCancelled, Put, Job, Task
    <2>2. QED
      BY <2>1, <1>k
  <1>16. ASSUME NEW w \in Workers, Offer(w)
        PROVE  JobsApart'
    <2>1. /\ UNCHANGED bookCh
          /\ \A v \in Workers : worker'[v].at \in Reading =>
                worker[v].at \in Reading /\ worker'[v].job = worker[v].job
      BY <1>16, <1>0 DEF Offer, Put, Job, Task
    <2>2. QED
      BY <2>1, <1>k
  <1>17. ASSUME NEW w \in Workers, OfferCancelled(w)
        PROVE  JobsApart'
    <2>1. /\ UNCHANGED bookCh
          /\ \A v \in Workers : worker'[v].at \in Reading =>
                worker[v].at \in Reading /\ worker'[v].job = worker[v].job
      BY <1>17, <1>0 DEF OfferCancelled, Put, Job, Task
    <2>2. QED
      BY <2>1, <1>k
  <1>18. CASE Receive
    <2>1. /\ UNCHANGED bookCh
          /\ \A v \in Workers : worker'[v].at \in Reading =>
                worker[v].at \in Reading /\ worker'[v].job = worker[v].job
      BY <1>18, <1>0 DEF Receive
    <2>2. QED
      BY <2>1, <1>k
  <1>19. CASE Tick
    <2>1. /\ UNCHANGED bookCh
          /\ \A v \in Workers : worker'[v].at \in Reading =>
                worker[v].at \in Reading /\ worker'[v].job = worker[v].job
      BY <1>19, <1>0 DEF Tick, Commit, Fail
    <2>2. QED
      BY <2>1, <1>k
  <1>20. CASE WriteRow
    <2>1. /\ UNCHANGED bookCh
          /\ \A v \in Workers : worker'[v].at \in Reading =>
                worker[v].at \in Reading /\ worker'[v].job = worker[v].job
      BY <1>20, <1>0 DEF WriteRow, Insert, Commit, ToBook
    <2>2. QED
      BY <2>1, <1>k
  <1>21. CASE WriteFails
    <2>1. /\ UNCHANGED bookCh
          /\ \A v \in Workers : worker'[v].at \in Reading =>
                worker[v].at \in Reading /\ worker'[v].job = worker[v].job
      BY <1>21, <1>0 DEF WriteFails, Fail, Ready
    <2>2. QED
      BY <2>1, <1>k
  <1>22. CASE Stamp
    <2>1. /\ UNCHANGED bookCh
          /\ \A v \in Workers : worker'[v].at \in Reading =>
                worker[v].at \in Reading /\ worker'[v].job = worker[v].job
      BY <1>22, <1>0 DEF Stamp, ToBook
    <2>2. QED
      BY <2>1, <1>k
  <1>23. CASE EndSeries
    <2>1. /\ UNCHANGED bookCh
          /\ \A v \in Workers : worker'[v].at \in Reading =>
                worker[v].at \in Reading /\ worker'[v].job = worker[v].job
      BY <1>23, <1>0 DEF EndSeries, Insert, Commit, Fail, Ready
    <2>2. QED
      BY <2>1, <1>k
  <1>24. CASE WriterEnds
    <2>1. /\ UNCHANGED bookCh
          /\ \A v \in Workers : worker'[v].at \in Reading =>
                worker[v].at \in Reading /\ worker'[v].job = worker[v].job
      BY <1>24, <1>0 DEF WriterEnds, Ready, Commit
    <2>2. QED
      BY <2>1, <1>k
  <1>25. CASE DecideSweep
    <2>1. /\ UNCHANGED bookCh
          /\ \A v \in Workers : worker'[v].at \in Reading =>
                worker[v].at \in Reading /\ worker'[v].job = worker[v].job
      BY <1>25, <1>0 DEF DecideSweep
    <2>2. QED
      BY <2>1, <1>k
  <1>26. CASE Sweep
    <2>1. /\ UNCHANGED bookCh
          /\ \A v \in Workers : worker'[v].at \in Reading =>
                worker[v].at \in Reading /\ worker'[v].job = worker[v].job
      BY <1>26, <1>0 DEF Sweep
    <2>2. QED
      BY <2>1, <1>k
  <1>27. CASE Cancel
    <2>1. /\ UNCHANGED bookCh
          /\ \A v \in Workers : worker'[v].at \in Reading =>
                worker[v].at \in Reading /\ worker'[v].job = worker[v].job
      BY <1>27, <1>0 DEF Cancel
    <2>2. QED
      BY <2>1, <1>k
  <1>q. QED
    BY <1>1, <1>2, <1>3, <1>4, <1>5, <1>6, <1>7, <1>8, <1>9, <1>10, <1>11, <1>12, <1>13, <1>14, <1>15, <1>16, <1>17, <1>18, <1>19, <1>20, <1>21, <1>22, <1>23, <1>24, <1>25, <1>26, <1>27 DEF Next, WalkStep, WorkStep, WriteStep

(* Every book that was fed reaches a worker.                               *)
LEMMA NoneIsLostStep == IInv /\ [Next]_vars => NoneIsLost'
  <1> SUFFICES ASSUME IInv, [Next]_vars PROVE NoneIsLost'
    OBVIOUS
  <1> USE DEF Reading, walk, rows, end
  <1>0. /\ walkAt \in (1..Len(Pages) + 1) \X Nat /\ Series = 1..Len(Pages) /\ Len(Pages) \in Nat
        /\ \A s \in Series : Len(Pages[s]) \in Nat /\ Books(s) = 1..Len(Pages[s])
        /\ bookCh \in Seq(Series \X Nat) /\ resCh \in Seq(Series)
        /\ worker \in [Workers -> [at : {"idle", "taken", "reading", "budget", "waiting", "offer", "exited"},
                               job : {<<0, 0>>} \cup (Series \X Nat)]]
        /\ writer \in [at : {"receive", "row", "written", "ended", "decided", "done"}, row : {<<0, 0>>} \cup Facts]
    BY Library DEF IInv, TypeOK
  <1>i. NoneIsLost
    BY DEF IInv
  <1>k. ASSUME UNCHANGED <<bookCh, result>>,
               \A t \in Series : \A j \in Books(t) : Fed(t, j)' = Fed(t, j),
               \A v \in Workers : worker[v].at \in Reading =>
                  worker'[v].at \in Reading /\ worker'[v].job = worker[v].job
        PROVE  NoneIsLost'
    BY <1>i, <1>k DEF NoneIsLost, Job, Open
  <1>1. CASE UNCHANGED vars
    <2>1. /\ UNCHANGED <<bookCh, result>>
          /\ \A v \in Workers : worker[v].at \in Reading =>
                worker'[v].at \in Reading /\ worker'[v].job = worker[v].job
      BY <1>1, <1>0 DEF vars
    <2>2. \A t \in Series : \A j \in Books(t) : Fed(t, j)' = Fed(t, j)
      BY <1>1, <1>0 DEF Fed, vars
    <2>3. QED
      BY <2>1, <2>2, <1>k
  <1>2. CASE WalkFails
    <2>1. /\ UNCHANGED <<bookCh, result>>
          /\ \A v \in Workers : worker[v].at \in Reading =>
                worker'[v].at \in Reading /\ worker'[v].job = worker[v].job
      BY <1>2, <1>0 DEF WalkFails, StopWalk
    <2>2. \A t \in Series : \A j \in Books(t) : Fed(t, j)' = Fed(t, j)
      BY <1>2, <1>0 DEF Fed, WalkFails, StopWalk
    <2>3. QED
      BY <2>1, <2>2, <1>k
  <1>3. CASE WalkCancelled
    <2>1. /\ UNCHANGED <<bookCh, result>>
          /\ \A v \in Workers : worker[v].at \in Reading =>
                worker'[v].at \in Reading /\ worker'[v].job = worker[v].job
      BY <1>3, <1>0 DEF WalkCancelled, StopWalk
    <2>2. \A t \in Series : \A j \in Books(t) : Fed(t, j)' = Fed(t, j)
      BY <1>3, <1>0 DEF Fed, WalkCancelled, StopWalk
    <2>3. QED
      BY <2>1, <2>2, <1>k
  <1>4. CASE WalkSeries
    <2>1. /\ UNCHANGED <<bookCh, result>>
          /\ \A v \in Workers : worker[v].at \in Reading =>
                worker'[v].at \in Reading /\ worker'[v].job = worker[v].job
      BY <1>4, <1>0 DEF WalkSeries
    <2>2. \A t \in Series : \A j \in Books(t) : Fed(t, j)' = Fed(t, j)
      BY <1>4, <1>0 DEF Fed, WalkSeries
    <2>3. QED
      BY <2>1, <2>2, <1>k
  <1>5. CASE FeedBook
    <2>1. PICK s \in Series, i \in Nat :
            /\ i \in Books(s) /\ bookCh' = Append(bookCh, <<s, i>>) /\ <<s, i>> \in Series \X Nat
            /\ \A t \in Series : \A j \in Books(t) : Fed(t, j)' <=> Fed(t, j) \/ (t = s /\ j = i)
      <3>1. PICK s \in Series, i \in Nat : Feeds(s, i)
        BY <1>5, Feeding
      <3>2. QED
        BY <3>1 DEF Feeds
    <2>2. UNCHANGED <<worker, result>>
      BY <1>5 DEF FeedBook
    <2>3. /\ Len(bookCh) + 1 \in 1..Len(bookCh') /\ bookCh'[Len(bookCh) + 1] = <<s, i>>
          /\ \A k \in 1..Len(bookCh) : k \in 1..Len(bookCh') /\ bookCh'[k] = bookCh[k]
      <3>1. bookCh \in Seq(Series \X Nat) /\ <<s, i>> \in Series \X Nat
        BY <2>1, <1>0
      <3>2. QED
        BY <3>1, <2>1, Sent
    <2> SUFFICES ASSUME NEW t \in Series, NEW j \in Open(t)', Fed(t, j)'
                 PROVE  \/ \E k \in 1..Len(bookCh') : bookCh'[k] = <<t, j>>
                        \/ \E v \in Workers : worker'[v].at \in Reading /\ worker'[v].job = <<t, j>>
      BY DEF NoneIsLost, Job
    <2>4. j \in Open(t) /\ j \in Books(t)
      BY <2>2 DEF Open
    <2>5. CASE Fed(t, j)
      BY <2>2, <2>3, <2>4, <2>5, <1>i DEF NoneIsLost, Job
    <2>6. CASE t = s /\ j = i
      BY <2>3, <2>6
    <2>7. QED
      BY <2>1, <2>4, <2>5, <2>6
  <1>6. CASE OfferEmpty
    <2>1. \A t \in Series : \A j \in Books(t) : Fed(t, j)' = Fed(t, j)
      BY <1>6, Skipping
    <2>2. UNCHANGED <<bookCh, worker, result>>
      BY <1>6 DEF OfferEmpty
    <2>3. QED
      BY <2>1, <2>2, <1>i DEF NoneIsLost, Job, Open
  <1>7. CASE WalkEnds
    <2>1. /\ UNCHANGED <<bookCh, result>>
          /\ \A v \in Workers : worker[v].at \in Reading =>
                worker'[v].at \in Reading /\ worker'[v].job = worker[v].job
      BY <1>7, <1>0 DEF WalkEnds, StopWalk
    <2>2. \A t \in Series : \A j \in Books(t) : Fed(t, j)' = Fed(t, j)
      BY <1>7, <1>0 DEF Fed, WalkEnds, StopWalk
    <2>3. QED
      BY <2>1, <2>2, <1>k
  <1>8. ASSUME NEW w \in Workers, Take(w)
        PROVE  NoneIsLost'
    <2>1. /\ bookCh' = Tail(bookCh) /\ bookCh # <<>> /\ UNCHANGED <<walkAt, result>>
          /\ worker[w].at = "idle" /\ worker' = [worker EXCEPT ![w] = [at |-> "taken", job |-> Head(bookCh)]]
      BY <1>8 DEF Take, Put
    <2>2. /\ Head(bookCh) = bookCh[1]
          /\ \A k \in 1..Len(bookCh) : k = 1 \/ (k - 1 \in 1..Len(bookCh') /\ bookCh'[k - 1] = bookCh[k])
      <3>1. bookCh # <<>> /\ bookCh \in Seq(Series \X Nat)
        BY <2>1, <1>0
      <3>2. /\ Head(bookCh) = bookCh[1] /\ Len(Tail(bookCh)) = Len(bookCh) - 1
            /\ \A k \in 1..Len(bookCh) : k = 1 \/ (k - 1 \in 1..(Len(bookCh) - 1) /\ Tail(bookCh)[k - 1] = bookCh[k])
        BY <3>1, Received
      <3>3. QED
        BY <2>1, <3>2
    <2>3. /\ worker'[w].job = bookCh[1] /\ worker'[w].at \in Reading
          /\ \A v \in Workers : worker[v].at \in Reading => worker'[v] = worker[v]
      BY <2>1, <2>2, <1>0
    <2> SUFFICES ASSUME NEW t \in Series, NEW j \in Open(t), Fed(t, j)
                 PROVE  \/ \E k \in 1..Len(bookCh') : bookCh'[k] = <<t, j>>
                        \/ \E v \in Workers : worker'[v].at \in Reading /\ worker'[v].job = <<t, j>>
      BY <2>1 DEF NoneIsLost, Job, Open, Fed
    <2>4. CASE \E k \in 1..Len(bookCh) : bookCh[k] = <<t, j>>
      BY <2>2, <2>3, <2>4
    <2>5. CASE \E v \in Workers : worker[v].at \in Reading /\ worker[v].job = <<t, j>>
      BY <2>3, <2>5
    <2>6. QED
      BY <2>4, <2>5, <1>i DEF NoneIsLost, Job
  <1>9. ASSUME NEW w \in Workers, Exit(w)
        PROVE  NoneIsLost'
    <2>1. /\ UNCHANGED <<bookCh, result>>
          /\ \A v \in Workers : worker[v].at \in Reading =>
                worker'[v].at \in Reading /\ worker'[v].job = worker[v].job
      BY <1>9, <1>0 DEF Exit, Put, Job, Task
    <2>2. \A t \in Series : \A j \in Books(t) : Fed(t, j)' = Fed(t, j)
      BY <1>9, <1>0 DEF Fed, Exit, Put, Job, Task
    <2>3. QED
      BY <2>1, <2>2, <1>k
  <1>10. ASSUME NEW w \in Workers, SkipBook(w)
        PROVE  NoneIsLost'
    <2>1. PICK s \in Series, r \in Results \ {"none"}, i \in Nat : Settles(w, s, i, r)
      BY <1>10, Settling
    <2>2. /\ UNCHANGED <<walkAt, bookCh>> /\ Job(w) = <<s, i>> /\ Open(s)' = Open(s) \ {i}
          /\ \A t \in Series : t # s => Open(t)' = Open(t)
      BY <2>1 DEF Settles
    <2>3. \A v \in Workers : v # w => worker'[v] = worker[v]
      BY <2>1, <1>0 DEF Settles
    <2> SUFFICES ASSUME NEW t \in Series, NEW j \in Open(t)', Fed(t, j)
                 PROVE  \/ \E k \in 1..Len(bookCh) : bookCh[k] = <<t, j>>
                        \/ \E v \in Workers : worker'[v].at \in Reading /\ worker'[v].job = <<t, j>>
      BY <2>2 DEF NoneIsLost, Job, Fed
    <2>4. j \in Open(t) /\ <<t, j>> # <<s, i>>
      BY <2>2
    <2>5. QED
      BY <2>2, <2>3, <2>4, <1>i DEF NoneIsLost, Job
  <1>11. ASSUME NEW w \in Workers, ReadBook(w)
        PROVE  NoneIsLost'
    <2>1. /\ UNCHANGED <<bookCh, result>>
          /\ \A v \in Workers : worker[v].at \in Reading =>
                worker'[v].at \in Reading /\ worker'[v].job = worker[v].job
      BY <1>11, <1>0 DEF ReadBook, Put, Job, Task
    <2>2. \A t \in Series : \A j \in Books(t) : Fed(t, j)' = Fed(t, j)
      BY <1>11, <1>0 DEF Fed, ReadBook, Put, Job, Task
    <2>3. QED
      BY <2>1, <2>2, <1>k
  <1>12. ASSUME NEW w \in Workers, FinishBook(w)
        PROVE  NoneIsLost'
    <2>1. PICK s \in Series, r \in Results \ {"none"}, i \in Nat : Settles(w, s, i, r)
      BY <1>12, Settling
    <2>2. /\ UNCHANGED <<walkAt, bookCh>> /\ Job(w) = <<s, i>> /\ Open(s)' = Open(s) \ {i}
          /\ \A t \in Series : t # s => Open(t)' = Open(t)
      BY <2>1 DEF Settles
    <2>3. \A v \in Workers : v # w => worker'[v] = worker[v]
      BY <2>1, <1>0 DEF Settles
    <2> SUFFICES ASSUME NEW t \in Series, NEW j \in Open(t)', Fed(t, j)
                 PROVE  \/ \E k \in 1..Len(bookCh) : bookCh[k] = <<t, j>>
                        \/ \E v \in Workers : worker'[v].at \in Reading /\ worker'[v].job = <<t, j>>
      BY <2>2 DEF NoneIsLost, Job, Fed
    <2>4. j \in Open(t) /\ <<t, j>> # <<s, i>>
      BY <2>2
    <2>5. QED
      BY <2>2, <2>3, <2>4, <1>i DEF NoneIsLost, Job
  <1>13. ASSUME NEW w \in Workers, AcquireBudget(w)
        PROVE  NoneIsLost'
    <2>1. /\ UNCHANGED <<bookCh, result>>
          /\ \A v \in Workers : worker[v].at \in Reading =>
                worker'[v].at \in Reading /\ worker'[v].job = worker[v].job
      BY <1>13, <1>0 DEF AcquireBudget, Put, Job, Task
    <2>2. \A t \in Series : \A j \in Books(t) : Fed(t, j)' = Fed(t, j)
      BY <1>13, <1>0 DEF Fed, AcquireBudget, Put, Job, Task
    <2>3. QED
      BY <2>1, <2>2, <1>k
  <1>14. ASSUME NEW w \in Workers, WaitForBudget(w)
        PROVE  NoneIsLost'
    <2>1. /\ UNCHANGED <<bookCh, result>>
          /\ \A v \in Workers : worker[v].at \in Reading =>
                worker'[v].at \in Reading /\ worker'[v].job = worker[v].job
      BY <1>14, <1>0 DEF WaitForBudget, Put, Job, Task
    <2>2. \A t \in Series : \A j \in Books(t) : Fed(t, j)' = Fed(t, j)
      BY <1>14, <1>0 DEF Fed, WaitForBudget, Put, Job, Task
    <2>3. QED
      BY <2>1, <2>2, <1>k
  <1>15. ASSUME NEW w \in Workers, BudgetCancelled(w)
        PROVE  NoneIsLost'
    <2>1. /\ UNCHANGED <<bookCh, result>>
          /\ \A v \in Workers : worker[v].at \in Reading =>
                worker'[v].at \in Reading /\ worker'[v].job = worker[v].job
      BY <1>15, <1>0 DEF BudgetCancelled, Put, Job, Task
    <2>2. \A t \in Series : \A j \in Books(t) : Fed(t, j)' = Fed(t, j)
      BY <1>15, <1>0 DEF Fed, BudgetCancelled, Put, Job, Task
    <2>3. QED
      BY <2>1, <2>2, <1>k
  <1>16. ASSUME NEW w \in Workers, Offer(w)
        PROVE  NoneIsLost'
    <2>1. /\ UNCHANGED <<bookCh, result>>
          /\ \A v \in Workers : worker[v].at \in Reading =>
                worker'[v].at \in Reading /\ worker'[v].job = worker[v].job
      BY <1>16, <1>0 DEF Offer, Put, Job, Task
    <2>2. \A t \in Series : \A j \in Books(t) : Fed(t, j)' = Fed(t, j)
      BY <1>16, <1>0 DEF Fed, Offer, Put, Job, Task
    <2>3. QED
      BY <2>1, <2>2, <1>k
  <1>17. ASSUME NEW w \in Workers, OfferCancelled(w)
        PROVE  NoneIsLost'
    <2>1. /\ UNCHANGED <<bookCh, result>>
          /\ \A v \in Workers : worker[v].at \in Reading =>
                worker'[v].at \in Reading /\ worker'[v].job = worker[v].job
      BY <1>17, <1>0 DEF OfferCancelled, Put, Job, Task
    <2>2. \A t \in Series : \A j \in Books(t) : Fed(t, j)' = Fed(t, j)
      BY <1>17, <1>0 DEF Fed, OfferCancelled, Put, Job, Task
    <2>3. QED
      BY <2>1, <2>2, <1>k
  <1>18. CASE Receive
    <2>1. /\ UNCHANGED <<bookCh, result>>
          /\ \A v \in Workers : worker[v].at \in Reading =>
                worker'[v].at \in Reading /\ worker'[v].job = worker[v].job
      BY <1>18, <1>0 DEF Receive
    <2>2. \A t \in Series : \A j \in Books(t) : Fed(t, j)' = Fed(t, j)
      BY <1>18, <1>0 DEF Fed, Receive
    <2>3. QED
      BY <2>1, <2>2, <1>k
  <1>19. CASE Tick
    <2>1. /\ UNCHANGED <<bookCh, result>>
          /\ \A v \in Workers : worker[v].at \in Reading =>
                worker'[v].at \in Reading /\ worker'[v].job = worker[v].job
      BY <1>19, <1>0 DEF Tick, Commit, Fail
    <2>2. \A t \in Series : \A j \in Books(t) : Fed(t, j)' = Fed(t, j)
      BY <1>19, <1>0 DEF Fed, Tick, Commit, Fail
    <2>3. QED
      BY <2>1, <2>2, <1>k
  <1>20. CASE WriteRow
    <2>1. /\ UNCHANGED <<bookCh, result>>
          /\ \A v \in Workers : worker[v].at \in Reading =>
                worker'[v].at \in Reading /\ worker'[v].job = worker[v].job
      BY <1>20, <1>0 DEF WriteRow, Insert, Commit, ToBook
    <2>2. \A t \in Series : \A j \in Books(t) : Fed(t, j)' = Fed(t, j)
      BY <1>20, <1>0 DEF Fed, WriteRow, Insert, Commit, ToBook
    <2>3. QED
      BY <2>1, <2>2, <1>k
  <1>21. CASE WriteFails
    <2>1. /\ UNCHANGED <<bookCh, result>>
          /\ \A v \in Workers : worker[v].at \in Reading =>
                worker'[v].at \in Reading /\ worker'[v].job = worker[v].job
      BY <1>21, <1>0 DEF WriteFails, Fail, Ready
    <2>2. \A t \in Series : \A j \in Books(t) : Fed(t, j)' = Fed(t, j)
      BY <1>21, <1>0 DEF Fed, WriteFails, Fail, Ready
    <2>3. QED
      BY <2>1, <2>2, <1>k
  <1>22. CASE Stamp
    <2>1. /\ UNCHANGED <<bookCh, result>>
          /\ \A v \in Workers : worker[v].at \in Reading =>
                worker'[v].at \in Reading /\ worker'[v].job = worker[v].job
      BY <1>22, <1>0 DEF Stamp, ToBook
    <2>2. \A t \in Series : \A j \in Books(t) : Fed(t, j)' = Fed(t, j)
      BY <1>22, <1>0 DEF Fed, Stamp, ToBook
    <2>3. QED
      BY <2>1, <2>2, <1>k
  <1>23. CASE EndSeries
    <2>1. /\ UNCHANGED <<bookCh, result>>
          /\ \A v \in Workers : worker[v].at \in Reading =>
                worker'[v].at \in Reading /\ worker'[v].job = worker[v].job
      BY <1>23, <1>0 DEF EndSeries, Insert, Commit, Fail, Ready
    <2>2. \A t \in Series : \A j \in Books(t) : Fed(t, j)' = Fed(t, j)
      BY <1>23, <1>0 DEF Fed, EndSeries, Insert, Commit, Fail, Ready
    <2>3. QED
      BY <2>1, <2>2, <1>k
  <1>24. CASE WriterEnds
    <2>1. /\ UNCHANGED <<bookCh, result>>
          /\ \A v \in Workers : worker[v].at \in Reading =>
                worker'[v].at \in Reading /\ worker'[v].job = worker[v].job
      BY <1>24, <1>0 DEF WriterEnds, Ready, Commit
    <2>2. \A t \in Series : \A j \in Books(t) : Fed(t, j)' = Fed(t, j)
      BY <1>24, <1>0 DEF Fed, WriterEnds, Ready, Commit
    <2>3. QED
      BY <2>1, <2>2, <1>k
  <1>25. CASE DecideSweep
    <2>1. /\ UNCHANGED <<bookCh, result>>
          /\ \A v \in Workers : worker[v].at \in Reading =>
                worker'[v].at \in Reading /\ worker'[v].job = worker[v].job
      BY <1>25, <1>0 DEF DecideSweep
    <2>2. \A t \in Series : \A j \in Books(t) : Fed(t, j)' = Fed(t, j)
      BY <1>25, <1>0 DEF Fed, DecideSweep
    <2>3. QED
      BY <2>1, <2>2, <1>k
  <1>26. CASE Sweep
    <2>1. /\ UNCHANGED <<bookCh, result>>
          /\ \A v \in Workers : worker[v].at \in Reading =>
                worker'[v].at \in Reading /\ worker'[v].job = worker[v].job
      BY <1>26, <1>0 DEF Sweep
    <2>2. \A t \in Series : \A j \in Books(t) : Fed(t, j)' = Fed(t, j)
      BY <1>26, <1>0 DEF Fed, Sweep
    <2>3. QED
      BY <2>1, <2>2, <1>k
  <1>27. CASE Cancel
    <2>1. /\ UNCHANGED <<bookCh, result>>
          /\ \A v \in Workers : worker[v].at \in Reading =>
                worker'[v].at \in Reading /\ worker'[v].job = worker[v].job
      BY <1>27, <1>0 DEF Cancel
    <2>2. \A t \in Series : \A j \in Books(t) : Fed(t, j)' = Fed(t, j)
      BY <1>27, <1>0 DEF Fed, Cancel
    <2>3. QED
      BY <2>1, <2>2, <1>k
  <1>q. QED
    BY <1>1, <1>2, <1>3, <1>4, <1>5, <1>6, <1>7, <1>8, <1>9, <1>10, <1>11, <1>12, <1>13, <1>14, <1>15, <1>16, <1>17, <1>18, <1>19, <1>20, <1>21, <1>22, <1>23, <1>24, <1>25, <1>26, <1>27 DEF Next, WalkStep, WorkStep, WriteStep

(* remaining reaches zero with the last book, and never before.            *)
LEMMA CountedStep == IInv /\ [Next]_vars => Counted'
  <1> SUFFICES ASSUME IInv, [Next]_vars PROVE Counted'
    OBVIOUS
  <1> USE DEF walk, rows, end
  <1>0. /\ walkAt \in (1..Len(Pages) + 1) \X Nat /\ Series = 1..Len(Pages) /\ Len(Pages) \in Nat
        /\ \A s \in Series : Len(Pages[s]) \in Nat /\ Books(s) = 1..Len(Pages[s])
        /\ bookCh \in Seq(Series \X Nat) /\ resCh \in Seq(Series)
        /\ worker \in [Workers -> [at : {"idle", "taken", "reading", "budget", "waiting", "offer", "exited"},
                               job : {<<0, 0>>} \cup (Series \X Nat)]]
        /\ remaining \in [Series -> Nat]
        /\ writer \in [at : {"receive", "row", "written", "ended", "decided", "done"}, row : {<<0, 0>>} \cup Facts]
    BY Library DEF IInv, TypeOK
  <1>i. Counted
    BY DEF IInv
  <1>c. remaining \in [Series -> Nat]
    BY DEF IInv, TypeOK
  <1>1. CASE UNCHANGED vars
    BY <1>i, <1>1 DEF vars, Counted, Begun, Open
  <1>2. CASE WalkFails
    BY <1>2, <1>i DEF WalkFails, StopWalk, Counted, Begun, Open
  <1>3. CASE WalkCancelled
    BY <1>3, <1>i DEF WalkCancelled, StopWalk, Counted, Begun, Open
  <1>4. CASE WalkSeries
    <2>0. PICK s \in Series : walkAt = <<s, 0>>
      BY <1>4, <1>0 DEF WalkSeries
    <2>1. /\ walkAt' = <<s, 1>> /\ UNCHANGED result
          /\ remaining' = [remaining EXCEPT ![s] = Len(Pages[s])]
      BY <1>4, <2>0 DEF WalkSeries
    <2>2. remaining'[s] = Cardinality(Open(s)')
      <3>1. \A i \in Books(s) : ~Fed(s, i)
        <4>1. walkAt[1] = s /\ walkAt[2] = 0
          BY <2>0
        <4>2. s \in Nat /\ \A i \in Books(s) : i \in Nat /\ i > 0
          BY Library
        <4>3. QED
          BY <4>1, <4>2 DEF Fed
      <3>2. Open(s) = Books(s)
        BY <3>1 DEF IInv, Jobs, Open
      <3>3. Open(s)' = 1..Len(Pages[s])
        BY <2>1, <3>2, <1>0 DEF Open
      <3>4. Cardinality(1..Len(Pages[s])) = Len(Pages[s])
        <4>1. PICK n \in Nat : n = Len(Pages[s])
          BY <1>0
        <4>2. Cardinality(1..n) = IF 1 > n THEN 0 ELSE n - 1 + 1
          BY FS_Interval
        <4>3. QED
          BY <4>1, <4>2
      <3>5. remaining'[s] = Len(Pages[s])
        BY <2>1, <1>0
      <3>6. QED
        BY <3>3, <3>4, <3>5
    <2>3. ASSUME NEW t \in Series, t # s, Begun(t)'
          PROVE  remaining'[t] = Cardinality(Open(t)')
      <3>1. Begun(t) /\ remaining'[t] = remaining[t] /\ Open(t)' = Open(t)
        BY <2>0, <2>1, <2>3, <1>0 DEF Begun, Open
      <3>2. QED
        BY <3>1, <1>i DEF Counted
    <2>4. QED
      BY <2>2, <2>3 DEF Counted
  <1>5. CASE FeedBook
    <2>1. PICK s \in Series, i \in Nat : Feeds(s, i)
      BY <1>5, Feeding
    <2>2. \A t \in Series : Begun(t)' = Begun(t)
      BY <2>1 DEF Feeds
    <2>3. UNCHANGED <<remaining, result>>
      BY <1>5 DEF FeedBook
    <2>4. QED
      BY <2>2, <2>3, <1>i DEF Counted, Open
  <1>6. CASE OfferEmpty
    <2>1. PICK s \in Series : \A t \in Series : Begun(t)' = Begun(t)
      BY <1>6, Skipping
    <2>2. UNCHANGED <<remaining, result>>
      BY <1>6 DEF OfferEmpty
    <2>3. QED
      BY <2>1, <2>2, <1>i DEF Counted, Open
  <1>7. CASE WalkEnds
    BY <1>7, <1>i DEF WalkEnds, StopWalk, Counted, Begun, Open
  <1>8. ASSUME NEW w \in Workers, Take(w)
        PROVE  Counted'
    BY <1>8, <1>i DEF Take, Put, Job, Task, Counted, Begun, Open
  <1>9. ASSUME NEW w \in Workers, Exit(w)
        PROVE  Counted'
    BY <1>9, <1>i DEF Exit, Put, Job, Task, Counted, Begun, Open
  <1>10. ASSUME NEW w \in Workers, SkipBook(w)
        PROVE  Counted'
    <2>1. PICK s \in Series, r \in Results \ {"none"}, i \in Nat : Settles(w, s, i, r)
      BY <1>10, Settling
    <2>2. /\ UNCHANGED walkAt /\ \A t \in Series : t # s => Open(t)' = Open(t)
          /\ remaining[s] = Cardinality(Open(s)) /\ remaining' = [remaining EXCEPT ![s] = remaining[s] - 1]
          /\ Cardinality(Open(s)') = Cardinality(Open(s)) - 1
      BY <2>1 DEF Settles
    <2>3. remaining'[s] = Cardinality(Open(s)') /\ \A t \in Series : t # s => remaining'[t] = remaining[t]
      BY <2>2, <1>c
    <2>4. ASSUME NEW t \in Series, Begun(t)'
          PROVE  remaining'[t] = Cardinality(Open(t)')
      <3>1. Begun(t)
        BY <2>2, <2>4 DEF Begun
      <3>2. QED
        BY <3>1, <2>2, <2>3, <1>i DEF Counted
    <2>5. QED
      BY <2>4 DEF Counted
  <1>11. ASSUME NEW w \in Workers, ReadBook(w)
        PROVE  Counted'
    BY <1>11, <1>i DEF ReadBook, Put, Job, Task, Counted, Begun, Open
  <1>12. ASSUME NEW w \in Workers, FinishBook(w)
        PROVE  Counted'
    <2>1. PICK s \in Series, r \in Results \ {"none"}, i \in Nat : Settles(w, s, i, r)
      BY <1>12, Settling
    <2>2. /\ UNCHANGED walkAt /\ \A t \in Series : t # s => Open(t)' = Open(t)
          /\ remaining[s] = Cardinality(Open(s)) /\ remaining' = [remaining EXCEPT ![s] = remaining[s] - 1]
          /\ Cardinality(Open(s)') = Cardinality(Open(s)) - 1
      BY <2>1 DEF Settles
    <2>3. remaining'[s] = Cardinality(Open(s)') /\ \A t \in Series : t # s => remaining'[t] = remaining[t]
      BY <2>2, <1>c
    <2>4. ASSUME NEW t \in Series, Begun(t)'
          PROVE  remaining'[t] = Cardinality(Open(t)')
      <3>1. Begun(t)
        BY <2>2, <2>4 DEF Begun
      <3>2. QED
        BY <3>1, <2>2, <2>3, <1>i DEF Counted
    <2>5. QED
      BY <2>4 DEF Counted
  <1>13. ASSUME NEW w \in Workers, AcquireBudget(w)
        PROVE  Counted'
    BY <1>13, <1>i DEF AcquireBudget, Put, Job, Task, Counted, Begun, Open
  <1>14. ASSUME NEW w \in Workers, WaitForBudget(w)
        PROVE  Counted'
    BY <1>14, <1>i DEF WaitForBudget, Put, Job, Task, Counted, Begun, Open
  <1>15. ASSUME NEW w \in Workers, BudgetCancelled(w)
        PROVE  Counted'
    BY <1>15, <1>i DEF BudgetCancelled, Put, Job, Task, Counted, Begun, Open
  <1>16. ASSUME NEW w \in Workers, Offer(w)
        PROVE  Counted'
    BY <1>16, <1>i DEF Offer, Put, Job, Task, Counted, Begun, Open
  <1>17. ASSUME NEW w \in Workers, OfferCancelled(w)
        PROVE  Counted'
    BY <1>17, <1>i DEF OfferCancelled, Put, Job, Task, Counted, Begun, Open
  <1>18. CASE Receive
    BY <1>18, <1>i DEF Receive, Counted, Begun, Open
  <1>19. CASE Tick
    BY <1>19, <1>i DEF Tick, Commit, Fail, Counted, Begun, Open
  <1>20. CASE WriteRow
    BY <1>20, <1>i DEF WriteRow, Insert, Commit, ToBook, Counted, Begun, Open
  <1>21. CASE WriteFails
    BY <1>21, <1>i DEF WriteFails, Fail, Ready, Counted, Begun, Open
  <1>22. CASE Stamp
    BY <1>22, <1>i DEF Stamp, ToBook, Counted, Begun, Open
  <1>23. CASE EndSeries
    BY <1>23, <1>i DEF EndSeries, Insert, Commit, Fail, Ready, Counted, Begun, Open
  <1>24. CASE WriterEnds
    BY <1>24, <1>i DEF WriterEnds, Ready, Commit, Counted, Begun, Open
  <1>25. CASE DecideSweep
    BY <1>25, <1>i DEF DecideSweep, Counted, Begun, Open
  <1>26. CASE Sweep
    BY <1>26, <1>i DEF Sweep, Counted, Begun, Open
  <1>27. CASE Cancel
    BY <1>27, <1>i DEF Cancel, Counted, Begun, Open
  <1>q. QED
    BY <1>1, <1>2, <1>3, <1>4, <1>5, <1>6, <1>7, <1>8, <1>9, <1>10, <1>11, <1>12, <1>13, <1>14, <1>15, <1>16, <1>17, <1>18, <1>19, <1>20, <1>21, <1>22, <1>23, <1>24, <1>25, <1>26, <1>27 DEF Next, WalkStep, WorkStep, WriteStep

(* A series that is settled stays so.                                      *)
LEMMA SettledStays == IInv /\ [Next]_vars => \A s : s \in Settled => s \in Settled'
  <1> SUFFICES ASSUME IInv, [Next]_vars PROVE \A s : s \in Settled => s \in Settled'
    OBVIOUS
  <1> USE DEF Settled, walk, rows, end
  <1> SUFFICES ASSUME NEW s, s \in Settled PROVE s \in Settled'
    OBVIOUS
  <1>0. /\ walkAt \in (1..Len(Pages) + 1) \X Nat /\ Series = 1..Len(Pages) /\ Len(Pages) \in Nat
        /\ \A t \in Series : Len(Pages[t]) \in Nat /\ Books(t) = 1..Len(Pages[t])
        /\ bookCh \in Seq(Series \X Nat) /\ resCh \in Seq(Series)
        /\ worker \in [Workers -> [at : {"idle", "taken", "reading", "budget", "waiting", "offer", "exited"},
                               job : {<<0, 0>>} \cup (Series \X Nat)]]
        /\ writer \in [at : {"receive", "row", "written", "ended", "decided", "done"}, row : {<<0, 0>>} \cup Facts]
    BY Library DEF IInv, TypeOK
  <1>i. s \in Series /\ s < walkAt[1] /\ Open(s) = {}
    OBVIOUS
  <1>1. CASE UNCHANGED vars
    BY <1>0, <1>i, <1>1 DEF vars, Open
  <1>2. CASE WalkFails
    BY <1>2, <1>0, <1>i DEF WalkFails, StopWalk, Open
  <1>3. CASE WalkCancelled
    BY <1>3, <1>0, <1>i DEF WalkCancelled, StopWalk, Open
  <1>4. CASE WalkSeries
    BY <1>4, <1>0, <1>i DEF WalkSeries, Open
  <1>5. CASE FeedBook
    <2>1. PICK t \in Series, i \in Nat : Feeds(t, i)
      BY <1>5, Feeding
    <2>2. UNCHANGED result
      BY <1>5 DEF FeedBook
    <2>3. QED
      BY <2>1, <2>2, <1>i DEF Feeds, Open
  <1>6. CASE OfferEmpty
    <2>1. PICK t \in Series : \A u \in Series : u < walkAt'[1] <=> u < walkAt[1] \/ u = t
      BY <1>6, Skipping
    <2>2. UNCHANGED result
      BY <1>6 DEF OfferEmpty
    <2>3. QED
      BY <2>1, <2>2, <1>i DEF Open
  <1>7. CASE WalkEnds
    BY <1>7, <1>0, <1>i DEF WalkEnds, StopWalk, Open
  <1>8. ASSUME NEW w \in Workers, Take(w)
        PROVE  s \in Settled'
    BY <1>8, <1>0, <1>i DEF Take, Put, Job, Task, Open
  <1>9. ASSUME NEW w \in Workers, Exit(w)
        PROVE  s \in Settled'
    BY <1>9, <1>0, <1>i DEF Exit, Put, Job, Task, Open
  <1>10. ASSUME NEW w \in Workers, SkipBook(w)
        PROVE  s \in Settled'
    <2>1. PICK t \in Series, r \in Results \ {"none"}, i \in Nat : Settles(w, t, i, r)
      BY <1>10, Settling
    <2>2. QED
      BY <2>1, <1>i DEF Settles
  <1>11. ASSUME NEW w \in Workers, ReadBook(w)
        PROVE  s \in Settled'
    BY <1>11, <1>0, <1>i DEF ReadBook, Put, Job, Task, Open
  <1>12. ASSUME NEW w \in Workers, FinishBook(w)
        PROVE  s \in Settled'
    <2>1. PICK t \in Series, r \in Results \ {"none"}, i \in Nat : Settles(w, t, i, r)
      BY <1>12, Settling
    <2>2. QED
      BY <2>1, <1>i DEF Settles
  <1>13. ASSUME NEW w \in Workers, AcquireBudget(w)
        PROVE  s \in Settled'
    BY <1>13, <1>0, <1>i DEF AcquireBudget, Put, Job, Task, Open
  <1>14. ASSUME NEW w \in Workers, WaitForBudget(w)
        PROVE  s \in Settled'
    BY <1>14, <1>0, <1>i DEF WaitForBudget, Put, Job, Task, Open
  <1>15. ASSUME NEW w \in Workers, BudgetCancelled(w)
        PROVE  s \in Settled'
    BY <1>15, <1>0, <1>i DEF BudgetCancelled, Put, Job, Task, Open
  <1>16. ASSUME NEW w \in Workers, Offer(w)
        PROVE  s \in Settled'
    BY <1>16, <1>0, <1>i DEF Offer, Put, Job, Task, Open
  <1>17. ASSUME NEW w \in Workers, OfferCancelled(w)
        PROVE  s \in Settled'
    BY <1>17, <1>0, <1>i DEF OfferCancelled, Put, Job, Task, Open
  <1>18. CASE Receive
    BY <1>18, <1>0, <1>i DEF Receive, Open
  <1>19. CASE Tick
    BY <1>19, <1>0, <1>i DEF Tick, Commit, Fail, Open
  <1>20. CASE WriteRow
    BY <1>20, <1>0, <1>i DEF WriteRow, Insert, Commit, ToBook, Open
  <1>21. CASE WriteFails
    BY <1>21, <1>0, <1>i DEF WriteFails, Fail, Ready, Open
  <1>22. CASE Stamp
    BY <1>22, <1>0, <1>i DEF Stamp, ToBook, Open
  <1>23. CASE EndSeries
    BY <1>23, <1>0, <1>i DEF EndSeries, Insert, Commit, Fail, Ready, Open
  <1>24. CASE WriterEnds
    BY <1>24, <1>0, <1>i DEF WriterEnds, Ready, Commit, Open
  <1>25. CASE DecideSweep
    BY <1>25, <1>0, <1>i DEF DecideSweep, Open
  <1>26. CASE Sweep
    BY <1>26, <1>0, <1>i DEF Sweep, Open
  <1>27. CASE Cancel
    BY <1>27, <1>0, <1>i DEF Cancel, Open
  <1>q. QED
    BY <1>1, <1>2, <1>3, <1>4, <1>5, <1>6, <1>7, <1>8, <1>9, <1>10, <1>11, <1>12, <1>13, <1>14, <1>15, <1>16, <1>17, <1>18, <1>19, <1>20, <1>21, <1>22, <1>23, <1>24, <1>25, <1>26, <1>27 DEF Next, WalkStep, WorkStep, WriteStep

(* A series goes one way, and nobody else takes it.                        *)
LEMMA CarriedStep == IInv /\ [Next]_vars => Carried' /\ CarriedApart'
  <1> SUFFICES ASSUME IInv, [Next]_vars PROVE Carried' /\ CarriedApart'
    OBVIOUS
  <1> USE DEF Carrying, Writing, walk, rows, end
  <1>0. /\ walkAt \in (1..Len(Pages) + 1) \X Nat /\ Series = 1..Len(Pages) /\ Len(Pages) \in Nat
        /\ \A s \in Series : Len(Pages[s]) \in Nat /\ Books(s) = 1..Len(Pages[s])
        /\ bookCh \in Seq(Series \X Nat) /\ resCh \in Seq(Series)
        /\ worker \in [Workers -> [at : {"idle", "taken", "reading", "budget", "waiting", "offer", "exited"},
                               job : {<<0, 0>>} \cup (Series \X Nat)]]
        /\ writer \in [at : {"receive", "row", "written", "ended", "decided", "done"}, row : {<<0, 0>>} \cup Facts]
    BY Library DEF IInv, TypeOK
  <1>i. Carried /\ CarriedApart
    BY DEF IInv
  <1>s. \A s : s \in Settled => s \in Settled'
    BY SettledStays
  <1>k. ASSUME UNCHANGED resCh,
               \A v \in Workers : worker'[v].at \in Carrying =>
                  worker[v].at \in Carrying /\ worker'[v].job[1] = worker[v].job[1],
               writer'.at \in Writing => writer.at \in Writing /\ writer'.row[1] = writer.row[1]
        PROVE  Carried' /\ CarriedApart'
    <2>1. Carried'
      BY <1>i, <1>s, <1>k DEF Carried, Settled, Open, Task
    <2>2. CarriedApart'
      BY <1>i, <1>k DEF CarriedApart, Task
    <2>3. QED
      BY <2>1, <2>2
  <1>1. CASE UNCHANGED vars
    <2>1. UNCHANGED resCh /\ \A v \in Workers : worker'[v].at \in Carrying =>
             worker[v].at \in Carrying /\ worker'[v].job[1] = worker[v].job[1]
      BY <1>1, <1>0 DEF vars
    <2>2. writer'.at \in Writing => writer.at \in Writing /\ writer'.row[1] = writer.row[1]
      BY <1>1, <1>0 DEF vars
    <2>3. QED
      BY <2>1, <2>2, <1>k
  <1>2. CASE WalkFails
    <2>1. UNCHANGED resCh /\ \A v \in Workers : worker'[v].at \in Carrying =>
             worker[v].at \in Carrying /\ worker'[v].job[1] = worker[v].job[1]
      BY <1>2, <1>0 DEF WalkFails, StopWalk
    <2>2. writer'.at \in Writing => writer.at \in Writing /\ writer'.row[1] = writer.row[1]
      BY <1>2, <1>0 DEF WalkFails, StopWalk
    <2>3. QED
      BY <2>1, <2>2, <1>k
  <1>3. CASE WalkCancelled
    <2>1. UNCHANGED resCh /\ \A v \in Workers : worker'[v].at \in Carrying =>
             worker[v].at \in Carrying /\ worker'[v].job[1] = worker[v].job[1]
      BY <1>3, <1>0 DEF WalkCancelled, StopWalk
    <2>2. writer'.at \in Writing => writer.at \in Writing /\ writer'.row[1] = writer.row[1]
      BY <1>3, <1>0 DEF WalkCancelled, StopWalk
    <2>3. QED
      BY <2>1, <2>2, <1>k
  <1>4. CASE WalkSeries
    <2>1. UNCHANGED resCh /\ \A v \in Workers : worker'[v].at \in Carrying =>
             worker[v].at \in Carrying /\ worker'[v].job[1] = worker[v].job[1]
      BY <1>4, <1>0 DEF WalkSeries
    <2>2. writer'.at \in Writing => writer.at \in Writing /\ writer'.row[1] = writer.row[1]
      BY <1>4, <1>0 DEF WalkSeries
    <2>3. QED
      BY <2>1, <2>2, <1>k
  <1>5. CASE FeedBook
    <2>1. UNCHANGED resCh /\ \A v \in Workers : worker'[v].at \in Carrying =>
             worker[v].at \in Carrying /\ worker'[v].job[1] = worker[v].job[1]
      BY <1>5, <1>0 DEF FeedBook, NextSeries
    <2>2. writer'.at \in Writing => writer.at \in Writing /\ writer'.row[1] = writer.row[1]
      BY <1>5, <1>0 DEF FeedBook, NextSeries
    <2>3. QED
      BY <2>1, <2>2, <1>k
  <1>6. CASE OfferEmpty
    <2>1. PICK s \in Series :
            /\ walkAt[1] = s /\ Books(s) = {} /\ resCh' = Append(resCh, s)
            /\ \A t \in Series : t < walkAt'[1] <=> t < walkAt[1] \/ t = s
      BY <1>6, Skipping
    <2>2. UNCHANGED <<worker, writer, result>>
      BY <1>6 DEF OfferEmpty
    <2>3. s \in Settled' /\ s \notin Settled
      BY <2>1, <1>0 DEF Settled, Open
    <2>4. /\ Len(resCh') = Len(resCh) + 1 /\ Len(resCh) \in Nat /\ resCh'[Len(resCh) + 1] = s
          /\ \A k \in 1..Len(resCh') : (k \in 1..Len(resCh) /\ resCh'[k] = resCh[k]) \/ k = Len(resCh) + 1
      BY <2>1, <1>0, Sent
    <2>5. /\ \A v \in Workers : worker[v].at \in Carrying => Task(v) # s
          /\ \A k \in 1..Len(resCh) : resCh[k] # s
          /\ writer.at \in Writing => writer.row[1] # s
      BY <2>3, <1>i DEF Carried
    <2>6. Carried'
      BY <2>2, <2>3, <2>4, <1>i, <1>s DEF Carried, Task, Settled, Open
    <2>7. CarriedApart'
      BY <2>2, <2>4, <2>5, <1>i DEF CarriedApart, Task
    <2>8. QED
      BY <2>6, <2>7
  <1>7. CASE WalkEnds
    <2>1. UNCHANGED resCh /\ \A v \in Workers : worker'[v].at \in Carrying =>
             worker[v].at \in Carrying /\ worker'[v].job[1] = worker[v].job[1]
      BY <1>7, <1>0 DEF WalkEnds, StopWalk
    <2>2. writer'.at \in Writing => writer.at \in Writing /\ writer'.row[1] = writer.row[1]
      BY <1>7, <1>0 DEF WalkEnds, StopWalk
    <2>3. QED
      BY <2>1, <2>2, <1>k
  <1>8. ASSUME NEW w \in Workers, Take(w)
        PROVE  Carried' /\ CarriedApart'
    <2>1. UNCHANGED resCh /\ \A v \in Workers : worker'[v].at \in Carrying =>
             worker[v].at \in Carrying /\ worker'[v].job[1] = worker[v].job[1]
      BY <1>8, <1>0 DEF Take, Put, Job, Task
    <2>2. writer'.at \in Writing => writer.at \in Writing /\ writer'.row[1] = writer.row[1]
      BY <1>8, <1>0 DEF Take, Put, Job, Task
    <2>3. QED
      BY <2>1, <2>2, <1>k
  <1>9. ASSUME NEW w \in Workers, Exit(w)
        PROVE  Carried' /\ CarriedApart'
    <2>1. UNCHANGED resCh /\ \A v \in Workers : worker'[v].at \in Carrying =>
             worker[v].at \in Carrying /\ worker'[v].job[1] = worker[v].job[1]
      BY <1>9, <1>0 DEF Exit, Put, Job, Task
    <2>2. writer'.at \in Writing => writer.at \in Writing /\ writer'.row[1] = writer.row[1]
      BY <1>9, <1>0 DEF Exit, Put, Job, Task
    <2>3. QED
      BY <2>1, <2>2, <1>k
  <1>10. ASSUME NEW w \in Workers, SkipBook(w)
        PROVE  Carried' /\ CarriedApart'
    <2>1. PICK s \in Series, r \in Results \ {"none"}, i \in Nat : i \in Open(s) /\ i \in Books(s) /\ Settles(w, s, i, r)
      BY <1>10, Settling
    <2>2. UNCHANGED <<resCh, writer, walkAt>> /\ worker[w].at \in Reading
      BY <2>1 DEF Settles
    <2>3. CASE Open(s)' # {}
      <3>1. worker' = [worker EXCEPT ![w] = [at |-> "idle", job |-> <<0, 0>>]]
        BY <2>1, <2>3 DEF Settles
      <3>2. QED
        BY <3>1, <2>2, <1>0, <1>k
    <2>4. CASE Open(s)' = {}
      <3>1. worker' = [worker EXCEPT ![w] = [at |-> "budget", job |-> <<s, 0>>]]
        BY <2>1, <2>4 DEF Settles
      <3>2. worker'[w].job[1] = s /\ \A v \in Workers : v # w => worker'[v] = worker[v]
        BY <3>1, <1>0
      <3>3. s \in Settled'
        <4>1. Len(Pages[s]) \in Nat /\ i \in 1..Len(Pages[s]) /\ Len(Pages[s]) \in Books(s)
          BY <2>1, <1>0
        <4>2. ~(Len(Pages[s]) \in Open(s)')
          BY <2>4
        <4>3. Jobs' /\ Shape'
          BY JobsStep, ShapeStep
        <4>4. Fed(s, Len(Pages[s]))'
          BY <4>1, <4>2, <4>3 DEF Jobs
        <4>5. s < walkAt'[1]
          BY <4>1, <4>3, <4>4, <2>2, <1>0 DEF Fed, Shape
        <4>6. QED
          BY <4>5, <2>4 DEF Settled
      <3>4. s \notin Settled
        BY <2>1 DEF Settled
      <3>5. /\ \A v \in Workers : worker[v].at \in Carrying => Task(v) # s
            /\ \A k \in 1..Len(resCh) : resCh[k] # s
            /\ writer.at \in Writing => writer.row[1] # s
        BY <3>4, <1>i DEF Carried
      <3>6. Carried'
        <4>1. \A v \in Workers : worker'[v].at \in Carrying => worker'[v].job[1] \in Settled'
          BY <3>2, <3>3, <1>i, <1>s DEF Carried, Task, Settled, Open
        <4>2. QED
          BY <4>1, <2>2, <1>i, <1>s DEF Carried, Task, Settled, Open
      <3>7. CarriedApart'
        BY <2>2, <3>2, <3>5, <1>i DEF CarriedApart, Task
      <3>8. QED
        BY <3>6, <3>7
    <2>5. QED
      BY <2>3, <2>4
  <1>11. ASSUME NEW w \in Workers, ReadBook(w)
        PROVE  Carried' /\ CarriedApart'
    <2>1. UNCHANGED resCh /\ \A v \in Workers : worker'[v].at \in Carrying =>
             worker[v].at \in Carrying /\ worker'[v].job[1] = worker[v].job[1]
      BY <1>11, <1>0 DEF ReadBook, Put, Job, Task
    <2>2. writer'.at \in Writing => writer.at \in Writing /\ writer'.row[1] = writer.row[1]
      BY <1>11, <1>0 DEF ReadBook, Put, Job, Task
    <2>3. QED
      BY <2>1, <2>2, <1>k
  <1>12. ASSUME NEW w \in Workers, FinishBook(w)
        PROVE  Carried' /\ CarriedApart'
    <2>1. PICK s \in Series, r \in Results \ {"none"}, i \in Nat : i \in Open(s) /\ i \in Books(s) /\ Settles(w, s, i, r)
      BY <1>12, Settling
    <2>2. UNCHANGED <<resCh, writer, walkAt>> /\ worker[w].at \in Reading
      BY <2>1 DEF Settles
    <2>3. CASE Open(s)' # {}
      <3>1. worker' = [worker EXCEPT ![w] = [at |-> "idle", job |-> <<0, 0>>]]
        BY <2>1, <2>3 DEF Settles
      <3>2. QED
        BY <3>1, <2>2, <1>0, <1>k
    <2>4. CASE Open(s)' = {}
      <3>1. worker' = [worker EXCEPT ![w] = [at |-> "budget", job |-> <<s, 0>>]]
        BY <2>1, <2>4 DEF Settles
      <3>2. worker'[w].job[1] = s /\ \A v \in Workers : v # w => worker'[v] = worker[v]
        BY <3>1, <1>0
      <3>3. s \in Settled'
        <4>1. Len(Pages[s]) \in Nat /\ i \in 1..Len(Pages[s]) /\ Len(Pages[s]) \in Books(s)
          BY <2>1, <1>0
        <4>2. ~(Len(Pages[s]) \in Open(s)')
          BY <2>4
        <4>3. Jobs' /\ Shape'
          BY JobsStep, ShapeStep
        <4>4. Fed(s, Len(Pages[s]))'
          BY <4>1, <4>2, <4>3 DEF Jobs
        <4>5. s < walkAt'[1]
          BY <4>1, <4>3, <4>4, <2>2, <1>0 DEF Fed, Shape
        <4>6. QED
          BY <4>5, <2>4 DEF Settled
      <3>4. s \notin Settled
        BY <2>1 DEF Settled
      <3>5. /\ \A v \in Workers : worker[v].at \in Carrying => Task(v) # s
            /\ \A k \in 1..Len(resCh) : resCh[k] # s
            /\ writer.at \in Writing => writer.row[1] # s
        BY <3>4, <1>i DEF Carried
      <3>6. Carried'
        <4>1. \A v \in Workers : worker'[v].at \in Carrying => worker'[v].job[1] \in Settled'
          BY <3>2, <3>3, <1>i, <1>s DEF Carried, Task, Settled, Open
        <4>2. QED
          BY <4>1, <2>2, <1>i, <1>s DEF Carried, Task, Settled, Open
      <3>7. CarriedApart'
        BY <2>2, <3>2, <3>5, <1>i DEF CarriedApart, Task
      <3>8. QED
        BY <3>6, <3>7
    <2>5. QED
      BY <2>3, <2>4
  <1>13. ASSUME NEW w \in Workers, AcquireBudget(w)
        PROVE  Carried' /\ CarriedApart'
    <2>1. UNCHANGED resCh /\ \A v \in Workers : worker'[v].at \in Carrying =>
             worker[v].at \in Carrying /\ worker'[v].job[1] = worker[v].job[1]
      BY <1>13, <1>0 DEF AcquireBudget, Put, Job, Task
    <2>2. writer'.at \in Writing => writer.at \in Writing /\ writer'.row[1] = writer.row[1]
      BY <1>13, <1>0 DEF AcquireBudget, Put, Job, Task
    <2>3. QED
      BY <2>1, <2>2, <1>k
  <1>14. ASSUME NEW w \in Workers, WaitForBudget(w)
        PROVE  Carried' /\ CarriedApart'
    <2>1. UNCHANGED resCh /\ \A v \in Workers : worker'[v].at \in Carrying =>
             worker[v].at \in Carrying /\ worker'[v].job[1] = worker[v].job[1]
      BY <1>14, <1>0 DEF WaitForBudget, Put, Job, Task
    <2>2. writer'.at \in Writing => writer.at \in Writing /\ writer'.row[1] = writer.row[1]
      BY <1>14, <1>0 DEF WaitForBudget, Put, Job, Task
    <2>3. QED
      BY <2>1, <2>2, <1>k
  <1>15. ASSUME NEW w \in Workers, BudgetCancelled(w)
        PROVE  Carried' /\ CarriedApart'
    <2>1. UNCHANGED resCh /\ \A v \in Workers : worker'[v].at \in Carrying =>
             worker[v].at \in Carrying /\ worker'[v].job[1] = worker[v].job[1]
      BY <1>15, <1>0 DEF BudgetCancelled, Put, Job, Task
    <2>2. writer'.at \in Writing => writer.at \in Writing /\ writer'.row[1] = writer.row[1]
      BY <1>15, <1>0 DEF BudgetCancelled, Put, Job, Task
    <2>3. QED
      BY <2>1, <2>2, <1>k
  <1>16. ASSUME NEW w \in Workers, Offer(w)
        PROVE  Carried' /\ CarriedApart'
    <2>1. /\ worker[w].at = "offer" /\ resCh' = Append(resCh, Task(w)) /\ UNCHANGED writer
          /\ worker' = [worker EXCEPT ![w] = [at |-> "idle", job |-> <<0, 0>>]]
      BY <1>16 DEF Offer, Put
    <2>2. PICK s \in Series : s = Task(w)
      BY <2>1, <1>i DEF Carried, Settled
    <2>3. worker'[w].at \notin Carrying /\ \A v \in Workers : v # w => worker'[v] = worker[v]
      BY <2>1, <1>0
    <2>4. /\ Len(resCh') = Len(resCh) + 1 /\ Len(resCh) \in Nat /\ resCh'[Len(resCh) + 1] = s
          /\ \A k \in 1..Len(resCh') : (k \in 1..Len(resCh) /\ resCh'[k] = resCh[k]) \/ k = Len(resCh) + 1
      BY <2>1, <2>2, <1>0, Sent
    <2>5. /\ \A v \in Workers : v # w /\ worker[v].at \in Carrying => Task(v) # s
          /\ \A k \in 1..Len(resCh) : resCh[k] # s
          /\ writer.at \in Writing => writer.row[1] # s
          /\ s \in Settled
      BY <2>1, <2>2, <1>i DEF Carried, CarriedApart
    <2>6. Carried'
      <3>1. \A v \in Workers : worker'[v].at \in Carrying => worker'[v].job[1] \in Settled
        BY <2>3, <1>i DEF Carried, Task
      <3>2. \A k \in 1..Len(resCh') : resCh'[k] \in Settled
        BY <2>4, <2>5, <1>i DEF Carried
      <3>3. QED
        BY <3>1, <3>2, <2>1, <1>i, <1>s DEF Carried, Task, Settled, Open
    <2>7. CarriedApart'
      BY <2>1, <2>3, <2>4, <2>5, <1>i DEF CarriedApart, Task
    <2>8. QED
      BY <2>6, <2>7
  <1>17. ASSUME NEW w \in Workers, OfferCancelled(w)
        PROVE  Carried' /\ CarriedApart'
    <2>1. UNCHANGED resCh /\ \A v \in Workers : worker'[v].at \in Carrying =>
             worker[v].at \in Carrying /\ worker'[v].job[1] = worker[v].job[1]
      BY <1>17, <1>0 DEF OfferCancelled, Put, Job, Task
    <2>2. writer'.at \in Writing => writer.at \in Writing /\ writer'.row[1] = writer.row[1]
      BY <1>17, <1>0 DEF OfferCancelled, Put, Job, Task
    <2>3. QED
      BY <2>1, <2>2, <1>k
  <1>18. CASE Receive
    <2>1. /\ writer.at = "receive" /\ resCh # <<>> /\ resCh' = Tail(resCh) /\ UNCHANGED worker
          /\ writer' = writer \/ writer' = [at |-> "row", row |-> <<Head(resCh), 0>>]
      BY <1>18 DEF Receive
    <2>2. /\ Head(resCh) = resCh[1] /\ 1 \in 1..Len(resCh)
          /\ \A k \in 1..Len(resCh') : resCh'[k] = resCh[k + 1] /\ k + 1 \in 1..Len(resCh) /\ k + 1 # 1 /\ k \in Nat
      BY <2>1, <1>0, Received
    <2>3. writer'.at \in Writing => writer'.row[1] = resCh[1]
      BY <2>1, <2>2
    <2>4. resCh[1] \in Settled /\ \A k \in 1..Len(resCh') : resCh'[k] \in Settled /\ resCh'[k] # resCh[1]
      BY <2>2, <1>i DEF Carried, CarriedApart
    <2>5. Carried'
      BY <2>1, <2>3, <2>4, <1>i, <1>s DEF Carried, Task, Settled, Open
    <2>6. \A j, k \in 1..Len(resCh') : resCh'[j] = resCh'[k] => j = k
      BY <2>2, <1>i DEF CarriedApart
    <2>7. \A v \in Workers : worker[v].at \in Carrying =>
            worker[v].job[1] # resCh[1] /\ \A k \in 1..Len(resCh') : resCh'[k] # worker[v].job[1]
      BY <2>2, <1>i DEF CarriedApart, Task
    <2>8. CarriedApart'
      BY <2>1, <2>3, <2>4, <2>6, <2>7, <1>i DEF CarriedApart, Task
    <2>9. QED
      BY <2>5, <2>8
  <1>19. CASE Tick
    <2>1. UNCHANGED resCh /\ \A v \in Workers : worker'[v].at \in Carrying =>
             worker[v].at \in Carrying /\ worker'[v].job[1] = worker[v].job[1]
      BY <1>19, <1>0 DEF Tick, Commit, Fail
    <2>2. writer'.at \in Writing => writer.at \in Writing /\ writer'.row[1] = writer.row[1]
      BY <1>19, <1>0 DEF Tick, Commit, Fail
    <2>3. QED
      BY <2>1, <2>2, <1>k
  <1>20. CASE WriteRow
    <2>1. UNCHANGED <<resCh, worker>> /\ writer.at = "row"
      BY <1>20 DEF WriteRow
    <2>2. writer'.row[1] = writer.row[1]
      BY <1>20, <1>0 DEF WriteRow, ToBook
    <2>3. QED
      BY <2>1, <2>2, <1>k
  <1>21. CASE WriteFails
    <2>1. UNCHANGED resCh /\ \A v \in Workers : worker'[v].at \in Carrying =>
             worker[v].at \in Carrying /\ worker'[v].job[1] = worker[v].job[1]
      BY <1>21, <1>0 DEF WriteFails, Fail, Ready
    <2>2. writer'.at \in Writing => writer.at \in Writing /\ writer'.row[1] = writer.row[1]
      BY <1>21, <1>0 DEF WriteFails, Fail, Ready
    <2>3. QED
      BY <2>1, <2>2, <1>k
  <1>22. CASE Stamp
    <2>1. UNCHANGED <<resCh, worker>> /\ writer.at = "row"
      BY <1>22 DEF Stamp
    <2>2. writer'.row[1] = writer.row[1]
      BY <1>22, <1>0 DEF Stamp, ToBook
    <2>3. QED
      BY <2>1, <2>2, <1>k
  <1>23. CASE EndSeries
    <2>1. UNCHANGED resCh /\ \A v \in Workers : worker'[v].at \in Carrying =>
             worker[v].at \in Carrying /\ worker'[v].job[1] = worker[v].job[1]
      BY <1>23, <1>0 DEF EndSeries, Insert, Commit, Fail, Ready
    <2>2. writer'.at \in Writing => writer.at \in Writing /\ writer'.row[1] = writer.row[1]
      BY <1>23, <1>0 DEF EndSeries, Insert, Commit, Fail, Ready
    <2>3. QED
      BY <2>1, <2>2, <1>k
  <1>24. CASE WriterEnds
    <2>1. UNCHANGED resCh /\ \A v \in Workers : worker'[v].at \in Carrying =>
             worker[v].at \in Carrying /\ worker'[v].job[1] = worker[v].job[1]
      BY <1>24, <1>0 DEF WriterEnds, Ready, Commit
    <2>2. writer'.at \in Writing => writer.at \in Writing /\ writer'.row[1] = writer.row[1]
      BY <1>24, <1>0 DEF WriterEnds, Ready, Commit
    <2>3. QED
      BY <2>1, <2>2, <1>k
  <1>25. CASE DecideSweep
    <2>1. UNCHANGED resCh /\ \A v \in Workers : worker'[v].at \in Carrying =>
             worker[v].at \in Carrying /\ worker'[v].job[1] = worker[v].job[1]
      BY <1>25, <1>0 DEF DecideSweep
    <2>2. writer'.at \in Writing => writer.at \in Writing /\ writer'.row[1] = writer.row[1]
      BY <1>25, <1>0 DEF DecideSweep
    <2>3. QED
      BY <2>1, <2>2, <1>k
  <1>26. CASE Sweep
    <2>1. UNCHANGED resCh /\ \A v \in Workers : worker'[v].at \in Carrying =>
             worker[v].at \in Carrying /\ worker'[v].job[1] = worker[v].job[1]
      BY <1>26, <1>0 DEF Sweep
    <2>2. writer'.at \in Writing => writer.at \in Writing /\ writer'.row[1] = writer.row[1]
      BY <1>26, <1>0 DEF Sweep
    <2>3. QED
      BY <2>1, <2>2, <1>k
  <1>27. CASE Cancel
    <2>1. UNCHANGED resCh /\ \A v \in Workers : worker'[v].at \in Carrying =>
             worker[v].at \in Carrying /\ worker'[v].job[1] = worker[v].job[1]
      BY <1>27, <1>0 DEF Cancel
    <2>2. writer'.at \in Writing => writer.at \in Writing /\ writer'.row[1] = writer.row[1]
      BY <1>27, <1>0 DEF Cancel
    <2>3. QED
      BY <2>1, <2>2, <1>k
  <1>q. QED
    BY <1>1, <1>2, <1>3, <1>4, <1>5, <1>6, <1>7, <1>8, <1>9, <1>10, <1>11, <1>12, <1>13, <1>14, <1>15, <1>16, <1>17, <1>18, <1>19, <1>20, <1>21, <1>22, <1>23, <1>24, <1>25, <1>26, <1>27 DEF Next, WalkStep, WorkStep, WriteStep

-----------------------------------------------------------------------------
(* Nobody settles a book of a series that is settled.                      *)
LEMMA ResultsStay == IInv /\ [Next]_vars => \A s \in Settled : result'[s] = result[s]
  <1> SUFFICES ASSUME IInv, [Next]_vars PROVE \A s \in Settled : result'[s] = result[s]
    OBVIOUS
  <1> USE DEF walk, rows, end
  <1> SUFFICES ASSUME NEW s \in Settled PROVE result'[s] = result[s]
    OBVIOUS
  <1>i. s \in Series /\ Open(s) = {}
    BY DEF Settled
  <1>1. CASE UNCHANGED vars
    BY <1>i, <1>1 DEF vars
  <1>2. CASE WalkFails
    BY <1>2, <1>i DEF WalkFails, StopWalk
  <1>3. CASE WalkCancelled
    BY <1>3, <1>i DEF WalkCancelled, StopWalk
  <1>4. CASE WalkSeries
    BY <1>4, <1>i DEF WalkSeries
  <1>5. CASE FeedBook
    BY <1>5, <1>i DEF FeedBook, NextSeries
  <1>6. CASE OfferEmpty
    BY <1>6, <1>i DEF OfferEmpty, NextSeries
  <1>7. CASE WalkEnds
    BY <1>7, <1>i DEF WalkEnds, StopWalk
  <1>8. ASSUME NEW w \in Workers, Take(w)
        PROVE  result'[s] = result[s]
    BY <1>8, <1>i DEF Take, Put, Job, Task
  <1>9. ASSUME NEW w \in Workers, Exit(w)
        PROVE  result'[s] = result[s]
    BY <1>9, <1>i DEF Exit, Put, Job, Task
  <1>10. ASSUME NEW w \in Workers, SkipBook(w)
        PROVE  result'[s] = result[s]
    <2>1. PICK t \in Series, r \in Results \ {"none"}, i \in Nat : i \in Open(t) /\ Settles(w, t, i, r)
      BY <1>10, Settling
    <2>2. s # t
      BY <2>1, <1>i
    <2>3. QED
      BY <2>1, <2>2, <1>i DEF Settles
  <1>11. ASSUME NEW w \in Workers, ReadBook(w)
        PROVE  result'[s] = result[s]
    BY <1>11, <1>i DEF ReadBook, Put, Job, Task
  <1>12. ASSUME NEW w \in Workers, FinishBook(w)
        PROVE  result'[s] = result[s]
    <2>1. PICK t \in Series, r \in Results \ {"none"}, i \in Nat : i \in Open(t) /\ Settles(w, t, i, r)
      BY <1>12, Settling
    <2>2. s # t
      BY <2>1, <1>i
    <2>3. QED
      BY <2>1, <2>2, <1>i DEF Settles
  <1>13. ASSUME NEW w \in Workers, AcquireBudget(w)
        PROVE  result'[s] = result[s]
    BY <1>13, <1>i DEF AcquireBudget, Put, Job, Task
  <1>14. ASSUME NEW w \in Workers, WaitForBudget(w)
        PROVE  result'[s] = result[s]
    BY <1>14, <1>i DEF WaitForBudget, Put, Job, Task
  <1>15. ASSUME NEW w \in Workers, BudgetCancelled(w)
        PROVE  result'[s] = result[s]
    BY <1>15, <1>i DEF BudgetCancelled, Put, Job, Task
  <1>16. ASSUME NEW w \in Workers, Offer(w)
        PROVE  result'[s] = result[s]
    BY <1>16, <1>i DEF Offer, Put, Job, Task
  <1>17. ASSUME NEW w \in Workers, OfferCancelled(w)
        PROVE  result'[s] = result[s]
    BY <1>17, <1>i DEF OfferCancelled, Put, Job, Task
  <1>18. CASE Receive
    BY <1>18, <1>i DEF Receive
  <1>19. CASE Tick
    BY <1>19, <1>i DEF Tick, Commit, Fail
  <1>20. CASE WriteRow
    BY <1>20, <1>i DEF WriteRow, Insert, Commit, ToBook
  <1>21. CASE WriteFails
    BY <1>21, <1>i DEF WriteFails, Fail, Ready
  <1>22. CASE Stamp
    BY <1>22, <1>i DEF Stamp, ToBook
  <1>23. CASE EndSeries
    BY <1>23, <1>i DEF EndSeries, Insert, Commit, Fail, Ready
  <1>24. CASE WriterEnds
    BY <1>24, <1>i DEF WriterEnds, Ready, Commit
  <1>25. CASE DecideSweep
    BY <1>25, <1>i DEF DecideSweep
  <1>26. CASE Sweep
    BY <1>26, <1>i DEF Sweep
  <1>27. CASE Cancel
    BY <1>27, <1>i DEF Cancel
  <1>q. QED
    BY <1>1, <1>2, <1>3, <1>4, <1>5, <1>6, <1>7, <1>8, <1>9, <1>10, <1>11, <1>12, <1>13, <1>14, <1>15, <1>16, <1>17, <1>18, <1>19, <1>20, <1>21, <1>22, <1>23, <1>24, <1>25, <1>26, <1>27 DEF Next, WalkStep, WorkStep, WriteStep

\* The page rows of a settled series do not change.
LEMMA RowsStay ==
  ASSUME IInv, [Next]_vars, NEW s \in Settled
  PROVE  PageRows(s)' = PageRows(s)
  <1>1. result'[s] = result[s]
    BY ResultsStay
  <1>2. {i \in Books(s) : result'[s][i] \in {"read", "halfRead"}} = {i \in Books(s) : result[s][i] \in {"read", "halfRead"}}
    BY <1>1
  <1>3. QED
    BY <1>2, Zenon DEF PageRows

(* What is in flight is settled.                                           *)
LEMMA HoldersSettled ==
  ASSUME IInv
  PROVE  /\ Holders \subseteq Settled /\ Holders \in SUBSET Series /\ IsFiniteSet(Holders)
         /\ \A s \in Series : Rows[s] = PageRows(s) /\ Rows[s] \in Nat
  <1>1. Holders \subseteq Settled
    BY DEF IInv, TypeOK, Carried, Carrying, Writing, Holders, Holding, Settled
  <1>2. Holders \in SUBSET Series /\ IsFiniteSet(Holders)
    BY Library, FS_Subset DEF Holders
  <1>3. \A s \in Series : Rows[s] = PageRows(s) /\ Rows[s] \in Nat
    BY RowsType DEF Rows
  <1>4. QED
    BY <1>1, <1>2, <1>3

(* The three things a step does to the budget.                             *)
LEMMA BudgetKept ==
  ASSUME IInv, [Next]_vars, held' = held, Holders' = Holders
  PROVE  Budget'
  <1>1. /\ Holders \subseteq Settled /\ Holders \in SUBSET Series /\ IsFiniteSet(Holders)
        /\ \A s \in Holders : Rows[s] = PageRows(s) /\ Rows[s] \in Nat
    BY HoldersSettled
  <1>2. \A s \in Holders : PageRows(s)' = PageRows(s)
    BY <1>1, RowsStay
  <1>3. \A s \in Holders : Rows'[s] = Rows[s]
    BY <1>1, <1>2 DEF Rows
  <1>4. SumFunctionOnSet(Rows', Holders) = SumFunctionOnSet(Rows, Holders)
    BY <1>1, <1>3, SumAgree
  <1>5. SumFunctionOnSet(Rows', Holders') = SumFunctionOnSet(Rows', Holders)
    BY Zenon
  <1>6. held' = SumFunctionOnSet(Rows', Holders')
    BY <1>4, <1>5 DEF IInv, Budget
  <1>7. held' > PageLimit => \E s \in Holders' : held' = Rows'[s]
    BY <1>3 DEF IInv, Budget
  <1>8. QED
    BY <1>6, <1>7 DEF Budget

\* A series that takes its pages keeps the budget in balance.
LEMMA BudgetTaken ==
  ASSUME IInv, [Next]_vars, NEW x \in Series, x \notin Holders, PageRows(x)' = PageRows(x),
         Holders' = Holders \cup {x}, held' = held + PageRows(x),
         PageRows(x) = 0 \/ held = 0 \/ held' <= PageLimit
  PROVE  Budget'
  <1>1. /\ Holders \subseteq Settled /\ Holders \in SUBSET Series /\ IsFiniteSet(Holders)
        /\ \A s \in Holders \cup {x} : Rows[s] = PageRows(s) /\ Rows[s] \in Nat
    BY HoldersSettled
  <1>2. \A s \in Holders \cup {x} : PageRows(s)' = PageRows(s)
    BY <1>1, RowsStay
  <1>3. \A s \in Holders \cup {x} : Rows'[s] = Rows[s]
    BY <1>1, <1>2 DEF Rows
  <1>4. IsFiniteSet(Holders \cup {x})
    BY <1>1, FS_AddElement
  <1>5. SumFunctionOnSet(Rows', Holders \cup {x}) = SumFunctionOnSet(Rows, Holders \cup {x})
    BY <1>1, <1>3, <1>4, SumAgree
  <1>6. SumFunctionOnSet(Rows, Holders \cup {x}) = Rows[x] + SumFunctionOnSet(Rows, Holders)
    BY <1>1, SumAdd
  <1>7. SumFunctionOnSet(Rows', Holders') = SumFunctionOnSet(Rows', Holders \cup {x})
    BY Zenon
  <1>8. held = SumFunctionOnSet(Rows, Holders) /\ held \in Nat /\ Rows[x] = PageRows(x) /\ Rows[x] \in Nat
    BY <1>1 DEF IInv, Budget, TypeOK
  <1>9. held' = SumFunctionOnSet(Rows', Holders')
    BY <1>5, <1>6, <1>7, <1>8
  <1>10. ASSUME held' > PageLimit PROVE \E s \in Holders \cup {x} : held' = Rows'[s]
    <2>0. PageLimit \in Nat
      BY PipelineAssumption
    <2>1. CASE PageRows(x) = 0
      <3>1. held' = held
        BY <2>1, <1>8
      <3>2. PICK s \in Holders : held = Rows[s]
        BY <3>1, <1>10 DEF IInv, Budget
      <3>3. QED
        BY <3>1, <3>2, <1>3
    <2>2. CASE held = 0
      BY <2>2, <1>3, <1>8
    <2>3. CASE held' <= PageLimit
      BY <2>0, <2>3, <1>8, <1>10
    <2>4. QED
      BY <2>1, <2>2, <2>3
  <1>11. QED
    BY <1>9, <1>10 DEF Budget

\* A series that gives its pages back keeps the budget in balance.
LEMMA BudgetReturned ==
  ASSUME IInv, [Next]_vars, NEW x \in Holders,
         Holders' = Holders \ {x}, held' = held - PageRows(x)
  PROVE  Budget'
  <1>1. /\ Holders \subseteq Settled /\ Holders \in SUBSET Series /\ IsFiniteSet(Holders)
        /\ \A s \in Holders : Rows[s] = PageRows(s) /\ Rows[s] \in Nat
    BY HoldersSettled
  <1>2. \A s \in Holders : PageRows(s)' = PageRows(s)
    BY <1>1, RowsStay
  <1>3. \A s \in Holders : Rows'[s] = Rows[s]
    BY <1>1, <1>2 DEF Rows
  <1>4. IsFiniteSet(Holders \ {x}) /\ \A s \in Holders \ {x} : Rows[s] \in Nat
    BY <1>1, FS_RemoveElement
  <1>5. SumFunctionOnSet(Rows', Holders \ {x}) = SumFunctionOnSet(Rows, Holders \ {x})
    BY <1>3, <1>4, SumAgree
  <1>6. SumFunctionOnSet(Rows, Holders) = Rows[x] + SumFunctionOnSet(Rows, Holders \ {x})
    BY <1>1, SumRemove
  <1>7. SumFunctionOnSet(Rows', Holders') = SumFunctionOnSet(Rows', Holders \ {x})
    BY Zenon
  <1>8. /\ held = SumFunctionOnSet(Rows, Holders) /\ held \in Nat /\ Rows[x] = PageRows(x) /\ Rows[x] \in Nat
        /\ SumFunctionOnSet(Rows, Holders \ {x}) \in Nat
    BY <1>1, <1>4, SumType DEF IInv, Budget, TypeOK
  <1>9. held' = SumFunctionOnSet(Rows', Holders')
    BY <1>5, <1>6, <1>7, <1>8
  <1>10. ASSUME held' > PageLimit PROVE \E s \in Holders \ {x} : held' = Rows'[s]
    <2>0. PageLimit \in Nat
      BY PipelineAssumption
    <2>1. PICK s \in Holders : held = Rows[s]
      <3>1. held > PageLimit
        BY <2>0, <1>8, <1>10
      <3>2. QED
        BY <3>1 DEF IInv, Budget
    <2>2. s # x
      <3>1. PICK r \in Nat : r = Rows[x] /\ r = PageRows(x)
        BY <1>8
      <3>2. held' = held - r /\ held \in Nat
        BY <3>1, <1>8
      <3>3. held # r
        BY <3>1, <3>2, <2>0, <1>10
      <3>4. QED
        BY <3>1, <3>3, <2>1
    <2>3. Rows[x] + Rows[s] <= SumFunctionOnSet(Rows, Holders)
      BY <2>2, <1>1, SumBounds
    <2>4. held' = Rows[s]
      BY <2>1, <2>3, <1>1, <1>8
    <2>5. QED
      BY <2>2, <2>4, <1>3
  <1>11. QED
    BY <1>9, <1>10 DEF Budget

(* The budget follows what is in flight.                                   *)
LEMMA BudgetStep == IInv /\ [Next]_vars => Budget'
  <1> SUFFICES ASSUME IInv, [Next]_vars PROVE Budget'
    OBVIOUS
  <1> USE DEF Writing, walk, rows, end
  <1>0. /\ walkAt \in (1..Len(Pages) + 1) \X Nat /\ Series = 1..Len(Pages) /\ Len(Pages) \in Nat
        /\ \A s \in Series : Len(Pages[s]) \in Nat /\ Books(s) = 1..Len(Pages[s])
        /\ bookCh \in Seq(Series \X Nat) /\ resCh \in Seq(Series)
        /\ worker \in [Workers -> [at : {"idle", "taken", "reading", "budget", "waiting", "offer", "exited"},
                               job : {<<0, 0>>} \cup (Series \X Nat)]]
        /\ writer \in [at : {"receive", "row", "written", "ended", "decided", "done"}, row : {<<0, 0>>} \cup Facts]
    BY Library DEF IInv, TypeOK
  <1>i. Carried /\ CarriedApart
    BY DEF IInv
  <1>k. ASSUME UNCHANGED <<held, resCh>>,
               \A v \in Workers : (worker'[v].at = "offer" <=> worker[v].at = "offer")
                  /\ (worker[v].at = "offer" => worker'[v].job[1] = worker[v].job[1]),
               (writer'.at \in Writing <=> writer.at \in Writing) /\ (writer.at \in Writing => writer'.row[1] = writer.row[1])
        PROVE  Budget'
    <2>1. Holders' = Holders
      BY <1>k DEF Holders, Holding, Task
    <2>2. QED
      BY <2>1, <1>k, BudgetKept
  <1>1. CASE UNCHANGED vars
    <2>1. /\ UNCHANGED <<held, resCh>>
          /\ \A v \in Workers : (worker'[v].at = "offer" <=> worker[v].at = "offer")
                /\ (worker[v].at = "offer" => worker'[v].job[1] = worker[v].job[1])
      BY <1>1, <1>0 DEF vars
    <2>2. (writer'.at \in Writing <=> writer.at \in Writing) /\ (writer.at \in Writing => writer'.row[1] = writer.row[1])
      BY <1>1, <1>0 DEF vars
    <2>3. QED
      BY <2>1, <2>2, <1>k
  <1>2. CASE WalkFails
    <2>1. /\ UNCHANGED <<held, resCh>>
          /\ \A v \in Workers : (worker'[v].at = "offer" <=> worker[v].at = "offer")
                /\ (worker[v].at = "offer" => worker'[v].job[1] = worker[v].job[1])
      BY <1>2, <1>0 DEF WalkFails, StopWalk
    <2>2. (writer'.at \in Writing <=> writer.at \in Writing) /\ (writer.at \in Writing => writer'.row[1] = writer.row[1])
      BY <1>2, <1>0 DEF WalkFails, StopWalk
    <2>3. QED
      BY <2>1, <2>2, <1>k
  <1>3. CASE WalkCancelled
    <2>1. /\ UNCHANGED <<held, resCh>>
          /\ \A v \in Workers : (worker'[v].at = "offer" <=> worker[v].at = "offer")
                /\ (worker[v].at = "offer" => worker'[v].job[1] = worker[v].job[1])
      BY <1>3, <1>0 DEF WalkCancelled, StopWalk
    <2>2. (writer'.at \in Writing <=> writer.at \in Writing) /\ (writer.at \in Writing => writer'.row[1] = writer.row[1])
      BY <1>3, <1>0 DEF WalkCancelled, StopWalk
    <2>3. QED
      BY <2>1, <2>2, <1>k
  <1>4. CASE WalkSeries
    <2>1. /\ UNCHANGED <<held, resCh>>
          /\ \A v \in Workers : (worker'[v].at = "offer" <=> worker[v].at = "offer")
                /\ (worker[v].at = "offer" => worker'[v].job[1] = worker[v].job[1])
      BY <1>4, <1>0 DEF WalkSeries
    <2>2. (writer'.at \in Writing <=> writer.at \in Writing) /\ (writer.at \in Writing => writer'.row[1] = writer.row[1])
      BY <1>4, <1>0 DEF WalkSeries
    <2>3. QED
      BY <2>1, <2>2, <1>k
  <1>5. CASE FeedBook
    <2>1. /\ UNCHANGED <<held, resCh>>
          /\ \A v \in Workers : (worker'[v].at = "offer" <=> worker[v].at = "offer")
                /\ (worker[v].at = "offer" => worker'[v].job[1] = worker[v].job[1])
      BY <1>5, <1>0 DEF FeedBook, NextSeries
    <2>2. (writer'.at \in Writing <=> writer.at \in Writing) /\ (writer.at \in Writing => writer'.row[1] = writer.row[1])
      BY <1>5, <1>0 DEF FeedBook, NextSeries
    <2>3. QED
      BY <2>1, <2>2, <1>k
  <1>6. CASE OfferEmpty
    <2>1. PICK s \in Series :
            /\ walkAt[1] = s /\ Books(s) = {} /\ resCh' = Append(resCh, s)
      BY <1>6, Skipping
    <2>2. UNCHANGED <<held, worker, writer, result>>
      BY <1>6 DEF OfferEmpty
    <2>3. \A t : (\E k \in DOMAIN resCh' : resCh'[k] = t) <=> (\E k \in DOMAIN resCh : resCh[k] = t) \/ t = s
      <3>1. /\ Len(resCh') = Len(resCh) + 1 /\ Len(resCh) \in Nat /\ resCh'[Len(resCh) + 1] = s
            /\ \A k \in 1..Len(resCh) : resCh'[k] = resCh[k]
            /\ \A k \in 1..Len(resCh') : k \in 1..Len(resCh) \/ k = Len(resCh) + 1
        BY <2>1, <1>0, Sent
      <3>2. /\ DOMAIN resCh' = 1..Len(resCh') /\ DOMAIN resCh = 1..Len(resCh)
            /\ Len(resCh) + 1 \in 1..Len(resCh') /\ \A k \in 1..Len(resCh) : k \in 1..Len(resCh')
        BY <2>1, <3>1, <1>0
      <3>3. QED
        BY <3>1, <3>2
    <2>4. Holders' = Holders \cup {s}
      BY <2>2, <2>3 DEF Holders, Holding, Task
    <2>5. s \notin Holders
      BY <2>1, <1>0, HoldersSettled DEF Settled
    <2>6. PageRows(s) = 0
      BY <2>1, RowsType
    <2>7. PageRows(s)' = PageRows(s)
      BY <2>2 DEF PageRows
    <2>8. held' = held + PageRows(s)
      BY <2>2, <2>6 DEF IInv, TypeOK
    <2>9. QED
      BY <2>4, <2>5, <2>6, <2>7, <2>8, BudgetTaken
  <1>7. CASE WalkEnds
    <2>1. /\ UNCHANGED <<held, resCh>>
          /\ \A v \in Workers : (worker'[v].at = "offer" <=> worker[v].at = "offer")
                /\ (worker[v].at = "offer" => worker'[v].job[1] = worker[v].job[1])
      BY <1>7, <1>0 DEF WalkEnds, StopWalk
    <2>2. (writer'.at \in Writing <=> writer.at \in Writing) /\ (writer.at \in Writing => writer'.row[1] = writer.row[1])
      BY <1>7, <1>0 DEF WalkEnds, StopWalk
    <2>3. QED
      BY <2>1, <2>2, <1>k
  <1>8. ASSUME NEW w \in Workers, Take(w)
        PROVE  Budget'
    <2>1. /\ UNCHANGED <<held, resCh>>
          /\ \A v \in Workers : (worker'[v].at = "offer" <=> worker[v].at = "offer")
                /\ (worker[v].at = "offer" => worker'[v].job[1] = worker[v].job[1])
      BY <1>8, <1>0 DEF Take, Put, Job, Task
    <2>2. (writer'.at \in Writing <=> writer.at \in Writing) /\ (writer.at \in Writing => writer'.row[1] = writer.row[1])
      BY <1>8, <1>0 DEF Take, Put, Job, Task
    <2>3. QED
      BY <2>1, <2>2, <1>k
  <1>9. ASSUME NEW w \in Workers, Exit(w)
        PROVE  Budget'
    <2>1. /\ UNCHANGED <<held, resCh>>
          /\ \A v \in Workers : (worker'[v].at = "offer" <=> worker[v].at = "offer")
                /\ (worker[v].at = "offer" => worker'[v].job[1] = worker[v].job[1])
      BY <1>9, <1>0 DEF Exit, Put, Job, Task
    <2>2. (writer'.at \in Writing <=> writer.at \in Writing) /\ (writer.at \in Writing => writer'.row[1] = writer.row[1])
      BY <1>9, <1>0 DEF Exit, Put, Job, Task
    <2>3. QED
      BY <2>1, <2>2, <1>k
  <1>10. ASSUME NEW w \in Workers, SkipBook(w)
        PROVE  Budget'
    <2>1. PICK s \in Series, r \in Results \ {"none"}, i \in Nat : Settles(w, s, i, r)
      BY <1>10, Settling
    <2>2. UNCHANGED <<held, resCh, writer>> /\ worker[w].at \in Reading
      BY <2>1 DEF Settles
    <2>3. \A v \in Workers : (v # w => worker'[v] = worker[v]) /\ worker'[w].at # "offer"
      BY <2>1, <1>0 DEF Settles
    <2>4. QED
      BY <2>2, <2>3, <1>k DEF Reading
  <1>11. ASSUME NEW w \in Workers, ReadBook(w)
        PROVE  Budget'
    <2>1. /\ UNCHANGED <<held, resCh>>
          /\ \A v \in Workers : (worker'[v].at = "offer" <=> worker[v].at = "offer")
                /\ (worker[v].at = "offer" => worker'[v].job[1] = worker[v].job[1])
      BY <1>11, <1>0 DEF ReadBook, Put, Job, Task
    <2>2. (writer'.at \in Writing <=> writer.at \in Writing) /\ (writer.at \in Writing => writer'.row[1] = writer.row[1])
      BY <1>11, <1>0 DEF ReadBook, Put, Job, Task
    <2>3. QED
      BY <2>1, <2>2, <1>k
  <1>12. ASSUME NEW w \in Workers, FinishBook(w)
        PROVE  Budget'
    <2>1. PICK s \in Series, r \in Results \ {"none"}, i \in Nat : Settles(w, s, i, r)
      BY <1>12, Settling
    <2>2. UNCHANGED <<held, resCh, writer>> /\ worker[w].at \in Reading
      BY <2>1 DEF Settles
    <2>3. \A v \in Workers : (v # w => worker'[v] = worker[v]) /\ worker'[w].at # "offer"
      BY <2>1, <1>0 DEF Settles
    <2>4. QED
      BY <2>2, <2>3, <1>k DEF Reading
  <1>13. ASSUME NEW w \in Workers, AcquireBudget(w)
        PROVE  Budget'
    <2>1. /\ worker[w].at \in {"budget", "waiting"} /\ UNCHANGED <<writer, resCh, result>>
          /\ worker' = [worker EXCEPT ![w] = [at |-> "offer", job |-> worker[w].job]]
          /\ PageRows(Task(w)) = 0 \/ held = 0 \/ held + PageRows(Task(w)) <= PageLimit
          /\ held' = held + PageRows(Task(w))
      BY <1>13 DEF AcquireBudget, Put, Job
    <2>2. Task(w) \in Settled /\ Task(w) \notin Holders
      BY <2>1, <1>i DEF Carried, CarriedApart, Carrying, Holders, Holding
    <2>3. PICK s \in Series : s = Task(w)
      BY <2>2 DEF Settled
    <2>4. worker'[w].at = "offer" /\ worker'[w].job[1] = s /\ \A v \in Workers : v # w => worker'[v] = worker[v]
      BY <2>1, <2>3, <1>0 DEF Task
    <2>5. Holders' = Holders \cup {s}
      BY <2>1, <2>3, <2>4 DEF Holders, Holding, Task
    <2>6. PageRows(s)' = PageRows(s)
      BY <2>2, <2>3, RowsStay
    <2>7. QED
      BY <2>1, <2>2, <2>3, <2>5, <2>6, BudgetTaken
  <1>14. ASSUME NEW w \in Workers, WaitForBudget(w)
        PROVE  Budget'
    <2>1. /\ UNCHANGED <<held, resCh>>
          /\ \A v \in Workers : (worker'[v].at = "offer" <=> worker[v].at = "offer")
                /\ (worker[v].at = "offer" => worker'[v].job[1] = worker[v].job[1])
      BY <1>14, <1>0 DEF WaitForBudget, Put, Job, Task
    <2>2. (writer'.at \in Writing <=> writer.at \in Writing) /\ (writer.at \in Writing => writer'.row[1] = writer.row[1])
      BY <1>14, <1>0 DEF WaitForBudget, Put, Job, Task
    <2>3. QED
      BY <2>1, <2>2, <1>k
  <1>15. ASSUME NEW w \in Workers, BudgetCancelled(w)
        PROVE  Budget'
    <2>1. /\ UNCHANGED <<held, resCh>>
          /\ \A v \in Workers : (worker'[v].at = "offer" <=> worker[v].at = "offer")
                /\ (worker[v].at = "offer" => worker'[v].job[1] = worker[v].job[1])
      BY <1>15, <1>0 DEF BudgetCancelled, Put, Job, Task
    <2>2. (writer'.at \in Writing <=> writer.at \in Writing) /\ (writer.at \in Writing => writer'.row[1] = writer.row[1])
      BY <1>15, <1>0 DEF BudgetCancelled, Put, Job, Task
    <2>3. QED
      BY <2>1, <2>2, <1>k
  <1>16. ASSUME NEW w \in Workers, Offer(w)
        PROVE  Budget'
    <2>1. /\ worker[w].at = "offer" /\ resCh' = Append(resCh, Task(w)) /\ UNCHANGED <<writer, held>>
          /\ worker' = [worker EXCEPT ![w] = [at |-> "idle", job |-> <<0, 0>>]]
      BY <1>16 DEF Offer, Put
    <2>2. PICK s \in Series : s = Task(w)
      BY <2>1, <1>i DEF Carried, Carrying, Settled
    <2>3. worker'[w].at = "idle" /\ \A v \in Workers : v # w => worker'[v] = worker[v]
      BY <2>1, <1>0
    <2>4. \A t : (\E k \in DOMAIN resCh' : resCh'[k] = t) <=> (\E k \in DOMAIN resCh : resCh[k] = t) \/ t = s
      <3>1. /\ Len(resCh') = Len(resCh) + 1 /\ Len(resCh) \in Nat /\ resCh'[Len(resCh) + 1] = s
            /\ \A k \in 1..Len(resCh) : resCh'[k] = resCh[k]
            /\ \A k \in 1..Len(resCh') : k \in 1..Len(resCh) \/ k = Len(resCh) + 1
        <4>1. resCh \in Seq(Series) /\ s \in Series /\ resCh' = Append(resCh, s)
          BY <2>1, <2>2, <1>0
        <4>2. QED
          BY <4>1, Sent
      <3>2. /\ DOMAIN resCh' = 1..Len(resCh') /\ DOMAIN resCh = 1..Len(resCh)
            /\ Len(resCh) + 1 \in 1..Len(resCh') /\ \A k \in 1..Len(resCh) : k \in 1..Len(resCh')
        BY <2>1, <2>2, <3>1, <1>0
      <3>3. QED
        BY <3>1, <3>2
    <2>5. Holders' = Holders
      BY <2>1, <2>2, <2>3, <2>4 DEF Holders, Holding, Task
    <2>6. QED
      BY <2>1, <2>5, BudgetKept
  <1>17. ASSUME NEW w \in Workers, OfferCancelled(w)
        PROVE  Budget'
    <2>1. /\ worker[w].at = "offer" /\ UNCHANGED <<writer, resCh>> /\ held' = held - PageRows(Task(w))
          /\ worker' = [worker EXCEPT ![w] = [at |-> "exited", job |-> <<0, 0>>]]
      BY <1>17 DEF OfferCancelled, Put
    <2>2. PICK s \in Series : s = Task(w)
      BY <2>1, <1>i DEF Carried, Carrying, Settled
    <2>3. worker'[w].at = "exited" /\ \A v \in Workers : v # w => worker'[v] = worker[v]
      BY <2>1, <1>0
    <2>4. /\ \A v \in Workers : v # w /\ worker[v].at = "offer" => Task(v) # s
          /\ \A k \in 1..Len(resCh) : resCh[k] # s
          /\ writer.at \in Writing => writer.row[1] # s
      BY <2>1, <2>2, <1>i DEF CarriedApart, Carrying
    <2>5. \A k \in DOMAIN resCh : resCh[k] # s
      BY <2>4, <1>0
    <2>6. Holders' = Holders \ {s} /\ s \in Holders
      BY <2>1, <2>2, <2>3, <2>4, <2>5 DEF Holders, Holding, Task
    <2>7. QED
      BY <2>1, <2>2, <2>6, BudgetReturned
  <1>18. CASE Receive
    <2>1. /\ writer.at = "receive" /\ resCh # <<>> /\ resCh' = Tail(resCh) /\ UNCHANGED worker
          /\ \/ held' = held - PageRows(Head(resCh)) /\ writer' = writer
             \/ held' = held /\ writer' = [at |-> "row", row |-> <<Head(resCh), 0>>]
      BY <1>18 DEF Receive
    <2>2. /\ resCh' \in Seq(Series) /\ Len(resCh) \in Nat /\ Len(resCh') = Len(resCh) - 1
          /\ Head(resCh) = resCh[1] /\ resCh[1] \in Series /\ 1 \in 1..Len(resCh)
          /\ \A k \in 1..Len(resCh') : resCh'[k] = resCh[k + 1] /\ k + 1 \in 1..Len(resCh) /\ k + 1 # 1 /\ k \in Nat
          /\ \A k \in 1..Len(resCh) : k = 1 \/ (k - 1 \in 1..Len(resCh') /\ resCh'[k - 1] = resCh[k])
      BY <2>1, <1>0, Received
    <2>3. PICK s \in Series : s = resCh[1]
      BY <2>2
    <2>4. \A k \in 1..Len(resCh') : resCh'[k] # s
      BY <2>2, <2>3, <1>i DEF CarriedApart
    <2>5. \A v \in Workers : worker[v].at = "offer" => Task(v) # s
      BY <2>2, <2>3, <1>i DEF CarriedApart, Carrying
    <2>6. \A t : (\E k \in DOMAIN resCh : resCh[k] = t) <=> (\E k \in DOMAIN resCh' : resCh'[k] = t) \/ t = s
      <3>1. DOMAIN resCh' = 1..Len(resCh') /\ DOMAIN resCh = 1..Len(resCh)
        BY <2>2, <1>0
      <3>2. ASSUME NEW t, \E k \in 1..Len(resCh) : resCh[k] = t
            PROVE  (\E k \in 1..Len(resCh') : resCh'[k] = t) \/ t = s
        BY <2>2, <2>3, <3>2
      <3>3. ASSUME NEW t, (\E k \in 1..Len(resCh') : resCh'[k] = t) \/ t = s
            PROVE  \E k \in 1..Len(resCh) : resCh[k] = t
        BY <2>2, <2>3, <3>3
      <3>4. QED
        BY <3>1, <3>2, <3>3
    <2>7. \A k \in DOMAIN resCh' : resCh'[k] # s
      BY <2>2, <2>4
    <2>8. CASE held' = held - PageRows(Head(resCh)) /\ writer' = writer
      <3>1. Holders' = Holders \ {s} /\ s \in Holders
        BY <2>1, <2>5, <2>6, <2>7, <2>8 DEF Holders, Holding, Task
      <3>2. held' = held - PageRows(s)
        BY <2>2, <2>3, <2>8
      <3>3. QED
        BY <3>1, <3>2, BudgetReturned
    <2>9. CASE held' = held /\ writer' = [at |-> "row", row |-> <<Head(resCh), 0>>]
      <3>1. writer'.at = "row" /\ writer'.row[1] = s
        BY <2>2, <2>3, <2>9
      <3>2. Holders' = Holders
        <4>1. ~(writer.at \in Writing)
          BY <2>1
        <4>2. \A t : Holding(t)' <=> Holding(t)
          BY <2>1, <2>6, <3>1, <4>1 DEF Holding, Task
        <4>3. QED
          BY <4>2 DEF Holders
      <3>3. QED
        BY <2>9, <3>2, BudgetKept
    <2>10. QED
      BY <2>1, <2>8, <2>9
  <1>19. CASE Tick
    <2>1. /\ UNCHANGED <<held, resCh>>
          /\ \A v \in Workers : (worker'[v].at = "offer" <=> worker[v].at = "offer")
                /\ (worker[v].at = "offer" => worker'[v].job[1] = worker[v].job[1])
      BY <1>19, <1>0 DEF Tick, Commit, Fail
    <2>2. (writer'.at \in Writing <=> writer.at \in Writing) /\ (writer.at \in Writing => writer'.row[1] = writer.row[1])
      BY <1>19, <1>0 DEF Tick, Commit, Fail
    <2>3. QED
      BY <2>1, <2>2, <1>k
  <1>20. CASE WriteRow
    <2>1. UNCHANGED <<held, resCh, worker>> /\ writer.at = "row" /\ writer'.at \in Writing
      BY <1>20, <1>0 DEF WriteRow, ToBook
    <2>2. writer'.row[1] = writer.row[1]
      BY <1>20, <1>0 DEF WriteRow, ToBook
    <2>3. QED
      BY <2>1, <2>2, <1>k
  <1>21. CASE WriteFails
    <2>1. /\ writer.at \in Writing /\ writer' = Ready /\ UNCHANGED <<worker, resCh>>
          /\ held' = held - PageRows(writer.row[1])
      BY <1>21 DEF WriteFails
    <2>2. PICK s \in Series : s = writer.row[1]
      BY <2>1, <1>i DEF Carried, Settled
    <2>3. /\ \A v \in Workers : worker[v].at = "offer" => Task(v) # s
          /\ \A k \in 1..Len(resCh) : resCh[k] # s
      BY <2>1, <2>2, <1>i DEF CarriedApart, Carrying
    <2>4. \A k \in DOMAIN resCh : resCh[k] # s
      BY <2>3, <1>0
    <2>5. Holders' = Holders \ {s} /\ s \in Holders
      BY <2>1, <2>2, <2>3, <2>4 DEF Holders, Holding, Task, Ready
    <2>6. QED
      BY <2>1, <2>2, <2>5, BudgetReturned
  <1>22. CASE Stamp
    <2>1. UNCHANGED <<held, resCh, worker>> /\ writer.at = "row" /\ writer'.at \in Writing
      BY <1>22, <1>0 DEF Stamp, ToBook
    <2>2. writer'.row[1] = writer.row[1]
      BY <1>22, <1>0 DEF Stamp, ToBook
    <2>3. QED
      BY <2>1, <2>2, <1>k
  <1>23. CASE EndSeries
    <2>1. /\ writer.at \in Writing /\ writer' = Ready /\ UNCHANGED <<worker, resCh>>
          /\ held' = held - PageRows(writer.row[1])
      BY <1>23 DEF EndSeries
    <2>2. PICK s \in Series : s = writer.row[1]
      BY <2>1, <1>i DEF Carried, Settled
    <2>3. /\ \A v \in Workers : worker[v].at = "offer" => Task(v) # s
          /\ \A k \in 1..Len(resCh) : resCh[k] # s
      BY <2>1, <2>2, <1>i DEF CarriedApart, Carrying
    <2>4. \A k \in DOMAIN resCh : resCh[k] # s
      BY <2>3, <1>0
    <2>5. Holders' = Holders \ {s} /\ s \in Holders
      BY <2>1, <2>2, <2>3, <2>4 DEF Holders, Holding, Task, Ready
    <2>6. QED
      BY <2>1, <2>2, <2>5, BudgetReturned
  <1>24. CASE WriterEnds
    <2>1. /\ UNCHANGED <<held, resCh>>
          /\ \A v \in Workers : (worker'[v].at = "offer" <=> worker[v].at = "offer")
                /\ (worker[v].at = "offer" => worker'[v].job[1] = worker[v].job[1])
      BY <1>24, <1>0 DEF WriterEnds, Ready, Commit
    <2>2. (writer'.at \in Writing <=> writer.at \in Writing) /\ (writer.at \in Writing => writer'.row[1] = writer.row[1])
      BY <1>24, <1>0 DEF WriterEnds, Ready, Commit
    <2>3. QED
      BY <2>1, <2>2, <1>k
  <1>25. CASE DecideSweep
    <2>1. /\ UNCHANGED <<held, resCh>>
          /\ \A v \in Workers : (worker'[v].at = "offer" <=> worker[v].at = "offer")
                /\ (worker[v].at = "offer" => worker'[v].job[1] = worker[v].job[1])
      BY <1>25, <1>0 DEF DecideSweep
    <2>2. (writer'.at \in Writing <=> writer.at \in Writing) /\ (writer.at \in Writing => writer'.row[1] = writer.row[1])
      BY <1>25, <1>0 DEF DecideSweep
    <2>3. QED
      BY <2>1, <2>2, <1>k
  <1>26. CASE Sweep
    <2>1. /\ UNCHANGED <<held, resCh>>
          /\ \A v \in Workers : (worker'[v].at = "offer" <=> worker[v].at = "offer")
                /\ (worker[v].at = "offer" => worker'[v].job[1] = worker[v].job[1])
      BY <1>26, <1>0 DEF Sweep
    <2>2. (writer'.at \in Writing <=> writer.at \in Writing) /\ (writer.at \in Writing => writer'.row[1] = writer.row[1])
      BY <1>26, <1>0 DEF Sweep
    <2>3. QED
      BY <2>1, <2>2, <1>k
  <1>27. CASE Cancel
    <2>1. /\ UNCHANGED <<held, resCh>>
          /\ \A v \in Workers : (worker'[v].at = "offer" <=> worker[v].at = "offer")
                /\ (worker[v].at = "offer" => worker'[v].job[1] = worker[v].job[1])
      BY <1>27, <1>0 DEF Cancel
    <2>2. (writer'.at \in Writing <=> writer.at \in Writing) /\ (writer.at \in Writing => writer'.row[1] = writer.row[1])
      BY <1>27, <1>0 DEF Cancel
    <2>3. QED
      BY <2>1, <2>2, <1>k
  <1>q. QED
    BY <1>1, <1>2, <1>3, <1>4, <1>5, <1>6, <1>7, <1>8, <1>9, <1>10, <1>11, <1>12, <1>13, <1>14, <1>15, <1>16, <1>17, <1>18, <1>19, <1>20, <1>21, <1>22, <1>23, <1>24, <1>25, <1>26, <1>27 DEF Next, WalkStep, WorkStep, WriteStep

-----------------------------------------------------------------------------
(* Until a write fails no row is lost, and a run that is over stays over.  *)
LEMMA RecordedGrows ==
  ASSUME IInv, [Next]_vars
  PROVE  /\ ~failed' => ~failed /\ Recorded \subseteq Recorded'
         /\ ~PipeDone' => ~PipeDone
  <1> DEFINE Goal == /\ ~failed' => ~failed /\ Recorded \subseteq Recorded'
                     /\ ~PipeDone' => ~PipeDone
  <1> USE DEF Recorded, PipeDone, walk, rows, end
  <1>0. failed \in BOOLEAN
    BY DEF IInv, TypeOK
  <1>1. CASE UNCHANGED vars
    BY <1>0, <1>1 DEF vars
  <1>2. CASE WalkFails
    BY <1>2, <1>0 DEF WalkFails, StopWalk
  <1>3. CASE WalkCancelled
    BY <1>3, <1>0 DEF WalkCancelled, StopWalk
  <1>4. CASE WalkSeries
    BY <1>4, <1>0 DEF WalkSeries
  <1>5. CASE FeedBook
    BY <1>5, <1>0 DEF FeedBook, NextSeries
  <1>6. CASE OfferEmpty
    BY <1>6, <1>0 DEF OfferEmpty, NextSeries
  <1>7. CASE WalkEnds
    BY <1>7, <1>0 DEF WalkEnds, StopWalk
  <1>8. ASSUME NEW w \in Workers, Take(w)
        PROVE  Goal
    BY <1>8, <1>0 DEF Take, Put, Job, Task
  <1>9. ASSUME NEW w \in Workers, Exit(w)
        PROVE  Goal
    BY <1>9, <1>0 DEF Exit, Put, Job, Task
  <1>10. ASSUME NEW w \in Workers, SkipBook(w)
        PROVE  Goal
    <2>1. PICK s \in Series, r \in Results \ {"none"}, i \in Nat : Settles(w, s, i, r)
      BY <1>10, Settling
    <2>2. QED
      BY <2>1 DEF Settles
  <1>11. ASSUME NEW w \in Workers, ReadBook(w)
        PROVE  Goal
    BY <1>11, <1>0 DEF ReadBook, Put, Job, Task
  <1>12. ASSUME NEW w \in Workers, FinishBook(w)
        PROVE  Goal
    <2>1. PICK s \in Series, r \in Results \ {"none"}, i \in Nat : Settles(w, s, i, r)
      BY <1>12, Settling
    <2>2. QED
      BY <2>1 DEF Settles
  <1>13. ASSUME NEW w \in Workers, AcquireBudget(w)
        PROVE  Goal
    BY <1>13, <1>0 DEF AcquireBudget, Put, Job, Task
  <1>14. ASSUME NEW w \in Workers, WaitForBudget(w)
        PROVE  Goal
    BY <1>14, <1>0 DEF WaitForBudget, Put, Job, Task
  <1>15. ASSUME NEW w \in Workers, BudgetCancelled(w)
        PROVE  Goal
    BY <1>15, <1>0 DEF BudgetCancelled, Put, Job, Task
  <1>16. ASSUME NEW w \in Workers, Offer(w)
        PROVE  Goal
    BY <1>16, <1>0 DEF Offer, Put, Job, Task
  <1>17. ASSUME NEW w \in Workers, OfferCancelled(w)
        PROVE  Goal
    BY <1>17, <1>0 DEF OfferCancelled, Put, Job, Task
  <1>18. CASE Receive
    BY <1>18, <1>0 DEF Receive
  <1>19. CASE Tick
    BY <1>19, <1>0 DEF Tick, Commit, Fail
  <1>20. CASE WriteRow
    BY <1>20, <1>0 DEF WriteRow, Insert, Commit, ToBook
  <1>21. CASE WriteFails
    BY <1>21, <1>0 DEF WriteFails, Fail, Ready
  <1>22. CASE Stamp
    BY <1>22, <1>0 DEF Stamp, ToBook
  <1>23. CASE EndSeries
    BY <1>23, <1>0 DEF EndSeries, Insert, Commit, Fail, Ready
  <1>24. CASE WriterEnds
    BY <1>24, <1>0 DEF WriterEnds, Ready, Commit
  <1>25. CASE DecideSweep
    BY <1>25, <1>0 DEF DecideSweep
  <1>26. CASE Sweep
    BY <1>26, <1>0 DEF Sweep
  <1>27. CASE Cancel
    BY <1>27, <1>0 DEF Cancel
  <1>q. QED
    BY <1>1, <1>2, <1>3, <1>4, <1>5, <1>6, <1>7, <1>8, <1>9, <1>10, <1>11, <1>12, <1>13, <1>14, <1>15, <1>16, <1>17, <1>18, <1>19, <1>20, <1>21, <1>22, <1>23, <1>24, <1>25, <1>26, <1>27 DEF Next, WalkStep, WorkStep, WriteStep

(* A series that is settled and on no way any more is written.            *)
LEMMA SeriesWritten ==
  ASSUME IInv, [Next]_vars, ~failed', ~PipeDone'
  PROVE  \A s \in Settled' : ~OnTheWay(s)' => \A j \in 0..Len(Pages[s]) : <<s, j>> \in Recorded'
  <1> DEFINE Goal == \A s \in Settled' : ~OnTheWay(s)' => \A j \in 0..Len(Pages[s]) : <<s, j>> \in Recorded'
  <1> SUFFICES Goal
    OBVIOUS
  <1> USE DEF Carrying, Writing, walk, rows, end
  <1>0. /\ walkAt \in (1..Len(Pages) + 1) \X Nat /\ Series = 1..Len(Pages) /\ Len(Pages) \in Nat
        /\ \A s \in Series : Len(Pages[s]) \in Nat /\ Books(s) = 1..Len(Pages[s])
        /\ bookCh \in Seq(Series \X Nat) /\ resCh \in Seq(Series)
        /\ worker \in [Workers -> [at : {"idle", "taken", "reading", "budget", "waiting", "offer", "exited"},
                               job : {<<0, 0>>} \cup (Series \X Nat)]]
        /\ writer \in [at : {"receive", "row", "written", "ended", "decided", "done"}, row : {<<0, 0>>} \cup Facts]
    BY Library DEF IInv, TypeOK
  <1>f. ~failed /\ ~PipeDone /\ Recorded \subseteq Recorded'
    BY RecordedGrows
  <1>i. \A s \in Settled : ~OnTheWay(s) => \A j \in 0..Len(Pages[s]) : <<s, j>> \in Recorded
    BY <1>f DEF IInv, Written
  <1>g. ASSUME \A s \in Settled' : ~OnTheWay(s)' =>
                  s \in Settled /\ (OnTheWay(s) => \A j \in 0..Len(Pages[s]) : <<s, j>> \in Recorded)
        PROVE  Goal
    BY <1>f, <1>g, <1>i
  <1> HIDE DEF Goal
  <1>k. ASSUME UNCHANGED <<walkAt, result, resCh>>,
               \A v \in Workers : worker[v].at \in Carrying =>
                  worker'[v].at \in Carrying /\ worker'[v].job[1] = worker[v].job[1],
               writer.at \in Writing => writer'.at \in Writing /\ writer'.row[1] = writer.row[1]
        PROVE  Goal
    <2>1. Settled' = Settled
      BY <1>k DEF Settled, Open
    <2>2. \A s : OnTheWay(s) => OnTheWay(s)'
      BY <1>k DEF OnTheWay, Task
    <2>3. QED
      BY <2>1, <2>2, <1>g
  <1>1. CASE UNCHANGED vars
    <2>1. /\ UNCHANGED <<walkAt, result, resCh>>
          /\ \A v \in Workers : worker[v].at \in Carrying => worker'[v].at \in Carrying /\ worker'[v].job[1] = worker[v].job[1]
      BY <1>1, <1>0 DEF vars
    <2>2. writer.at \in Writing => writer'.at \in Writing /\ writer'.row[1] = writer.row[1]
      BY <1>1, <1>0 DEF vars
    <2>3. QED
      BY <2>1, <2>2, <1>k
  <1>2. CASE WalkFails
    <2>1. /\ UNCHANGED <<walkAt, result, resCh>>
          /\ \A v \in Workers : worker[v].at \in Carrying => worker'[v].at \in Carrying /\ worker'[v].job[1] = worker[v].job[1]
      BY <1>2, <1>0 DEF WalkFails, StopWalk
    <2>2. writer.at \in Writing => writer'.at \in Writing /\ writer'.row[1] = writer.row[1]
      BY <1>2, <1>0 DEF WalkFails, StopWalk
    <2>3. QED
      BY <2>1, <2>2, <1>k
  <1>3. CASE WalkCancelled
    <2>1. /\ UNCHANGED <<walkAt, result, resCh>>
          /\ \A v \in Workers : worker[v].at \in Carrying => worker'[v].at \in Carrying /\ worker'[v].job[1] = worker[v].job[1]
      BY <1>3, <1>0 DEF WalkCancelled, StopWalk
    <2>2. writer.at \in Writing => writer'.at \in Writing /\ writer'.row[1] = writer.row[1]
      BY <1>3, <1>0 DEF WalkCancelled, StopWalk
    <2>3. QED
      BY <2>1, <2>2, <1>k
  <1>4. CASE WalkSeries
    <2>1. UNCHANGED <<result, resCh, worker, writer>> /\ walkAt'[1] = walkAt[1]
      BY <1>4 DEF WalkSeries
    <2>2. Settled' = Settled
      BY <2>1 DEF Settled, Open
    <2>3. \A s : OnTheWay(s) => OnTheWay(s)'
      BY <2>1 DEF OnTheWay, Task
    <2>4. QED
      BY <2>2, <2>3, <1>g
  <1>5. CASE FeedBook
    <2>1. PICK t \in Series, i \in Nat : Feeds(t, i)
      BY <1>5, Feeding
    <2>2. UNCHANGED <<resCh, worker, writer, result>>
      BY <1>5 DEF FeedBook
    <2>3. Settled' \subseteq Settled
      BY <2>1, <2>2 DEF Feeds, Settled, Open
    <2>4. \A s : OnTheWay(s) => OnTheWay(s)'
      BY <2>2 DEF OnTheWay, Task
    <2>5. QED
      BY <2>3, <2>4, <1>g
  <1>6. CASE OfferEmpty
    <2>1. PICK t \in Series :
            /\ walkAt[1] = t /\ Books(t) = {} /\ resCh' = Append(resCh, t)
            /\ \A u \in Series : u < walkAt'[1] <=> u < walkAt[1] \/ u = t
      BY <1>6, Skipping
    <2>2. UNCHANGED <<worker, writer, result>>
      BY <1>6 DEF OfferEmpty
    <2>3. /\ Len(resCh') = Len(resCh) + 1 /\ Len(resCh) \in Nat /\ resCh'[Len(resCh) + 1] = t
          /\ \A k \in 1..Len(resCh) : resCh'[k] = resCh[k] /\ k \in 1..Len(resCh')
      BY <2>1, <1>0, Sent
    <2>4. Len(resCh) + 1 \in 1..Len(resCh')
      BY <2>3
    <2>5. \A s : OnTheWay(s) => OnTheWay(s)'
      BY <2>2, <2>3 DEF OnTheWay, Task
    <2>6. OnTheWay(t)'
      BY <2>3, <2>4 DEF OnTheWay
    <2>7. \A s \in Settled' : s \in Settled \/ s = t
      BY <2>1, <2>2 DEF Settled, Open
    <2>8. QED
      BY <2>5, <2>6, <2>7, <1>g
  <1>7. CASE WalkEnds
    <2>1. /\ UNCHANGED <<walkAt, result, resCh>>
          /\ \A v \in Workers : worker[v].at \in Carrying => worker'[v].at \in Carrying /\ worker'[v].job[1] = worker[v].job[1]
      BY <1>7, <1>0 DEF WalkEnds, StopWalk
    <2>2. writer.at \in Writing => writer'.at \in Writing /\ writer'.row[1] = writer.row[1]
      BY <1>7, <1>0 DEF WalkEnds, StopWalk
    <2>3. QED
      BY <2>1, <2>2, <1>k
  <1>8. ASSUME NEW w \in Workers, Take(w)
        PROVE  Goal
    <2>1. /\ worker[w].at = "idle" /\ worker' = [worker EXCEPT ![w] = [at |-> "taken", job |-> Head(bookCh)]]
          /\ UNCHANGED <<walkAt, result, resCh, writer>>
      BY <1>8 DEF Take, Put
    <2>2. \A v \in Workers : worker[v].at \in Carrying => worker'[v] = worker[v]
      BY <2>1, <1>0
    <2>3. QED
      BY <2>1, <2>2, <1>k
  <1>9. ASSUME NEW w \in Workers, Exit(w)
        PROVE  Goal
    <2>1. /\ UNCHANGED <<walkAt, result, resCh>>
          /\ \A v \in Workers : worker[v].at \in Carrying => worker'[v].at \in Carrying /\ worker'[v].job[1] = worker[v].job[1]
      BY <1>9, <1>0 DEF Exit, Put, Job, Task
    <2>2. writer.at \in Writing => writer'.at \in Writing /\ writer'.row[1] = writer.row[1]
      BY <1>9, <1>0 DEF Exit, Put, Job, Task
    <2>3. QED
      BY <2>1, <2>2, <1>k
  <1>10. ASSUME NEW w \in Workers, SkipBook(w)
        PROVE  Goal
    <2>1. PICK t \in Series, r \in Results \ {"none"}, i \in Nat : i \in Open(t) /\ Settles(w, t, i, r)
      BY <1>10, Settling
    <2>2. UNCHANGED <<walkAt, resCh, writer>> /\ worker[w].at \in Reading /\ \A s \in Series : s # t => Open(s)' = Open(s)
      BY <2>1 DEF Settles
    <2>3. /\ \A v \in Workers : v # w => worker'[v] = worker[v]
          /\ Open(t)' = {} => worker'[w].at \in Carrying /\ worker'[w].job[1] = t
      BY <2>1, <1>0 DEF Settles
    <2>4. \A s : OnTheWay(s) => OnTheWay(s)'
      BY <2>2, <2>3 DEF OnTheWay, Task, Reading
    <2>5. \A s \in Settled' : s \in Settled \/ OnTheWay(s)'
      BY <2>2, <2>3 DEF OnTheWay, Task, Settled
    <2>6. QED
      BY <2>4, <2>5, <1>g
  <1>11. ASSUME NEW w \in Workers, ReadBook(w)
        PROVE  Goal
    <2>1. /\ UNCHANGED <<walkAt, result, resCh>>
          /\ \A v \in Workers : worker[v].at \in Carrying => worker'[v].at \in Carrying /\ worker'[v].job[1] = worker[v].job[1]
      BY <1>11, <1>0 DEF ReadBook, Put, Job, Task
    <2>2. writer.at \in Writing => writer'.at \in Writing /\ writer'.row[1] = writer.row[1]
      BY <1>11, <1>0 DEF ReadBook, Put, Job, Task
    <2>3. QED
      BY <2>1, <2>2, <1>k
  <1>12. ASSUME NEW w \in Workers, FinishBook(w)
        PROVE  Goal
    <2>1. PICK t \in Series, r \in Results \ {"none"}, i \in Nat : i \in Open(t) /\ Settles(w, t, i, r)
      BY <1>12, Settling
    <2>2. UNCHANGED <<walkAt, resCh, writer>> /\ worker[w].at \in Reading /\ \A s \in Series : s # t => Open(s)' = Open(s)
      BY <2>1 DEF Settles
    <2>3. /\ \A v \in Workers : v # w => worker'[v] = worker[v]
          /\ Open(t)' = {} => worker'[w].at \in Carrying /\ worker'[w].job[1] = t
      BY <2>1, <1>0 DEF Settles
    <2>4. \A s : OnTheWay(s) => OnTheWay(s)'
      BY <2>2, <2>3 DEF OnTheWay, Task, Reading
    <2>5. \A s \in Settled' : s \in Settled \/ OnTheWay(s)'
      BY <2>2, <2>3 DEF OnTheWay, Task, Settled
    <2>6. QED
      BY <2>4, <2>5, <1>g
  <1>13. ASSUME NEW w \in Workers, AcquireBudget(w)
        PROVE  Goal
    <2>1. /\ UNCHANGED <<walkAt, result, resCh>>
          /\ \A v \in Workers : worker[v].at \in Carrying => worker'[v].at \in Carrying /\ worker'[v].job[1] = worker[v].job[1]
      BY <1>13, <1>0 DEF AcquireBudget, Put, Job, Task
    <2>2. writer.at \in Writing => writer'.at \in Writing /\ writer'.row[1] = writer.row[1]
      BY <1>13, <1>0 DEF AcquireBudget, Put, Job, Task
    <2>3. QED
      BY <2>1, <2>2, <1>k
  <1>14. ASSUME NEW w \in Workers, WaitForBudget(w)
        PROVE  Goal
    <2>1. /\ UNCHANGED <<walkAt, result, resCh>>
          /\ \A v \in Workers : worker[v].at \in Carrying => worker'[v].at \in Carrying /\ worker'[v].job[1] = worker[v].job[1]
      BY <1>14, <1>0 DEF WaitForBudget, Put, Job, Task
    <2>2. writer.at \in Writing => writer'.at \in Writing /\ writer'.row[1] = writer.row[1]
      BY <1>14, <1>0 DEF WaitForBudget, Put, Job, Task
    <2>3. QED
      BY <2>1, <2>2, <1>k
  <1>15. ASSUME NEW w \in Workers, BudgetCancelled(w)
        PROVE  Goal
    BY <1>15, <1>f DEF BudgetCancelled, PipeDone
  <1>16. ASSUME NEW w \in Workers, Offer(w)
        PROVE  Goal
    <2>1. /\ worker[w].at = "offer" /\ resCh' = Append(resCh, Task(w)) /\ UNCHANGED <<writer, walkAt, result>>
          /\ worker' = [worker EXCEPT ![w] = [at |-> "idle", job |-> <<0, 0>>]]
      BY <1>16 DEF Offer, Put
    <2>2. PICK t \in Series : t = Task(w)
      BY <2>1 DEF IInv, Carried, Settled
    <2>3. worker'[w].at = "idle" /\ \A v \in Workers : v # w => worker'[v] = worker[v]
      BY <2>1, <1>0
    <2>4. /\ Len(resCh') = Len(resCh) + 1 /\ Len(resCh) \in Nat /\ resCh'[Len(resCh) + 1] = t
          /\ \A k \in 1..Len(resCh) : resCh'[k] = resCh[k] /\ k \in 1..Len(resCh')
      BY <2>1, <2>2, <1>0, Sent
    <2>5. Len(resCh) + 1 \in 1..Len(resCh')
      BY <2>4
    <2>6. \A s : OnTheWay(s) => OnTheWay(s)'
      BY <2>1, <2>2, <2>3, <2>4, <2>5 DEF OnTheWay, Task
    <2>7. Settled' = Settled
      BY <2>1 DEF Settled, Open
    <2>8. QED
      BY <2>6, <2>7, <1>g
  <1>17. ASSUME NEW w \in Workers, OfferCancelled(w)
        PROVE  Goal
    BY <1>17, <1>f DEF OfferCancelled, PipeDone
  <1>18. CASE Receive
    <2>1. /\ writer.at = "receive" /\ resCh # <<>> /\ resCh' = Tail(resCh) /\ UNCHANGED <<worker, walkAt, result>>
          /\ HasAborted(Head(resCh)) \/ writer' = [at |-> "row", row |-> <<Head(resCh), 0>>]
      BY <1>18, <1>f DEF Receive
    <2>2. /\ Head(resCh) = resCh[1] /\ resCh[1] \in Series
          /\ \A k \in 1..Len(resCh) : k = 1 \/ (k - 1 \in 1..Len(resCh') /\ resCh'[k - 1] = resCh[k])
      <3>1. resCh # <<>> /\ resCh \in Seq(Series)
        BY <2>1, <1>0
      <3>2. /\ Head(resCh) = resCh[1] /\ resCh[1] \in Series /\ Len(Tail(resCh)) = Len(resCh) - 1
            /\ \A k \in 1..Len(resCh) : k = 1 \/ (k - 1 \in 1..(Len(resCh) - 1) /\ Tail(resCh)[k - 1] = resCh[k])
        BY <3>1, Received
      <3>3. QED
        BY <2>1, <3>2
    <2>3. ~HasAborted(Head(resCh))
      BY <2>2, <1>f DEF HasAborted, IInv, Stops
    <2>4. writer'.at \in Writing /\ writer'.row[1] = resCh[1]
      BY <2>1, <2>2, <2>3
    <2>5. \A s : OnTheWay(s) => OnTheWay(s)'
      BY <2>1, <2>2, <2>4 DEF OnTheWay, Task
    <2>6. Settled' = Settled
      BY <2>1 DEF Settled, Open
    <2>7. QED
      BY <2>5, <2>6, <1>g
  <1>19. CASE Tick
    <2>1. /\ UNCHANGED <<walkAt, result, resCh>>
          /\ \A v \in Workers : worker[v].at \in Carrying => worker'[v].at \in Carrying /\ worker'[v].job[1] = worker[v].job[1]
      BY <1>19, <1>0 DEF Tick, Commit, Fail
    <2>2. writer.at \in Writing => writer'.at \in Writing /\ writer'.row[1] = writer.row[1]
      BY <1>19, <1>0 DEF Tick, Commit, Fail
    <2>3. QED
      BY <2>1, <2>2, <1>k
  <1>20. CASE WriteRow
    <2>1. UNCHANGED <<walkAt, result, resCh, worker>> /\ writer.at = "row" /\ writer'.at \in Writing
      BY <1>20, <1>0 DEF WriteRow, ToBook
    <2>2. writer'.row[1] = writer.row[1]
      BY <1>20, <1>0 DEF WriteRow, ToBook
    <2>3. QED
      BY <2>1, <2>2, <1>k
  <1>21. CASE WriteFails
    <2>1. failed'
      BY <1>21 DEF WriteFails, Fail
    <2>2. QED
      BY <2>1
  <1>22. CASE Stamp
    <2>1. UNCHANGED <<walkAt, result, resCh, worker>> /\ writer.at = "row" /\ writer'.at \in Writing
      BY <1>22, <1>0 DEF Stamp, ToBook
    <2>2. writer'.row[1] = writer.row[1]
      BY <1>22, <1>0 DEF Stamp, ToBook
    <2>3. QED
      BY <2>1, <2>2, <1>k
  <1>23. CASE EndSeries
    <2>1. writer.at = "written" /\ UNCHANGED <<walkAt, result, worker, resCh>>
      BY <1>23 DEF EndSeries
    <2>2. \A j \in 0..Len(Pages[writer.row[1]]) : <<writer.row[1], j>> \in Recorded
      BY <2>1, <1>f DEF IInv, Written
    <2>3. \A s : OnTheWay(s) => OnTheWay(s)' \/ s = writer.row[1]
      BY <2>1 DEF OnTheWay, Task
    <2>4. Settled' = Settled
      BY <2>1 DEF Settled, Open
    <2>5. QED
      BY <2>2, <2>3, <2>4, <1>g
  <1>24. CASE WriterEnds
    <2>1. /\ UNCHANGED <<walkAt, result, resCh>>
          /\ \A v \in Workers : worker[v].at \in Carrying => worker'[v].at \in Carrying /\ worker'[v].job[1] = worker[v].job[1]
      BY <1>24, <1>0 DEF WriterEnds, Ready, Commit
    <2>2. writer.at \in Writing => writer'.at \in Writing /\ writer'.row[1] = writer.row[1]
      BY <1>24, <1>0 DEF WriterEnds, Ready, Commit
    <2>3. QED
      BY <2>1, <2>2, <1>k
  <1>25. CASE DecideSweep
    <2>1. /\ UNCHANGED <<walkAt, result, resCh>>
          /\ \A v \in Workers : worker[v].at \in Carrying => worker'[v].at \in Carrying /\ worker'[v].job[1] = worker[v].job[1]
      BY <1>25, <1>0 DEF DecideSweep
    <2>2. writer.at \in Writing => writer'.at \in Writing /\ writer'.row[1] = writer.row[1]
      BY <1>25, <1>0 DEF DecideSweep
    <2>3. QED
      BY <2>1, <2>2, <1>k
  <1>26. CASE Sweep
    <2>1. /\ UNCHANGED <<walkAt, result, resCh>>
          /\ \A v \in Workers : worker[v].at \in Carrying => worker'[v].at \in Carrying /\ worker'[v].job[1] = worker[v].job[1]
      BY <1>26, <1>0 DEF Sweep
    <2>2. writer.at \in Writing => writer'.at \in Writing /\ writer'.row[1] = writer.row[1]
      BY <1>26, <1>0 DEF Sweep
    <2>3. QED
      BY <2>1, <2>2, <1>k
  <1>27. CASE Cancel
    <2>1. /\ UNCHANGED <<walkAt, result, resCh>>
          /\ \A v \in Workers : worker[v].at \in Carrying => worker'[v].at \in Carrying /\ worker'[v].job[1] = worker[v].job[1]
      BY <1>27, <1>0 DEF Cancel
    <2>2. writer.at \in Writing => writer'.at \in Writing /\ writer'.row[1] = writer.row[1]
      BY <1>27, <1>0 DEF Cancel
    <2>3. QED
      BY <2>1, <2>2, <1>k
  <1>q. QED
    BY <1>1, <1>2, <1>3, <1>4, <1>5, <1>6, <1>7, <1>8, <1>9, <1>10, <1>11, <1>12, <1>13, <1>14, <1>15, <1>16, <1>17, <1>18, <1>19, <1>20, <1>21, <1>22, <1>23, <1>24, <1>25, <1>26, <1>27 DEF Next, WalkStep, WorkStep, WriteStep

(* The rows of a series are written in their order.                        *)
LEMMA RowsWritten ==
  ASSUME IInv, [Next]_vars, ~failed'
  PROVE  /\ writer'.at = "row" => \A j \in 0..Len(Pages[writer'.row[1]]) :
              Behind(writer'.row[2], j) => <<writer'.row[1], j>> \in Recorded'
         /\ writer'.at = "written" => \A j \in 0..Len(Pages[writer'.row[1]]) :
              <<writer'.row[1], j>> \in Recorded'
  <1> DEFINE A == writer'.at = "row" => \A j \in 0..Len(Pages[writer'.row[1]]) :
                     Behind(writer'.row[2], j) => <<writer'.row[1], j>> \in Recorded'
             B == writer'.at = "written" => \A j \in 0..Len(Pages[writer'.row[1]]) :
                     <<writer'.row[1], j>> \in Recorded'
             Goal == A /\ B
  <1> SUFFICES Goal
    OBVIOUS
  <1> USE DEF walk, rows, end
  <1>0. /\ walkAt \in (1..Len(Pages) + 1) \X Nat /\ Series = 1..Len(Pages) /\ Len(Pages) \in Nat
        /\ \A s \in Series : Len(Pages[s]) \in Nat /\ Books(s) = 1..Len(Pages[s])
        /\ bookCh \in Seq(Series \X Nat) /\ resCh \in Seq(Series)
        /\ worker \in [Workers -> [at : {"idle", "taken", "reading", "budget", "waiting", "offer", "exited"},
                               job : {<<0, 0>>} \cup (Series \X Nat)]]
        /\ writer \in [at : {"receive", "row", "written", "ended", "decided", "done"}, row : {<<0, 0>>} \cup Facts]
    BY Library DEF IInv, TypeOK
  <1>f. ~failed /\ Recorded \subseteq Recorded'
    BY RecordedGrows
  <1>i. /\ writer.at = "row" => \A j \in 0..Len(Pages[writer.row[1]]) :
              Behind(writer.row[2], j) => <<writer.row[1], j>> \in Recorded
        /\ writer.at = "written" => \A j \in 0..Len(Pages[writer.row[1]]) :
              <<writer.row[1], j>> \in Recorded
    BY <1>f DEF IInv, Written
  <1>k. ASSUME UNCHANGED writer PROVE Goal
    BY <1>f, <1>i, <1>k
  <1> HIDE DEF A, B, Goal
  <1>1. CASE UNCHANGED vars
    <2>1. UNCHANGED writer
      BY <1>1 DEF vars
    <2>2. QED
      BY <2>1, <1>k
  <1>2. CASE WalkFails
    <2>1. UNCHANGED writer
      BY <1>2 DEF WalkFails, StopWalk
    <2>2. QED
      BY <2>1, <1>k
  <1>3. CASE WalkCancelled
    <2>1. UNCHANGED writer
      BY <1>3 DEF WalkCancelled, StopWalk
    <2>2. QED
      BY <2>1, <1>k
  <1>4. CASE WalkSeries
    <2>1. UNCHANGED writer
      BY <1>4 DEF WalkSeries
    <2>2. QED
      BY <2>1, <1>k
  <1>5. CASE FeedBook
    <2>1. UNCHANGED writer
      BY <1>5 DEF FeedBook, NextSeries
    <2>2. QED
      BY <2>1, <1>k
  <1>6. CASE OfferEmpty
    <2>1. UNCHANGED writer
      BY <1>6 DEF OfferEmpty, NextSeries
    <2>2. QED
      BY <2>1, <1>k
  <1>7. CASE WalkEnds
    <2>1. UNCHANGED writer
      BY <1>7 DEF WalkEnds, StopWalk
    <2>2. QED
      BY <2>1, <1>k
  <1>8. ASSUME NEW w \in Workers, Take(w)
        PROVE  Goal
    <2>1. UNCHANGED writer
      BY <1>8 DEF Take, Put, Job, Task
    <2>2. QED
      BY <2>1, <1>k
  <1>9. ASSUME NEW w \in Workers, Exit(w)
        PROVE  Goal
    <2>1. UNCHANGED writer
      BY <1>9 DEF Exit, Put, Job, Task
    <2>2. QED
      BY <2>1, <1>k
  <1>10. ASSUME NEW w \in Workers, SkipBook(w)
        PROVE  Goal
    <2>1. PICK s \in Series, r \in Results \ {"none"}, i \in Nat : Settles(w, s, i, r)
      BY <1>10, Settling
    <2>2. QED
      BY <2>1, <1>k DEF Settles
  <1>11. ASSUME NEW w \in Workers, ReadBook(w)
        PROVE  Goal
    <2>1. UNCHANGED writer
      BY <1>11 DEF ReadBook, Put, Job, Task
    <2>2. QED
      BY <2>1, <1>k
  <1>12. ASSUME NEW w \in Workers, FinishBook(w)
        PROVE  Goal
    <2>1. PICK s \in Series, r \in Results \ {"none"}, i \in Nat : Settles(w, s, i, r)
      BY <1>12, Settling
    <2>2. QED
      BY <2>1, <1>k DEF Settles
  <1>13. ASSUME NEW w \in Workers, AcquireBudget(w)
        PROVE  Goal
    <2>1. UNCHANGED writer
      BY <1>13 DEF AcquireBudget, Put, Job, Task
    <2>2. QED
      BY <2>1, <1>k
  <1>14. ASSUME NEW w \in Workers, WaitForBudget(w)
        PROVE  Goal
    <2>1. UNCHANGED writer
      BY <1>14 DEF WaitForBudget, Put, Job, Task
    <2>2. QED
      BY <2>1, <1>k
  <1>15. ASSUME NEW w \in Workers, BudgetCancelled(w)
        PROVE  Goal
    <2>1. UNCHANGED writer
      BY <1>15 DEF BudgetCancelled, Put, Job, Task
    <2>2. QED
      BY <2>1, <1>k
  <1>16. ASSUME NEW w \in Workers, Offer(w)
        PROVE  Goal
    <2>1. UNCHANGED writer
      BY <1>16 DEF Offer, Put, Job, Task
    <2>2. QED
      BY <2>1, <1>k
  <1>17. ASSUME NEW w \in Workers, OfferCancelled(w)
        PROVE  Goal
    <2>1. UNCHANGED writer
      BY <1>17 DEF OfferCancelled, Put, Job, Task
    <2>2. QED
      BY <2>1, <1>k
  <1>18. CASE Receive
    <2>1. UNCHANGED writer \/ writer' = [at |-> "row", row |-> <<Head(resCh), 0>>]
      BY <1>18 DEF Receive
    <2>2. ASSUME writer' = [at |-> "row", row |-> <<Head(resCh), 0>>]
          PROVE  Goal
      <3>1. writer'.at = "row" /\ writer'.row[2] = 0
        BY <2>2
      <3>2. \A j \in Nat : ~Behind(0, j)
        BY DEF Behind
      <3>3. \A n : \A j \in 0..n : j \in Nat
        OBVIOUS
      <3>4. QED
        BY <3>1, <3>2, <3>3 DEF Goal, A, B
    <2>3. QED
      BY <2>1, <2>2, <1>k
  <1>19. CASE Tick
    <2>1. UNCHANGED writer
      BY <1>19 DEF Tick, Commit, Fail
    <2>2. QED
      BY <2>1, <1>k
  <1>20. CASE WriteRow
    <2>0. writer.row \in Facts
      BY <1>20 DEF WriteRow, Facts, IInv, Carried, Writing, Settled, TypeOK
    <2>1. PICK s \in Series, i \in Int :
            writer.row = <<s, i>> /\ (i = 0 \/ i \in Books(s) \/ -i \in Books(s))
      BY <2>0 DEF Facts
    <2>2. PICK n \in Nat : n = Len(Pages[s]) /\ Books(s) = 1..n
      BY <1>0
    <2>3. <<s, i>> \in Recorded'
      BY <1>20, <2>1 DEF WriteRow, Recorded, Insert, Commit
    <2>4. \A j \in 0..n : j = i \/ Behind(i, j) => <<s, j>> \in Recorded'
      BY <1>20, <2>1, <2>2, <2>3, <1>f, <1>i DEF WriteRow
    <2>5. CASE i > 0
      <3>1. writer'.at = "row" /\ writer'.row = <<s, -i>>
        BY <1>20, <2>1, <2>5, <1>0 DEF WriteRow
      <3>2. \A j \in 0..n : Behind(-i, j) => j = i \/ Behind(i, j)
        BY <2>5 DEF Behind
      <3>3. QED
        BY <2>2, <2>4, <3>1, <3>2 DEF Goal, A, B
    <2>6. CASE ~(i > 0)
      <3>1. writer' = IF 1 - i \in Books(s) THEN [at |-> "row", row |-> <<s, 1 - i>>]
                      ELSE [at |-> "written", row |-> <<s, 0>>]
        BY <1>20, <2>1, <2>6 DEF WriteRow, ToBook
      <3>2. \A j \in 0..n : Behind(1 - i, j) => j = i \/ Behind(i, j)
        BY <2>6 DEF Behind
      <3>3. 1 - i \notin Books(s) => \A j \in 0..n : j = i \/ Behind(i, j)
        BY <2>1, <2>2, <2>6 DEF Behind
      <3>4. CASE 1 - i \in Books(s)
        <4>1. writer'.at = "row" /\ writer'.row = <<s, 1 - i>>
          BY <3>1, <3>4
        <4>2. QED
          BY <2>2, <2>4, <3>2, <4>1 DEF Goal, A, B
      <3>5. CASE 1 - i \notin Books(s)
        <4>1. writer'.at = "written" /\ writer'.row = <<s, 0>>
          BY <3>1, <3>5
        <4>2. QED
          BY <2>2, <2>4, <3>3, <3>5, <4>1 DEF Goal, A, B
      <3>6. QED
        BY <3>4, <3>5
    <2>7. QED
      BY <2>5, <2>6
  <1>21. CASE WriteFails
    <2>1. failed'
      BY <1>21 DEF WriteFails, Fail
    <2>2. QED
      BY <2>1
  <1>22. CASE Stamp
    <2>0. writer.row \in Facts
      BY <1>22 DEF Stamp, Facts, IInv, Carried, Writing, Settled, TypeOK
    <2>1. PICK s \in Series, i \in Int :
            writer.row = <<s, i>> /\ (i = 0 \/ i \in Books(s) \/ -i \in Books(s))
      BY <2>0 DEF Facts
    <2>2. PICK n \in Nat : n = Len(Pages[s]) /\ Books(s) = 1..n
      BY <1>0
    <2>3. <<s, i>> \in Recorded'
      BY <1>22, <2>1 DEF Stamp, Recorded, Insert, Commit
    <2>4. \A j \in 0..n : j = i \/ Behind(i, j) => <<s, j>> \in Recorded'
      BY <1>22, <2>1, <2>2, <2>3, <1>f, <1>i DEF Stamp
    <2>5. /\ i \in 0..n
          /\ writer' = IF i + 1 \in Books(s) THEN [at |-> "row", row |-> <<s, i + 1>>]
                      ELSE [at |-> "written", row |-> <<s, 0>>]
      BY <1>22, <2>1, <2>2 DEF Stamp, ToBook
    <2>6. \A j \in 0..n : Behind(i + 1, j) => j = i \/ Behind(i, j)
      BY <2>5 DEF Behind
    <2>7. i + 1 \notin Books(s) => \A j \in 0..n : j = i \/ Behind(i, j)
      BY <2>2, <2>5 DEF Behind
    <2>8. CASE i + 1 \in Books(s)
      <3>1. writer'.at = "row" /\ writer'.row = <<s, i + 1>>
        BY <2>5, <2>8
      <3>2. QED
        BY <2>2, <2>4, <2>6, <3>1 DEF Goal, A, B
    <2>9. CASE i + 1 \notin Books(s)
      <3>1. writer'.at = "written" /\ writer'.row = <<s, 0>>
        BY <2>5, <2>9
      <3>2. QED
        BY <2>2, <2>4, <2>7, <2>9, <3>1 DEF Goal, A, B
    <2>10. QED
      BY <2>8, <2>9
  <1>23. CASE EndSeries
    BY <1>23, <1>0 DEF EndSeries, Ready, Goal, A, B
  <1>24. CASE WriterEnds
    BY <1>24, <1>0 DEF WriterEnds, Ready, Goal, A, B
  <1>25. CASE DecideSweep
    BY <1>25, <1>0 DEF DecideSweep, Goal, A, B
  <1>26. CASE Sweep
    BY <1>26, <1>0 DEF Sweep, Goal, A, B
  <1>27. CASE Cancel
    <2>1. UNCHANGED writer
      BY <1>27 DEF Cancel
    <2>2. QED
      BY <2>1, <1>k
  <1>q. QED
    BY <1>1, <1>2, <1>3, <1>4, <1>5, <1>6, <1>7, <1>8, <1>9, <1>10, <1>11, <1>12, <1>13, <1>14, <1>15, <1>16, <1>17, <1>18, <1>19, <1>20, <1>21, <1>22, <1>23, <1>24, <1>25, <1>26, <1>27 DEF Next, WalkStep, WorkStep, WriteStep

\* Every step keeps what the writer has recorded of the series in hand.
LEMMA WrittenStep == IInv /\ [Next]_vars => Written'
  <1> SUFFICES ASSUME IInv, [Next]_vars PROVE Written'
    OBVIOUS
  <1>1. ASSUME ~failed'
        PROVE  /\ writer'.at = "row" => \A j \in 0..Len(Pages[writer'.row[1]]) :
                     Behind(writer'.row[2], j) => <<writer'.row[1], j>> \in Recorded'
               /\ writer'.at = "written" => \A j \in 0..Len(Pages[writer'.row[1]]) :
                     <<writer'.row[1], j>> \in Recorded'
    BY <1>1, RowsWritten
  <1>2. ASSUME ~failed', ~PipeDone'
        PROVE  \A s \in Settled' : ~OnTheWay(s)' => \A j \in 0..Len(Pages[s]) : <<s, j>> \in Recorded'
    BY <1>2, SeriesWritten
  <1>3. QED
    BY <1>1, <1>2 DEF Written, Behind, Recorded

(* Whoever stops early, and when the writer is through.                    *)
LEMMA StopsStep == IInv /\ [Next]_vars => Stops'
  <1> SUFFICES ASSUME IInv, [Next]_vars PROVE Stops'
    OBVIOUS
  <1> USE DEF walk, rows, end
  <1>0. /\ walkAt \in (1..Len(Pages) + 1) \X Nat /\ Series = 1..Len(Pages) /\ Len(Pages) \in Nat
        /\ \A s \in Series : Len(Pages[s]) \in Nat /\ Books(s) = 1..Len(Pages[s])
        /\ bookCh \in Seq(Series \X Nat) /\ resCh \in Seq(Series)
        /\ worker \in [Workers -> [at : {"idle", "taken", "reading", "budget", "waiting", "offer", "exited"},
                               job : {<<0, 0>>} \cup (Series \X Nat)]]
        /\ writer \in [at : {"receive", "row", "written", "ended", "decided", "done"}, row : {<<0, 0>>} \cup Facts]
    BY Library DEF IInv, TypeOK
  <1>i. Stops /\ failed \in BOOLEAN
    BY DEF IInv, TypeOK
  <1>1. CASE UNCHANGED vars
    BY <1>0, <1>i, <1>1 DEF vars, Stops, PipeDone
  <1>2. CASE WalkFails
    BY <1>2, <1>0, <1>i DEF WalkFails, StopWalk, Stops, PipeDone
  <1>3. CASE WalkCancelled
    BY <1>3, <1>0, <1>i DEF WalkCancelled, StopWalk, Stops, PipeDone
  <1>4. CASE WalkSeries
    BY <1>4, <1>0, <1>i DEF WalkSeries, Stops, PipeDone
  <1>5. CASE FeedBook
    <2>1. UNCHANGED <<cancelled, aborted, walkErr, walking, result, worker, resCh, writer, failed, stamps, tx, outcome>> /\ walking
      BY <1>5 DEF FeedBook
    <2>2. QED
      BY <2>1, <1>i DEF Stops, PipeDone
  <1>6. CASE OfferEmpty
    BY <1>6, <1>0, <1>i DEF OfferEmpty, NextSeries, Stops, PipeDone
  <1>7. CASE WalkEnds
    BY <1>7, <1>0, <1>i DEF WalkEnds, StopWalk, Stops, PipeDone
  <1>8. ASSUME NEW w \in Workers, Take(w)
        PROVE  Stops'
    <2>1. /\ UNCHANGED <<cancelled, aborted, walkErr, walking, walkAt, result, resCh, writer, failed, stamps, tx, outcome>>
          /\ bookCh # <<>> /\ worker[w].at = "idle" /\ worker' = [worker EXCEPT ![w] = [at |-> "taken", job |-> Head(bookCh)]]
      BY <1>8 DEF Take, Put
    <2>2. \A v \in Workers : worker'[v].at = "exited" <=> worker[v].at = "exited"
      BY <2>1, <1>0
    <2>3. ~PipeDone => \A v \in Workers : worker[v].at # "exited"
      BY <2>1, <1>i DEF Stops
    <2>4. QED
      BY <2>1, <2>2, <2>3, <1>i DEF Stops, PipeDone
  <1>9. ASSUME NEW w \in Workers, Exit(w)
        PROVE  Stops'
    BY <1>9, <1>0, <1>i DEF Exit, Put, Job, Task, Stops, PipeDone
  <1>10. ASSUME NEW w \in Workers, SkipBook(w)
        PROVE  Stops'
    <2>1. PICK s \in Series, r \in Results \ {"none"}, i \in Nat : Settles(w, s, i, r)
      BY <1>10, Settling
    <2>2. UNCHANGED <<cancelled, aborted, walkErr, walking, walkAt, bookCh, resCh, writer, failed, stamps, tx, outcome>>
      BY <2>1 DEF Settles
    <2>3. \A t \in Series : \A j \in Books(t) : result'[t][j] \in {"aborted", "halfRead"} => PipeDone
      BY <2>1, <1>i DEF Settles, Stops
    <2>4. \A v \in Workers : worker'[v].at = "exited" <=> worker[v].at = "exited"
      <3>1. /\ worker[w].at \in Reading /\ worker'[w].at \in {"budget", "idle"}
            /\ \A v \in Workers : v # w => worker'[v] = worker[v]
        BY <2>1, <1>0 DEF Settles
      <3>2. QED
        BY <3>1 DEF Reading
    <2>5. QED
      BY <2>2, <2>3, <2>4, <1>i DEF Stops, PipeDone
  <1>11. ASSUME NEW w \in Workers, ReadBook(w)
        PROVE  Stops'
    BY <1>11, <1>0, <1>i DEF ReadBook, Put, Job, Task, Stops, PipeDone
  <1>12. ASSUME NEW w \in Workers, FinishBook(w)
        PROVE  Stops'
    <2>1. PICK s \in Series, r \in Results \ {"none"}, i \in Nat : Settles(w, s, i, r)
      BY <1>12, Settling
    <2>2. UNCHANGED <<cancelled, aborted, walkErr, walking, walkAt, bookCh, resCh, writer, failed, stamps, tx, outcome>>
      BY <2>1 DEF Settles
    <2>3. \A t \in Series : \A j \in Books(t) : result'[t][j] \in {"aborted", "halfRead"} => PipeDone
      BY <2>1, <1>i DEF Settles, Stops
    <2>4. \A v \in Workers : worker'[v].at = "exited" <=> worker[v].at = "exited"
      <3>1. /\ worker[w].at \in Reading /\ worker'[w].at \in {"budget", "idle"}
            /\ \A v \in Workers : v # w => worker'[v] = worker[v]
        BY <2>1, <1>0 DEF Settles
      <3>2. QED
        BY <3>1 DEF Reading
    <2>5. QED
      BY <2>2, <2>3, <2>4, <1>i DEF Stops, PipeDone
  <1>13. ASSUME NEW w \in Workers, AcquireBudget(w)
        PROVE  Stops'
    BY <1>13, <1>0, <1>i DEF AcquireBudget, Put, Job, Task, Stops, PipeDone
  <1>14. ASSUME NEW w \in Workers, WaitForBudget(w)
        PROVE  Stops'
    BY <1>14, <1>0, <1>i DEF WaitForBudget, Put, Job, Task, Stops, PipeDone
  <1>15. ASSUME NEW w \in Workers, BudgetCancelled(w)
        PROVE  Stops'
    BY <1>15, <1>0, <1>i DEF BudgetCancelled, Put, Job, Task, Stops, PipeDone
  <1>16. ASSUME NEW w \in Workers, Offer(w)
        PROVE  Stops'
    BY <1>16, <1>0, <1>i DEF Offer, Put, Job, Task, Stops, PipeDone
  <1>17. ASSUME NEW w \in Workers, OfferCancelled(w)
        PROVE  Stops'
    BY <1>17, <1>0, <1>i DEF OfferCancelled, Put, Job, Task, Stops, PipeDone
  <1>18. CASE Receive
    BY <1>18, <1>0, <1>i DEF Receive, Stops, PipeDone
  <1>19. CASE Tick
    BY <1>19, <1>0, <1>i DEF Tick, Commit, Fail, Stops, PipeDone
  <1>20. CASE WriteRow
    <2>1. UNCHANGED <<cancelled, aborted, walkErr, walking, walkAt, bookCh, worker, result, resCh, failed, outcome>>
      BY <1>20 DEF WriteRow, Insert, Commit
    <2>2. writer.at = "row" /\ writer'.at \in {"row", "written"}
      BY <1>20, <1>0 DEF WriteRow, ToBook
    <2>3. QED
      BY <2>1, <2>2, <1>i DEF Stops, PipeDone
  <1>21. CASE WriteFails
    BY <1>21, <1>0, <1>i DEF WriteFails, Fail, Ready, Stops, PipeDone
  <1>22. CASE Stamp
    BY <1>22, <1>0, <1>i DEF Stamp, ToBook, Stops, PipeDone
  <1>23. CASE EndSeries
    BY <1>23, <1>0, <1>i DEF EndSeries, Insert, Commit, Fail, Ready, Stops, PipeDone
  <1>24. CASE WriterEnds
    BY <1>24, <1>0, <1>i DEF WriterEnds, Ready, Commit, Stops, PipeDone
  <1>25. CASE DecideSweep
    BY <1>25, <1>0, <1>i DEF DecideSweep, Stops, PipeDone
  <1>26. CASE Sweep
    BY <1>26, <1>0, <1>i DEF Sweep, Stops, PipeDone
  <1>27. CASE Cancel
    BY <1>27, <1>0, <1>i DEF Cancel, Stops, PipeDone
  <1>q. QED
    BY <1>1, <1>2, <1>3, <1>4, <1>5, <1>6, <1>7, <1>8, <1>9, <1>10, <1>11, <1>12, <1>13, <1>14, <1>15, <1>16, <1>17, <1>18, <1>19, <1>20, <1>21, <1>22, <1>23, <1>24, <1>25, <1>26, <1>27 DEF Next, WalkStep, WorkStep, WriteStep

(* The decision to sweep is taken with everything committed.               *)
LEMMA SweepStep == IInv /\ [Next]_vars => SweepSeesTheWholeRoot'
  <1> SUFFICES ASSUME IInv, [Next]_vars PROVE SweepSeesTheWholeRoot'
    OBVIOUS
  <1> USE DEF SweepSeesTheWholeRoot, walk, rows, end
  <1>0. /\ walkAt \in (1..Len(Pages) + 1) \X Nat /\ Series = 1..Len(Pages) /\ Len(Pages) \in Nat
        /\ \A s \in Series : Len(Pages[s]) \in Nat /\ Books(s) = 1..Len(Pages[s])
        /\ bookCh \in Seq(Series \X Nat) /\ resCh \in Seq(Series)
        /\ worker \in [Workers -> [at : {"idle", "taken", "reading", "budget", "waiting", "offer", "exited"},
                               job : {<<0, 0>>} \cup (Series \X Nat)]]
        /\ writer \in [at : {"receive", "row", "written", "ended", "decided", "done"}, row : {<<0, 0>>} \cup Facts]
    BY Library DEF IInv, TypeOK
  <1>i. Stops
    BY DEF IInv
  <1>n. NoneIsLost
    BY DEF IInv
  <1>w. Written
    BY DEF IInv
  <1>t. walkErr \in {"none", "cancelled", "disk"}
    BY DEF IInv, TypeOK
  <1>s. SweepSeesTheWholeRoot
    BY DEF IInv
  <1>1. CASE UNCHANGED vars
    BY <1>s, <1>1 DEF vars
  <1>2. CASE WalkFails
    BY <1>2, <1>s DEF WalkFails, StopWalk
  <1>3. CASE WalkCancelled
    BY <1>3, <1>s DEF WalkCancelled, StopWalk
  <1>4. CASE WalkSeries
    BY <1>4, <1>s DEF WalkSeries
  <1>5. CASE FeedBook
    BY <1>5, <1>s DEF FeedBook, NextSeries
  <1>6. CASE OfferEmpty
    BY <1>6, <1>s DEF OfferEmpty, NextSeries
  <1>7. CASE WalkEnds
    BY <1>7, <1>s DEF WalkEnds, StopWalk
  <1>8. ASSUME NEW w \in Workers, Take(w)
        PROVE  SweepSeesTheWholeRoot'
    BY <1>8, <1>s DEF Take, Put, Job, Task
  <1>9. ASSUME NEW w \in Workers, Exit(w)
        PROVE  SweepSeesTheWholeRoot'
    BY <1>9, <1>s DEF Exit, Put, Job, Task
  <1>10. ASSUME NEW w \in Workers, SkipBook(w)
        PROVE  SweepSeesTheWholeRoot'
    <2>1. PICK s \in Series, r \in Results \ {"none"}, i \in Nat : Settles(w, s, i, r)
      BY <1>10, Settling
    <2>2. QED
      BY <2>1, <1>s DEF Settles
  <1>11. ASSUME NEW w \in Workers, ReadBook(w)
        PROVE  SweepSeesTheWholeRoot'
    BY <1>11, <1>s DEF ReadBook, Put, Job, Task
  <1>12. ASSUME NEW w \in Workers, FinishBook(w)
        PROVE  SweepSeesTheWholeRoot'
    <2>1. PICK s \in Series, r \in Results \ {"none"}, i \in Nat : Settles(w, s, i, r)
      BY <1>12, Settling
    <2>2. QED
      BY <2>1, <1>s DEF Settles
  <1>13. ASSUME NEW w \in Workers, AcquireBudget(w)
        PROVE  SweepSeesTheWholeRoot'
    BY <1>13, <1>s DEF AcquireBudget, Put, Job, Task
  <1>14. ASSUME NEW w \in Workers, WaitForBudget(w)
        PROVE  SweepSeesTheWholeRoot'
    BY <1>14, <1>s DEF WaitForBudget, Put, Job, Task
  <1>15. ASSUME NEW w \in Workers, BudgetCancelled(w)
        PROVE  SweepSeesTheWholeRoot'
    BY <1>15, <1>s DEF BudgetCancelled, Put, Job, Task
  <1>16. ASSUME NEW w \in Workers, Offer(w)
        PROVE  SweepSeesTheWholeRoot'
    BY <1>16, <1>s DEF Offer, Put, Job, Task
  <1>17. ASSUME NEW w \in Workers, OfferCancelled(w)
        PROVE  SweepSeesTheWholeRoot'
    BY <1>17, <1>s DEF OfferCancelled, Put, Job, Task
  <1>18. CASE Receive
    BY <1>18, <1>s DEF Receive
  <1>19. CASE Tick
    BY <1>19, <1>s DEF Tick, Commit, Fail
  <1>20. CASE WriteRow
    BY <1>20, <1>s DEF WriteRow, Insert, Commit, ToBook
  <1>21. CASE WriteFails
    BY <1>21, <1>s DEF WriteFails, Fail, Ready
  <1>22. CASE Stamp
    BY <1>22, <1>s DEF Stamp, ToBook
  <1>23. CASE EndSeries
    BY <1>23, <1>s DEF EndSeries, Insert, Commit, Fail, Ready
  <1>24. CASE WriterEnds
    BY <1>24, <1>s DEF WriterEnds, Ready, Commit
  <1>25. CASE DecideSweep
    <2>0. /\ writer.at = "ended" /\ UNCHANGED durable
          /\ outcome' \in {"sweep", "swept"} => ~failed /\ ~cancelled /\ (walkErr # "disk" \/ PipeDone)
      BY <1>25 DEF DecideSweep, RootErr
    <2> SUFFICES ASSUME outcome' \in {"sweep", "swept"}, NEW s \in Series
                 PROVE  <<s, 0>> \in durable /\ \A i \in Books(s) : <<s, i>> \in durable
      BY <2>0
    <2>1. /\ ~failed /\ ~PipeDone /\ walkErr \notin {"disk", "cancelled"}
          /\ resCh = <<>> /\ stamps = {} /\ tx = {} /\ ~walking
          /\ \A w \in Workers : worker[w].at = "exited"
      BY <2>0, <1>i DEF Stops, PipeDone
    <2>2. bookCh = <<>>
      BY <2>1, <1>i, PipelineAssumption DEF Stops
    <2>3. walkAt[1] \notin Series
      BY <2>1, <1>i, <1>t DEF Stops
    <2>4. s < walkAt[1]
      BY <2>3, <1>0
    <2>5. Open(s) = {}
      <3>1. Len(bookCh) = 0
        BY <2>2
      <3>2. \A i \in Open(s) : Fed(s, i)
        BY <2>4 DEF Fed
      <3>3. \A i \in Open(s) : \E w \in Workers : worker[w].at \in Reading
        BY <3>1, <3>2, <1>n DEF NoneIsLost
      <3>4. QED
        BY <3>3, <2>1 DEF Reading
    <2>6. s \in Settled
      BY <2>4, <2>5 DEF Settled
    <2>7. ~OnTheWay(s)
      <3>1. Len(resCh) = 0
        BY <2>1
      <3>2. QED
        BY <3>1, <2>0, <2>1 DEF OnTheWay, Carrying, Writing
    <2>8. \A j \in 0..Len(Pages[s]) : <<s, j>> \in durable
      BY <2>1, <2>6, <2>7, <1>w DEF Written, Recorded
    <2>9. 0 \in 0..Len(Pages[s]) /\ \A i \in Books(s) : i \in 0..Len(Pages[s])
      BY Library
    <2>10. QED
      BY <2>8, <2>9
  <1>26. CASE Sweep
    BY <1>26, <1>s DEF Sweep
  <1>27. CASE Cancel
    BY <1>27, <1>s DEF Cancel
  <1>q. QED
    BY <1>1, <1>2, <1>3, <1>4, <1>5, <1>6, <1>7, <1>8, <1>9, <1>10, <1>11, <1>12, <1>13, <1>14, <1>15, <1>16, <1>17, <1>18, <1>19, <1>20, <1>21, <1>22, <1>23, <1>24, <1>25, <1>26, <1>27 DEF Next, WalkStep, WorkStep, WriteStep

\* Every step keeps the inductive invariant.
LEMMA NextIInv == IInv /\ [Next]_vars => IInv'
  <1> SUFFICES ASSUME IInv, [Next]_vars PROVE IInv'
    OBVIOUS
  <1>1. TypeOK' /\ Shape' /\ Jobs' /\ JobsApart' /\ NoneIsLost' /\ Counted'
    BY TypeStep, ShapeStep, JobsStep, JobsApartStep, NoneIsLostStep, CountedStep
  <1>2. Carried' /\ CarriedApart' /\ Budget' /\ Written' /\ Stops' /\ SweepSeesTheWholeRoot'
    BY CarriedStep, BudgetStep, WrittenStep, StopsStep, SweepStep
  <1>3. QED
    BY <1>1, <1>2 DEF IInv

-----------------------------------------------------------------------------
(* The inductive invariant of one root's pass: every book the walker fed   *)
(* is in the channel or with one worker until it is settled, remaining     *)
(* counts the open ones, a settled series is carried by one goroutine at a *)
(* time, and what has left the pipeline is written.                        *)
THEOREM PipelineInvariant == Spec => []IInv
  <1>1. Init => IInv
    BY InitIInv
  <1>2. IInv /\ [Next]_vars => IInv'
    BY NextIInv
  <1>3. QED
    BY <1>1, <1>2, PTL DEF Spec

(* A root is swept only when each series of the walk has its row and all   *)
(* its books committed at this generation, for any library, any number of  *)
(* workers and any capacities (scanRoot's decision).                       *)
THEOREM SweepIsSafe == Spec => []SweepSeesTheWholeRoot
  <1>1. IInv => SweepSeesTheWholeRoot
    BY DEF IInv
  <1>2. QED
    BY <1>1, PipelineInvariant, PTL

(* pageBudget: what is held is the sum over the series in flight, and more *)
(* than the limit is held only for one series that is larger than it.      *)
THEOREM BudgetIsKept == Spec => []BudgetBalances
  <1>1. IInv => BudgetBalances
    <2> SUFFICES ASSUME IInv PROVE BudgetBalances
      OBVIOUS
    <2>1. TypeOK
      BY DEF IInv
    <2>2. BudgetIsInFlight
      BY Zenon DEF IInv, Budget, Rows, Holders, BudgetIsInFlight
    <2>3. BudgetBounded
      BY HoldersSettled DEF IInv, Budget, BudgetBounded
    <2>4. QED
      BY <2>1, <2>2, <2>3 DEF BudgetBalances
  <1>2. QED
    BY <1>1, PipelineInvariant, PTL

(* Nobody settles a book twice or loses one: a book is in the channel or   *)
(* with one worker, a series with one goroutine at a time.                 *)
THEOREM OneHandAtATime == Spec => [](JobsApart /\ NoneIsLost /\ CarriedApart)
  <1>1. IInv => JobsApart /\ NoneIsLost /\ CarriedApart
    BY DEF IInv
  <1>2. QED
    BY <1>1, PipelineInvariant, PTL
=============================================================================
