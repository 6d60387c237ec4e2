------------------------------- MODULE PdfPool -------------------------------
(***************************************************************************)
(* The lazily made pool of PDF workers: callers that count themselves      *)
(* before they wait for a worker, the reaper that tears the runtime down   *)
(* when nobody is counted, and Close, which does so at once and then waits *)
(* for the reaper.  A runtime is numbered as it is made, and so is its     *)
(* reaper.  What is read of a document is left out.                        *)
(* An operator named X_Bug is X with a plausible mistake in it.            *)
(***************************************************************************)
EXTENDS Integers, FiniteSets

CONSTANTS
  Callers,      \* goroutines that open documents
  Closers,      \* goroutines that close the renderer
  Workers,      \* pdf.workers
  MaxRuntimes   \* bound: runtimes made

ASSUME PoolAssumption ==
  IsFiniteSet(Callers) /\ Workers \in Nat \ {0} /\ MaxRuntimes \in Nat

VARIABLES
  pool,      \* the runtime, 0 for none
  made,      \* how many were made
  openDocs,  \* callers counted
  old,       \* the last use is an idle timeout ago
  closed,
  handle,    \* the reaper Close would stop, 0 for none
  reaper,    \* from runtimes to the state of their reapers
  stopped,   \* the reapers whose stop channel is closed
  pc,        \* from callers to where they are
  gen,       \* from callers to the runtime they hold
  closing,   \* from closers to where they are
  waited     \* from closers to the reaper they wait for

callerVars == <<pc, gen>>
reaperVars == <<handle, reaper, stopped>>
closeVars == <<closing, waited>>
vars == <<pool, made, openDocs, old, closed, reaperVars, callerVars, closeVars>>

Runtimes == 1..MaxRuntimes
CallerStates == {"idle", "want", "has", "open", "returning"}

Counted == {c \in Callers : pc[c] # "idle"}
Borrowers(g) == {c \in Callers : pc[c] \in {"has", "open"} /\ gen[c] = g}

Init ==
  /\ pool = 0 /\ made = 0 /\ openDocs = 0 /\ old = FALSE /\ closed = FALSE
  /\ handle = 0 /\ stopped = {}
  /\ reaper = [g \in Runtimes |-> "none"]
  /\ pc = [c \in Callers |-> "idle"] /\ gen = [c \in Callers |-> 0]
  /\ closing = [k \in Closers |-> "no"] /\ waited = [k \in Closers |-> 0]

------------------------------------------------------------------------------
\* initLocked: a runtime and its reaper.
InitLocked ==
  \/ pool # 0 /\ UNCHANGED <<pool, made, reaperVars>>
  \/ /\ pool = 0 /\ made < MaxRuntimes
     /\ pool' = made + 1 /\ made' = made + 1
     /\ handle' = made + 1
     /\ reaper' = [reaper EXCEPT ![made + 1] = "run"]
     /\ UNCHANGED stopped

\* instance, under the lock: the caller is counted before it has a worker.  A
\* closed renderer, or a runtime that cannot be made, changes nothing.
Instance(c) ==
  /\ pc[c] = "idle" /\ ~ closed
  /\ InitLocked
  /\ openDocs' = openDocs + 1 /\ old' = FALSE
  /\ pc' = [pc EXCEPT ![c] = "want"] /\ gen' = [gen EXCEPT ![c] = pool']
  /\ UNCHANGED <<closed, closeVars>>

\* GetInstance on the runtime that was read under the lock.
GetInstance(c) ==
  /\ pc[c] = "want" /\ gen[c] = pool
  /\ Cardinality(Borrowers(pool)) < Workers
  /\ pc' = [pc EXCEPT ![c] = "has"]
  /\ UNCHANGED <<pool, made, openDocs, old, closed, reaperVars, gen, closeVars>>

NoInstance_StaysCounted(c) ==
  /\ pc[c] = "want"
  /\ pc' = [pc EXCEPT ![c] = "idle"]
  /\ UNCHANGED <<pool, made, openDocs, old, closed, reaperVars, gen, closeVars>>

\* No worker within a minute, or the runtime was closed meanwhile.
NoInstance(c) ==
  /\ pc[c] = "want"
  /\ pc' = [pc EXCEPT ![c] = "idle"]
  /\ openDocs' = openDocs - 1
  /\ UNCHANGED <<pool, made, old, closed, reaperVars, gen, closeVars>>

OpenDocument(c) ==
  /\ pc[c] = "has"
  /\ pc' = [pc EXCEPT ![c] = "open"]
  /\ UNCHANGED <<pool, made, openDocs, old, closed, reaperVars, gen, closeVars>>

\* The worker goes back: the document could not be opened, or is closed.
ReturnInstance(c) ==
  /\ pc[c] \in {"has", "open"}
  /\ pc' = [pc EXCEPT ![c] = "returning"]
  /\ UNCHANGED <<pool, made, openDocs, old, closed, reaperVars, gen, closeVars>>

\* releaseInstance, under the lock.
Uncount(c) ==
  /\ pc[c] = "returning"
  /\ pc' = [pc EXCEPT ![c] = "idle"]
  /\ openDocs' = openDocs - 1 /\ old' = FALSE
  /\ UNCHANGED <<pool, made, closed, reaperVars, gen, closeVars>>

------------------------------------------------------------------------------
\* The idle timeout has passed since the last use.
Age ==
  /\ ~ old /\ old' = TRUE
  /\ UNCHANGED <<pool, made, openDocs, closed, reaperVars, callerVars, closeVars>>

Tick_Uncounting(g) ==
  /\ reaper[g] = "run"
  /\ pool # 0 /\ old
  /\ pool' = 0 /\ handle' = 0
  /\ reaper' = [reaper EXCEPT ![g] = "leaving"]
  /\ UNCHANGED <<made, openDocs, old, closed, stopped, callerVars, closeVars>>

\* reap: a tick that finds the runtime idle tears it down, whichever runtime
\* it is, and takes its own handles away.
Tick(g) ==
  /\ reaper[g] = "run"
  /\ pool # 0 /\ openDocs = 0 /\ old
  /\ pool' = 0 /\ handle' = 0
  /\ reaper' = [reaper EXCEPT ![g] = "leaving"]
  /\ UNCHANGED <<made, openDocs, old, closed, stopped, callerVars, closeVars>>

\* reap: the end, after a tear-down or a stop.
ReaperEnds(g) ==
  /\ reaper[g] = "leaving" \/ (reaper[g] = "run" /\ g \in stopped)
  /\ reaper' = [reaper EXCEPT ![g] = "done"]
  /\ UNCHANGED <<pool, made, openDocs, old, closed, handle, stopped, callerVars, closeVars>>

------------------------------------------------------------------------------
CloseAgain(k) ==
  /\ closing[k] = "no" /\ closed
  /\ closing' = [closing EXCEPT ![k] = "done"]
  /\ UNCHANGED <<pool, made, openDocs, old, closed, reaperVars, callerVars, waited>>

CloseLock_LosesHandle(k) ==
  /\ closing[k] = "no" /\ ~ closed
  /\ closed' = TRUE /\ pool' = 0 /\ handle' = 0
  /\ waited' = [waited EXCEPT ![k] = handle']
  /\ closing' = [closing EXCEPT ![k] = "unlocked"]
  /\ UNCHANGED <<made, openDocs, old, reaper, stopped, callerVars>>

\* Close, under the lock: documents that are open are not waited for.
CloseLock(k) ==
  /\ closing[k] = "no" /\ ~ closed
  /\ closed' = TRUE /\ pool' = 0 /\ handle' = 0
  /\ waited' = [waited EXCEPT ![k] = handle]
  /\ closing' = [closing EXCEPT ![k] = "unlocked"]
  /\ UNCHANGED <<made, openDocs, old, reaper, stopped, callerVars>>

CloseStop_Forgets(k) ==
  /\ closing[k] = "unlocked"
  /\ closing' = [closing EXCEPT ![k] = "waiting"]
  /\ UNCHANGED <<pool, made, openDocs, old, closed, handle, reaper, stopped, callerVars, waited>>

CloseStop(k) ==
  /\ closing[k] = "unlocked"
  /\ stopped' = stopped \cup ({waited[k]} \ {0})
  /\ closing' = [closing EXCEPT ![k] = "waiting"]
  /\ UNCHANGED <<pool, made, openDocs, old, closed, handle, reaper, callerVars, waited>>

\* <-done.
CloseReturn(k) ==
  /\ closing[k] = "waiting"
  /\ waited[k] # 0 => reaper[waited[k]] = "done"
  /\ closing' = [closing EXCEPT ![k] = "done"]
  /\ UNCHANGED <<pool, made, openDocs, old, closed, reaperVars, callerVars, waited>>

Caller(c) ==
  \/ Instance(c) \/ GetInstance(c) \/ NoInstance(c)
  \/ OpenDocument(c) \/ ReturnInstance(c) \/ Uncount(c)
Reaper(g) == Tick(g) \/ ReaperEnds(g)
Closer(k) == CloseAgain(k) \/ CloseLock(k) \/ CloseStop(k) \/ CloseReturn(k)

Next ==
  \/ \E c \in Callers : Caller(c)
  \/ \E g \in Runtimes : Reaper(g)
  \/ \E k \in Closers : Closer(k)
  \/ Age

Spec == Init /\ [][Next]_vars

\* Time passes, the reaper's ticker fires, and a Close that has begun goes on;
\* nobody has to open or to close a document.
FairSpec ==
  /\ Spec
  /\ WF_vars(Age)
  /\ \A g \in Runtimes : WF_vars(Reaper(g))
  /\ \A k \in Closers : WF_vars(CloseStop(k) \/ CloseReturn(k))

------------------------------------------------------------------------------
TypeOK ==
  /\ pool \in 0..MaxRuntimes /\ made \in 0..MaxRuntimes /\ openDocs \in Nat
  /\ old \in BOOLEAN /\ closed \in BOOLEAN
  /\ handle \in 0..MaxRuntimes /\ stopped \subseteq Runtimes
  /\ reaper \in [Runtimes -> {"none", "run", "leaving", "done"}]
  /\ pc \in [Callers -> CallerStates] /\ gen \in [Callers -> 0..MaxRuntimes]
  /\ closing \in [Closers -> {"no", "unlocked", "waiting", "done"}]
  /\ waited \in [Closers -> 0..MaxRuntimes]

\* "Caller holds r.mu and has verified that no document is open": nobody who
\* is counted, waiting for a worker or with one, loses the runtime it was
\* promised, except to Close.
BorrowersKeepRuntime == \A c \in Counted : gen[c] = pool \/ closed

\* "No goroutine in this package is unowned": a runtime has its own reaper and
\* Close can find it; without a runtime the only reaper that has not begun to
\* leave is the one Close is stopping, and none is left once Close returned.
ReaperIsOwned ==
  /\ pool # 0 => handle = pool
  /\ \A g \in Runtimes :
       reaper[g] = "run" =>
         \/ handle = g /\ pool = g
         \/ \E k \in Closers : closing[k] \in {"unlocked", "waiting"} /\ waited[k] = g

\* A runtime is torn down under nobody and left to nobody.
RuntimeIsHeld == BorrowersKeepRuntime /\ ReaperIsOwned

\* A Close that has begun returns, whatever document is open.
CloseReturns == \A k \in Closers : closing[k] = "unlocked" ~> closing[k] = "done"

Runtime == INSTANCE PdfRuntime WITH serving <- pool # 0, users <- Counted, shut <- closed

\* The pool is a runtime that is up while it is used, "torn down after
\* pdf.idle_timeout with no work", and down for good once it is closed.
RunsAsPromised == Runtime!FairSpec
==============================================================================
