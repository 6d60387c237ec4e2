--------------------------- MODULE ScannerControl ---------------------------
(***************************************************************************)
(* The life of scans (internal/scanner): the permit that lets one scan run *)
(* at a time, the published status, and Start, Run, Cancel and Close, all  *)
(* of which may be called from any goroutine at any moment.                *)
(*                                                                         *)
(* A request stands for one call of Start or Run and for the scan it may   *)
(* launch: its run id, context, done channel and goroutine.  Inside run    *)
(* only what touches the status is kept; ScanPipeline models the body.     *)
(* Scanner.mu makes a critical section one action, except Cancel's, whose  *)
(* two effects a run that does not take the lock can fall between.         *)
(*                                                                         *)
(* An operator named X_Bug is X with a plausible mistake in it.  No        *)
(* specification uses it: it shows that a property can fail.               *)
(***************************************************************************)
EXTENDS FiniteSets

CONSTANTS
    Requests,  \* calls of Start and Run
    Closers,   \* calls of Close
    None       \* no request

ASSUME ControlAssumption == None \notin Requests

VARIABLES
    closed,    \* Scanner.closed
    running,   \* Scanner.running
    current,   \* the request Scanner.cancel and Scanner.done were made for
    hasCancel, \* Scanner.cancel # nil
    muHeld,    \* a Cancel that holds Scanner.mu has yet to call cancel()
    dead,      \* requests whose run context is cancelled
    ended,     \* requests whose done channel is closed
    wg,        \* requests counted in Scanner.wg
    phase,     \* ScanStatus.State
    runID,     \* ScanStatus.RunID, as a request
    finished,  \* ScanStatus.FinishedAt # nil
    kind,      \* how each request was made
    pc,        \* where each request is
    marked,    \* requests whose Result has Cancelled set
    closing,   \* where each closer is
    target     \* the request whose cancel or done a closer has in hand

permit == <<closed, running, current, hasCancel, muHeld>>
status == <<phase, runID, finished>>
close == <<closing, target>>
vars == <<permit, dead, ended, wg, status, kind, pc, marked, close>>

Phases == {"idle", "walking", "indexing", "covers", "cancelling"}
Inside == {"prepare", "roots", "covers", "hook", "finish"}
Leaving == {"release", "unlock", "signal", "leave"}
ReqStates == {"new", "acquired", "begun", "over"} \cup Inside \cup Leaving
CloseStates == {"idle", "cancel", "group", "look", "wait", "returned", "noop"}

TypeOK ==
    /\ {closed, running, hasCancel, muHeld, finished} \subseteq BOOLEAN
    /\ current \in Requests \cup {None}
    /\ runID \in Requests \cup {None}
    /\ phase \in Phases
    /\ UNION {dead, ended, wg, marked} \subseteq Requests
    /\ kind \in [Requests -> {"start", "run"}]
    /\ pc \in [Requests -> ReqStates]
    /\ closing \in [Closers -> CloseStates]
    /\ target \in [Closers -> Requests \cup {None}]

Init ==
    /\ closed = FALSE /\ running = FALSE /\ hasCancel = FALSE
    /\ muHeld = FALSE /\ finished = FALSE
    /\ current = None /\ runID = None
    /\ phase = "idle"
    /\ dead = {} /\ ended = {} /\ wg = {} /\ marked = {}
    /\ kind \in [Requests -> {"start", "run"}]
    /\ pc = [r \in Requests |-> "new"]
    /\ closing = [c \in Closers |-> "idle"]
    /\ target = [c \in Closers |-> None]

Goto(r, label) == pc' = [pc EXCEPT ![r] = label]
SetPhase(p) == phase' = p /\ UNCHANGED <<runID, finished>>

(***************************************************************************)
(* Start and Run.                                                          *)
(***************************************************************************)
\* acquire: ErrClosed and ErrBusy end the call.
Refuse(r) ==
    /\ pc[r] = "new" /\ ~muHeld
    /\ closed \/ running
    /\ Goto(r, "over")
    /\ UNCHANGED <<permit, dead, ended, wg, status, kind, marked, close>>

\* Ignores that a scan is running.
Acquire_Bug(r) ==
    /\ pc[r] = "new" /\ ~muHeld
    /\ ~closed
    /\ running' = TRUE /\ current' = r /\ hasCancel' = TRUE
    /\ Goto(r, "acquired")
    /\ UNCHANGED <<closed, muHeld, dead, ended, wg, status, kind, marked, close>>

Acquire(r) ==
    /\ pc[r] = "new" /\ ~muHeld
    /\ ~closed /\ ~running
    /\ running' = TRUE /\ current' = r /\ hasCancel' = TRUE
    /\ Goto(r, "acquired")
    /\ UNCHANGED <<closed, muHeld, dead, ended, wg, status, kind, marked, close>>

\* Returns the error without giving the permit back.
BeginFails_Bug(r) ==
    /\ pc[r] = "acquired"
    /\ Goto(r, "over")
    /\ UNCHANGED <<permit, dead, ended, wg, status, kind, marked, close>>

\* begin: a named root is unknown, and nothing is published.
BeginFails(r) ==
    /\ pc[r] = "acquired"
    /\ Goto(r, "release")
    /\ UNCHANGED <<permit, dead, ended, wg, status, kind, marked, close>>

Begin(r) ==
    /\ pc[r] = "acquired"
    /\ phase' = "walking" /\ runID' = r /\ finished' = FALSE
    /\ Goto(r, "begun")
    /\ UNCHANGED <<permit, dead, ended, wg, kind, marked, close>>

\* Start launches its goroutine and returns; Run goes on in the caller's.
Launch(r) ==
    /\ pc[r] = "begun"
    /\ wg' = IF kind[r] = "start" THEN wg \cup {r} ELSE wg
    /\ Goto(r, "prepare")
    /\ UNCHANGED <<permit, dead, ended, status, kind, marked, close>>

\* Run inherits its caller's cancellation; Start is detached from it.
CallerCancels(r) ==
    /\ kind[r] = "run" /\ pc[r] \in Inside \cup {"acquired", "begun"}
    /\ dead' = dead \cup {r}
    /\ UNCHANGED <<permit, ended, wg, status, kind, pc, marked, close>>

(***************************************************************************)
(* run.                                                                    *)
(***************************************************************************)
\* UpsertRoot or NextScanGen fails, on its own or because of ctx.
PrepareFails(r) ==
    /\ pc[r] = "prepare"
    /\ Goto(r, "finish")
    /\ UNCHANGED <<permit, dead, ended, wg, status, kind, marked, close>>

Prepare(r) ==
    /\ pc[r] = "prepare" /\ r \notin dead
    /\ SetPhase("walking")
    /\ Goto(r, "roots")
    /\ UNCHANGED <<permit, dead, ended, wg, kind, marked, close>>

\* The loop over the roots looks at ctx before each of them.
ScanRoot(r) ==
    /\ pc[r] = "roots" /\ r \notin dead
    /\ SetPhase("indexing")
    /\ UNCHANGED <<permit, dead, ended, wg, kind, pc, marked, close>>

RootsDone(r) ==
    /\ pc[r] = "roots"
    /\ Goto(r, "covers")
    /\ UNCHANGED <<permit, dead, ended, wg, status, kind, marked, close>>

\* Without a queue that reports progress the phase is left alone.
WaitForCovers(r) ==
    /\ pc[r] = "covers"
    /\ SetPhase("covers") \/ UNCHANGED status
    /\ Goto(r, "hook")
    /\ UNCHANGED <<permit, dead, ended, wg, kind, marked, close>>

AfterScan(r) ==
    /\ pc[r] = "hook"
    /\ Goto(r, "finish")
    /\ UNCHANGED <<permit, dead, ended, wg, status, kind, marked, close>>

\* A phase of its own for a finished run.
Finish_Bug(r) ==
    /\ pc[r] = "finish"
    /\ marked' = IF r \in dead THEN marked \cup {r} ELSE marked
    /\ phase' = "done" /\ finished' = TRUE /\ UNCHANGED runID
    /\ Goto(r, "release")
    /\ UNCHANGED <<permit, dead, ended, wg, kind, close>>

\* progress.finish, deferred by run.
Finish(r) ==
    /\ pc[r] = "finish"
    /\ marked' = IF r \in dead THEN marked \cup {r} ELSE marked
    /\ phase' = "idle" /\ finished' = TRUE /\ UNCHANGED runID
    /\ Goto(r, "release")
    /\ UNCHANGED <<permit, dead, ended, wg, kind, close>>

(***************************************************************************)
(* release, then wg.Done for a goroutine Start launched.                   *)
(***************************************************************************)
ReleaseContext(r) ==
    /\ pc[r] = "release"
    /\ dead' = dead \cup {r}
    /\ Goto(r, "unlock")
    /\ UNCHANGED <<permit, ended, wg, status, kind, marked, close>>

ReleasePermit(r) ==
    /\ pc[r] = "unlock" /\ ~muHeld
    /\ running' = FALSE /\ hasCancel' = FALSE
    /\ Goto(r, "signal")
    /\ UNCHANGED <<closed, current, muHeld, dead, ended, wg, status, kind, marked, close>>

\* Forgets to close the channel.
CloseDone_Bug(r) ==
    /\ pc[r] = "signal"
    /\ Goto(r, "leave")
    /\ UNCHANGED <<permit, dead, ended, wg, status, kind, marked, close>>

CloseDone(r) ==
    /\ pc[r] = "signal"
    /\ ended' = ended \cup {r}
    /\ Goto(r, "leave")
    /\ UNCHANGED <<permit, dead, wg, status, kind, marked, close>>

Leave(r) ==
    /\ pc[r] = "leave"
    /\ wg' = wg \ {r}
    /\ Goto(r, "over")
    /\ UNCHANGED <<permit, dead, ended, status, kind, marked, close>>

(***************************************************************************)
(* Cancel.                                                                 *)
(***************************************************************************)
CancelPhase ==
    /\ ~muHeld /\ running /\ hasCancel
    /\ muHeld' = TRUE
    /\ SetPhase("cancelling")
    /\ UNCHANGED <<closed, running, current, hasCancel, dead, ended, wg, kind, pc, marked, close>>

CancelContext ==
    /\ muHeld
    /\ muHeld' = FALSE
    /\ dead' = dead \cup {current}
    /\ UNCHANGED <<closed, running, current, hasCancel, ended, wg, status, kind, pc, marked, close>>

(***************************************************************************)
(* Close, and the Wait it ends with.                                       *)
(***************************************************************************)
CloseAgain(c) ==
    /\ closing[c] = "idle" /\ ~muHeld
    /\ closed
    /\ closing' = [closing EXCEPT ![c] = "noop"]
    /\ UNCHANGED <<permit, dead, ended, wg, status, kind, pc, marked, target>>

CloseMark(c) ==
    /\ closing[c] = "idle" /\ ~muHeld
    /\ ~closed
    /\ closed' = TRUE
    /\ target' = [target EXCEPT ![c] = IF hasCancel THEN current ELSE None]
    /\ closing' = [closing EXCEPT ![c] = "cancel"]
    /\ UNCHANGED <<running, current, hasCancel, muHeld, dead, ended, wg, status, kind, pc, marked>>

CloseCancel(c) ==
    /\ closing[c] = "cancel"
    /\ dead' = dead \cup ({target[c]} \ {None})
    /\ closing' = [closing EXCEPT ![c] = "group"]
    /\ UNCHANGED <<permit, ended, wg, status, kind, pc, marked, target>>

\* Takes an empty group for the end: a scan between acquire and wg.Add, or one
\* that Run launched, is not in it.
CloseGroup_Bug(c) ==
    /\ closing[c] = "group"
    /\ wg = {}
    /\ closing' = [closing EXCEPT ![c] = "returned"]
    /\ UNCHANGED <<permit, dead, ended, wg, status, kind, pc, marked, target>>

CloseGroup(c) ==
    /\ closing[c] = "group"
    /\ wg = {}
    /\ closing' = [closing EXCEPT ![c] = "look"]
    /\ UNCHANGED <<permit, dead, ended, wg, status, kind, pc, marked, target>>

CloseLook(c) ==
    /\ closing[c] = "look" /\ ~muHeld
    /\ target' = [target EXCEPT ![c] = IF running THEN current ELSE None]
    /\ closing' = [closing EXCEPT ![c] = "wait"]
    /\ UNCHANGED <<permit, dead, ended, wg, status, kind, pc, marked>>

CloseReturn(c) ==
    /\ closing[c] = "wait"
    /\ target[c] \in ended \cup {None}
    /\ closing' = [closing EXCEPT ![c] = "returned"]
    /\ UNCHANGED <<permit, dead, ended, wg, status, kind, pc, marked, target>>

-----------------------------------------------------------------------------
RequestStep(r) ==
    \/ Refuse(r) \/ Acquire(r) \/ BeginFails(r) \/ Begin(r) \/ Launch(r)
    \/ PrepareFails(r) \/ Prepare(r) \/ RootsDone(r) \/ WaitForCovers(r)
    \/ AfterScan(r) \/ Finish(r)
    \/ ReleaseContext(r) \/ ReleasePermit(r) \/ CloseDone(r) \/ Leave(r)

CloseStep(c) ==
    \/ CloseCancel(c) \/ CloseGroup(c) \/ CloseLook(c) \/ CloseReturn(c)

Next ==
    \/ \E r \in Requests : RequestStep(r) \/ ScanRoot(r) \/ CallerCancels(r)
    \/ CancelPhase \/ CancelContext
    \/ \E c \in Closers : CloseAgain(c) \/ CloseMark(c) \/ CloseStep(c)

Spec == Init /\ [][Next]_vars

\* Nobody has to call Cancel or Close, nor to make a request.  A call that was
\* made runs on, and the roots to scan are finitely many.  Two steps take
\* Scanner.mu against any number of Cancels: sync.Mutex hands itself to a waiter
\* that starves, which is strong fairness.
Scheduled(r) == pc[r] # "new" /\ RequestStep(r)

Fairness ==
    /\ \A r \in Requests : WF_vars(Scheduled(r)) /\ SF_vars(ReleasePermit(r))
    /\ WF_vars(CancelContext)
    /\ \A c \in Closers : WF_vars(CloseStep(c)) /\ SF_vars(CloseLook(c))

FairSpec == Spec /\ Fairness

-----------------------------------------------------------------------------
(***************************************************************************)
(* Properties.                                                             *)
(***************************************************************************)
Published == {"begun"} \cup Inside
Unfinished(r) == pc[r] \notin {"new", "signal", "leave", "over"}

\* From the moment a scan has begun until it finishes, the status anyone reads
\* is that scan's and is not idle: the client that polls once after its 202 and
\* stops on "idle" cannot miss it (the contract of Start's comment).
StatusIsOfTheRun ==
    \A r \in Requests : pc[r] \in Published => runID = r /\ phase # "idle"

\* When the Close that closed the scanner has returned, no scan holds the permit
\* and none can take it, so what the scan was using may be closed next, as
\* App.Close does.
CloseMeansQuiet ==
    (\E c \in Closers : closing[c] = "returned") =>
        closed /\ \A r \in Requests : ~Unfinished(r)

\* A Close that was called returns, whatever was running or starting.
CloseReturns ==
    \A c \in Closers : closing[c] = "cancel" ~> closing[c] = "returned"

\* Scanning never wedges: a permit that was taken is given back.
PermitReturns == running ~> ~running

\* Nothing wedges: a Close that was called returns and a permit that was taken is
\* given back, whoever calls Start, Run, Cancel and Close meanwhile.
NothingIsStuck == CloseReturns /\ PermitReturns

\* "There is no "done" phase: a finished run is idle with FinishedAt set" (the
\* comment on Phase).  It does not hold: Cancel finds the permit of a scan that
\* has already reported its end and publishes "cancelling" over it.
FinishedIsIdle == finished => phase = "idle"

\* "a hook that wants to skip cancelled runs can check res.Cancelled" (the
\* comment on Options.AfterScan).  It does not hold: the field is set by the
\* deferred function that runs after the hook.
HookKnowsCancelled ==
    \A r \in Requests : pc[r] = "hook" /\ r \in dead => r \in marked
=============================================================================
