--------------------------- MODULE ScannerProofs ---------------------------
(***************************************************************************)
(* The scanner's control, what a scan writes of one series, the order of   *)
(* the names it writes, and the books it makes of one container.           *)
(*                                                                         *)
(* For any number of calls of Start, Run, Cancel and Close: one scan has   *)
(* the permit, the status is that scan's, and when the Close that closed   *)
(* the scanner returns, no scan is left.                                   *)
(*                                                                         *)
(* For any series directory and any history of edits, failed scans, new    *)
(* builds and old indexes: a scan that skips what it has read leaves the   *)
(* rows a scan of everything would, and keeps what did not change.         *)
(*                                                                         *)
(* For any two names: the keys stored of them are in the order the names   *)
(* are in, and no two names are equal to it.                               *)
(*                                                                         *)
(* Of any container: every page that is due is in one book, once and in    *)
(* the order of the paths, and what is called empty is.                    *)
(***************************************************************************)
EXTENDS ScannerControl, LibraryScan, NatOrder, Contents, InductionTheorems, SequenceTheorems, FunctionTheorems

(* TypeOK, one variable at a time.                                         *)
Types ==
    /\ closed \in BOOLEAN /\ running \in BOOLEAN /\ hasCancel \in BOOLEAN
    /\ muHeld \in BOOLEAN /\ finished \in BOOLEAN
    /\ current \in Requests \cup {None} /\ runID \in Requests \cup {None}
    /\ phase \in Phases
    /\ dead \subseteq Requests /\ ended \subseteq Requests
    /\ wg \subseteq Requests /\ marked \subseteq Requests
    /\ kind \in [Requests -> {"start", "run"}]
    /\ pc \in [Requests -> ReqStates]
    /\ closing \in [Closers -> CloseStates]
    /\ target \in [Closers -> Requests \cup {None}]

(* The scan that has yet to give its permit back is the one the scanner's  *)
(* fields were set for, so there is one at most.  A Cancel between its two *)
(* effects has somebody to cancel.                                         *)
OneHolder ==
    /\ \A r \in Requests : Unfinished(r) => running /\ current = r
    /\ running \/ muHeld => current \in Requests

(* The done channel is closed after the permit is back.                    *)
DoneIsLast == \A r \in ended : pc[r] \in {"leave", "over"}

(* A closer has closed the scanner; once it has looked at the permit it    *)
(* waits for the only scan there can be.                                   *)
CloserKnows ==
    \A c \in Closers :
        /\ closing[c] \notin {"idle", "noop"} => closed
        /\ closing[c] = "wait" => \A r \in Requests : Unfinished(r) => target[c] = r
        /\ closing[c] = "returned" => \A r \in Requests : ~Unfinished(r)

IInv == Types /\ OneHolder /\ DoneIsLast /\ CloserKnows /\ StatusIsOfTheRun

-----------------------------------------------------------------------------
\* The types in the form the proofs use.
LEMMA TypesMeanTypeOK == Types <=> TypeOK
  <1>1. Types => TypeOK
    BY DEF Types, TypeOK
  <1>2. TypeOK => Types
    BY DEF Types, TypeOK
  <1>3. QED
    BY <1>1, <1>2

\* No run and no caller.
LEMMA InitIInv == Init => IInv
  <1> SUFFICES ASSUME Init PROVE IInv
    OBVIOUS
  <1>1. Types
    BY DEF Init, Types, Phases, ReqStates, CloseStates
  <1>2. OneHolder /\ StatusIsOfTheRun
    BY DEF Init, OneHolder, StatusIsOfTheRun, Unfinished, Published, Inside
  <1>3. DoneIsLast /\ CloserKnows
    BY DEF Init, DoneIsLast, CloserKnows
  <1>4. QED
    BY <1>1, <1>2, <1>3 DEF IInv

(* A scan goes on without touching the permit, and is published neither    *)
(* before nor after, or its status is left as it was.                      *)
LEMMA MoveStep ==
    ASSUME IInv, NEW r \in Requests, NEW label \in ReqStates,
           Unfinished(r), Goto(r, label), UNCHANGED <<permit, status, ended, kind, close>>,
           label \notin {"new", "signal", "leave", "over"},
           label \in Published => pc[r] \in Published,
           dead' \subseteq Requests, wg' \subseteq Requests, marked' \subseteq Requests
    PROVE  IInv'
  <1>1. /\ pc' \in [Requests -> ReqStates] /\ pc'[r] = label
        /\ \A q \in Requests : q # r => pc'[q] = pc[q]
    BY DEF Goto, IInv, Types
  <1>2. \A q \in Requests : Unfinished(q)' <=> Unfinished(q)
    BY <1>1 DEF Unfinished
  <1>3. Types'
    BY <1>1 DEF IInv, Types, permit, status, close
  <1>4. OneHolder'
    BY <1>2 DEF IInv, OneHolder, permit
  <1>5. DoneIsLast'
    BY <1>1 DEF IInv, DoneIsLast, Unfinished, Types
  <1>6. CloserKnows'
    BY <1>2 DEF IInv, CloserKnows, permit, close
  <1>7. StatusIsOfTheRun'
    BY <1>1 DEF IInv, StatusIsOfTheRun, status
  <1>8. QED
    BY <1>3, <1>4, <1>5, <1>6, <1>7 DEF IInv

(* A call that is over keeps what the others have.                         *)
LEMMA OutsideStep ==
    ASSUME IInv, NEW r \in Requests, NEW label \in {"leave", "over"},
           ~Unfinished(r), Goto(r, label), UNCHANGED <<permit, dead, status, kind, marked, close>>,
           ended' \subseteq ended \cup {r}, wg' \subseteq Requests
    PROVE  IInv'
  <1>1. /\ pc' \in [Requests -> ReqStates] /\ pc'[r] = label
        /\ \A q \in Requests : q # r => pc'[q] = pc[q]
    BY DEF Goto, IInv, Types, ReqStates, Leaving
  <1>2. \A q \in Requests : Unfinished(q)' <=> Unfinished(q)
    BY <1>1 DEF Unfinished
  <1>3. Types'
    BY <1>1 DEF IInv, Types, permit, status, close
  <1>4. OneHolder'
    BY <1>2 DEF IInv, OneHolder, permit
  <1>5. DoneIsLast'
    BY <1>1 DEF IInv, DoneIsLast, Types
  <1>6. CloserKnows'
    BY <1>2 DEF IInv, CloserKnows, permit, close
  <1>7. StatusIsOfTheRun'
    BY <1>1 DEF IInv, StatusIsOfTheRun, status, Published, Inside
  <1>8. QED
    BY <1>3, <1>4, <1>5, <1>6, <1>7 DEF IInv

(* A new scan takes the permit: nobody has it, and no closer has looked.   *)
LEMMA AcquireStep ==
    ASSUME IInv, NEW r \in Requests, Acquire(r)
    PROVE  IInv'
  <1>1. /\ pc' \in [Requests -> ReqStates] /\ pc'[r] = "acquired"
        /\ \A q \in Requests : q # r => pc'[q] = pc[q]
    BY DEF Acquire, Goto, IInv, Types, ReqStates
  <1>2. \A q \in Requests : ~Unfinished(q)
    BY DEF Acquire, IInv, OneHolder
  <1>3. \A q \in Requests : Unfinished(q)' => q = r
    BY <1>1, <1>2 DEF Unfinished
  <1>4. Types'
    BY <1>1 DEF Acquire, IInv, Types, status, close
  <1>5. OneHolder'
    BY <1>3 DEF Acquire, OneHolder
  <1>6. DoneIsLast'
    BY <1>1 DEF Acquire, IInv, DoneIsLast, Types
  <1>7. CloserKnows'
    BY DEF Acquire, IInv, CloserKnows, close
  <1>8. StatusIsOfTheRun'
    BY <1>1 DEF Acquire, IInv, StatusIsOfTheRun, status, Published, Inside
  <1>9. QED
    BY <1>4, <1>5, <1>6, <1>7, <1>8 DEF IInv

(* The scan that has the permit publishes a phase that is not idle, and is *)
(* inside the run from then on.                                            *)
LEMMA PublishStep ==
    ASSUME IInv, NEW r \in Requests, NEW label \in Published, NEW p \in Phases \ {"idle"},
           pc[r] \in {"acquired"} \cup Published,
           pc' = [pc EXCEPT ![r] = label] \/ (pc[r] = label /\ UNCHANGED pc),
           phase' = p, runID' = r, finished' \in BOOLEAN,
           UNCHANGED <<permit, dead, ended, wg, kind, marked, close>>
    PROVE  IInv'
  <1>1. /\ pc' \in [Requests -> ReqStates] /\ pc'[r] = label
        /\ \A q \in Requests : q # r => pc'[q] = pc[q]
    BY DEF IInv, Types, ReqStates, Published
  <1>2. \A q \in Requests : Unfinished(q)' <=> Unfinished(q)
    BY <1>1 DEF Unfinished, Published, Inside
  <1>3. \A q \in Requests : Unfinished(q) => q = r
    BY DEF IInv, OneHolder, Unfinished, Published, Inside
  <1>4. Types'
    BY <1>1 DEF IInv, Types, permit, close
  <1>5. OneHolder'
    BY <1>2 DEF IInv, OneHolder, permit
  <1>6. DoneIsLast'
    BY <1>1 DEF IInv, DoneIsLast, Types, Published, Inside
  <1>7. CloserKnows'
    BY <1>2 DEF IInv, CloserKnows, permit, close
  <1>8. StatusIsOfTheRun'
    BY <1>1, <1>3 DEF IInv, StatusIsOfTheRun, Unfinished, Published, Inside
  <1>9. QED
    BY <1>4, <1>5, <1>6, <1>7, <1>8 DEF IInv

(* The run ends: its status is idle, and nobody else's was published.      *)
LEMMA FinishStep ==
    ASSUME IInv, NEW r \in Requests, Finish(r)
    PROVE  IInv'
  <1>1. /\ pc' \in [Requests -> ReqStates] /\ pc'[r] = "release"
        /\ \A q \in Requests : q # r => pc'[q] = pc[q]
    BY DEF Finish, Goto, IInv, Types, ReqStates, Leaving
  <1>2. \A q \in Requests : Unfinished(q)' <=> Unfinished(q)
    BY <1>1 DEF Finish, Unfinished
  <1>3. \A q \in Requests : Unfinished(q) => q = r
    BY DEF Finish, IInv, OneHolder, Unfinished
  <1>4. Types'
    BY <1>1 DEF Finish, IInv, Types, permit, close, Phases
  <1>5. OneHolder'
    BY <1>2 DEF Finish, IInv, OneHolder, permit
  <1>6. DoneIsLast'
    BY <1>1 DEF Finish, IInv, DoneIsLast, Types
  <1>7. CloserKnows'
    BY <1>2 DEF Finish, IInv, CloserKnows, permit, close
  <1>8. StatusIsOfTheRun'
    BY <1>1, <1>3 DEF StatusIsOfTheRun, Unfinished, Published, Inside
  <1>9. QED
    BY <1>4, <1>5, <1>6, <1>7, <1>8 DEF IInv

(* The permit comes back: no scan is unfinished now.                       *)
LEMMA ReleaseStep ==
    ASSUME IInv, NEW r \in Requests, ReleasePermit(r)
    PROVE  IInv'
  <1>1. /\ pc' \in [Requests -> ReqStates] /\ pc'[r] = "signal"
        /\ \A q \in Requests : q # r => pc'[q] = pc[q]
    BY DEF ReleasePermit, Goto, IInv, Types, ReqStates, Leaving
  <1>2. \A q \in Requests : ~Unfinished(q)'
    BY <1>1 DEF ReleasePermit, IInv, OneHolder, Unfinished
  <1>3. Types'
    BY <1>1 DEF ReleasePermit, IInv, Types, status, close
  <1>4. OneHolder'
    BY <1>2 DEF ReleasePermit, IInv, OneHolder
  <1>5. DoneIsLast'
    BY <1>1 DEF ReleasePermit, IInv, DoneIsLast, Types
  <1>6. CloserKnows'
    BY <1>2 DEF ReleasePermit, IInv, CloserKnows, close
  <1>7. StatusIsOfTheRun'
    BY <1>2 DEF StatusIsOfTheRun, Unfinished, Published, Inside
  <1>8. QED
    BY <1>3, <1>4, <1>5, <1>6, <1>7 DEF IInv

(* Cancel publishes over whatever phase there is, and only cancels.        *)
LEMMA CancelStep ==
    ASSUME IInv, CancelPhase \/ CancelContext
    PROVE  IInv'
  <1>1. Types'
    BY DEF CancelPhase, CancelContext, SetPhase, IInv, Types, OneHolder, close, status, Phases
  <1>2. OneHolder'
    BY DEF CancelPhase, CancelContext, IInv, OneHolder, Unfinished
  <1>3. DoneIsLast' /\ CloserKnows'
    BY DEF CancelPhase, CancelContext, IInv, DoneIsLast, CloserKnows, Unfinished, close
  <1>4. StatusIsOfTheRun'
    BY DEF CancelPhase, CancelContext, SetPhase, IInv, StatusIsOfTheRun, status
  <1>5. QED
    BY <1>1, <1>2, <1>3, <1>4 DEF IInv

(* Close.  From the look at the permit to the end of the wait there is one *)
(* scan at most, and its done channel is closed after it gave the permit   *)
(* back.                                                                   *)
LEMMA CloseSteps ==
    ASSUME IInv, NEW c \in Closers, CloseAgain(c) \/ CloseMark(c) \/ CloseStep(c)
    PROVE  IInv'
  <1>1. Types'
    <2>1. CASE CloseAgain(c) \/ CloseMark(c)
      BY <2>1 DEF CloseAgain, CloseMark, IInv, Types, permit, status, CloseStates
    <2>2. CASE CloseCancel(c) \/ CloseGroup(c)
      BY <2>2 DEF CloseCancel, CloseGroup, IInv, Types, permit, status, CloseStates
    <2>3. CASE CloseLook(c) \/ CloseReturn(c)
      BY <2>3 DEF CloseLook, CloseReturn, IInv, Types, permit, status, CloseStates
    <2>4. QED
      BY <2>1, <2>2, <2>3 DEF CloseStep
  <1>2. OneHolder' /\ DoneIsLast' /\ StatusIsOfTheRun'
    BY DEF CloseAgain, CloseMark, CloseStep, CloseCancel, CloseGroup, CloseLook, CloseReturn,
           IInv, OneHolder, DoneIsLast, StatusIsOfTheRun, Unfinished, permit, status
  <1>3. \A r \in Requests : Unfinished(r)' <=> Unfinished(r)
    BY DEF CloseAgain, CloseMark, CloseStep, CloseCancel, CloseGroup, CloseLook, CloseReturn,
           Unfinished
  <1>4. CloserKnows'
    <2>1. CASE CloseAgain(c) \/ CloseMark(c)
      BY <2>1, <1>3 DEF CloseAgain, CloseMark, IInv, Types, CloserKnows, permit
    <2>2. CASE CloseCancel(c) \/ CloseGroup(c)
      BY <2>2, <1>3 DEF CloseCancel, CloseGroup, IInv, Types, CloserKnows, permit
    <2>3. CASE CloseLook(c)
      BY <2>3, <1>3 DEF CloseLook, IInv, Types, CloserKnows, OneHolder, permit
    <2>4. CASE CloseReturn(c)
      <3>1. \A r \in Requests : ~Unfinished(r)
        BY <2>4, ControlAssumption
          DEF CloseReturn, IInv, CloserKnows, DoneIsLast, Unfinished
      <3>2. QED
        BY <2>4, <3>1, <1>3 DEF CloseReturn, IInv, Types, CloserKnows, permit
    <2>5. QED
      BY <2>1, <2>2, <2>3, <2>4 DEF CloseStep
  <1>5. QED
    BY <1>1, <1>2, <1>4 DEF IInv

\* Every step keeps the invariant.
LEMMA NextIInv == IInv /\ [Next]_vars => IInv'
  <1> SUFFICES ASSUME IInv, [Next]_vars PROVE IInv'
    OBVIOUS
  <1>1. ASSUME NEW r \in Requests, RequestStep(r)
        PROVE  IInv'
    <2>1. CASE Refuse(r)
      <3>1. ended' \subseteq ended \cup {r} /\ wg' \subseteq Requests
        BY <2>1 DEF Refuse, IInv, Types
      <3>2. QED
        BY <2>1, <3>1, OutsideStep DEF Refuse, Unfinished
    <2>2. CASE Acquire(r)
      BY <2>2, AcquireStep
    <2>3. CASE BeginFails(r) \/ Launch(r) \/ PrepareFails(r) \/ RootsDone(r)
               \/ AfterScan(r) \/ ReleaseContext(r)
      <3>1. dead' \subseteq Requests /\ wg' \subseteq Requests /\ marked' \subseteq Requests
        BY <2>3 DEF BeginFails, Launch, PrepareFails, RootsDone, AfterScan, ReleaseContext,
                    IInv, Types
      <3>2. PICK label \in {"release", "prepare", "finish", "covers", "unlock"} :
                /\ Goto(r, label)
                /\ label \in Published => pc[r] \in Published
        BY <2>3 DEF BeginFails, Launch, PrepareFails, RootsDone, AfterScan, ReleaseContext,
                    Published, Inside
      <3>3. Unfinished(r) /\ UNCHANGED <<permit, status, ended, kind, close>>
        BY <2>3 DEF BeginFails, Launch, PrepareFails, RootsDone, AfterScan, ReleaseContext,
                    Unfinished
      <3>4. QED
        BY <3>1, <3>2, <3>3, MoveStep DEF ReqStates, Inside, Leaving
    <2>4. CASE Begin(r)
      <3>1. "walking" \in Phases \ {"idle"} /\ "begun" \in Published
        BY DEF Phases, Published
      <3>2. QED
        BY <2>4, <3>1, PublishStep DEF Begin, Goto
    <2>5. CASE Prepare(r)
      <3>1. "walking" \in Phases \ {"idle"} /\ "roots" \in Published
        BY DEF Phases, Published, Inside
      <3>2. pc[r] \in Published /\ runID = r
        BY <2>5 DEF Prepare, IInv, StatusIsOfTheRun, Published, Inside
      <3>3. finished \in BOOLEAN
        BY DEF IInv, Types
      <3>4. QED
        BY <2>5, <3>1, <3>2, <3>3, PublishStep DEF Prepare, Goto, SetPhase
    <2>6. CASE WaitForCovers(r)
      <3>1. "hook" \in Published /\ pc[r] \in Published /\ runID = r /\ phase # "idle"
        BY <2>6 DEF WaitForCovers, IInv, StatusIsOfTheRun, Published, Inside
      <3>2. PICK p \in Phases \ {"idle"} : phase' = p
        BY <2>6, <3>1 DEF WaitForCovers, SetPhase, status, IInv, Types, Phases
      <3>3. runID' = r /\ finished' \in BOOLEAN
        BY <2>6, <3>1 DEF WaitForCovers, SetPhase, status, IInv, Types
      <3>4. QED
        BY <2>6, <3>1, <3>2, <3>3, PublishStep DEF WaitForCovers, Goto
    <2>7. CASE Finish(r)
      BY <2>7, FinishStep
    <2>8. CASE ReleasePermit(r)
      BY <2>8, ReleaseStep
    <2>9. CASE CloseDone(r) \/ Leave(r)
      <3>1. ended' \subseteq ended \cup {r} /\ wg' \subseteq Requests
        BY <2>9 DEF CloseDone, Leave, IInv, Types
      <3>2. QED
        BY <2>9, <3>1, OutsideStep DEF CloseDone, Leave, Unfinished
    <2>10. QED
      BY <1>1, <2>1, <2>2, <2>3, <2>4, <2>5, <2>6, <2>7, <2>8, <2>9 DEF RequestStep
  <1>2. ASSUME NEW r \in Requests, ScanRoot(r)
        PROVE  IInv'
    <2>1. "indexing" \in Phases \ {"idle"} /\ "roots" \in Published
      BY DEF Phases, Published, Inside
    <2>2. runID = r /\ finished \in BOOLEAN
      BY <1>2 DEF ScanRoot, IInv, Types, StatusIsOfTheRun, Published, Inside
    <2>3. QED
      BY <1>2, <2>1, <2>2, PublishStep DEF ScanRoot, SetPhase
  <1>3. ASSUME NEW r \in Requests, CallerCancels(r)
        PROVE  IInv'
    BY <1>3 DEF CallerCancels, IInv, Types, OneHolder, DoneIsLast, CloserKnows,
                StatusIsOfTheRun, Unfinished, permit, status, close
  <1>4. CASE UNCHANGED vars
    BY <1>4 DEF IInv, Types, OneHolder, DoneIsLast, CloserKnows, StatusIsOfTheRun,
                Unfinished, vars, permit, status, close
  <1>5. QED
    BY <1>1, <1>2, <1>3, <1>4, CancelStep, CloseSteps DEF Next

(* The inductive invariant holds of every behaviour of the scanner.        *)
THEOREM ControlInvariant == Spec => []IInv
  <1>1. QED
    BY InitIInv, NextIInv, PTL DEF Spec

(* The types of ScannerControl's variables.                                *)
THEOREM ControlTypeOK == Spec => []TypeOK
  <1>1. IInv => TypeOK
    BY TypesMeanTypeOK DEF IInv
  <1>2. QED
    BY <1>1, ControlInvariant, PTL

(* Scanner.mu and the running flag let one scan in at a time, whoever      *)
(* calls Start, Run, Cancel and Close.                                     *)
THEOREM OneScanAtATime ==
    Spec => [](\A r, q \in Requests : Unfinished(r) /\ Unfinished(q) => r = q)
  <1>1. IInv => \A r, q \in Requests : Unfinished(r) /\ Unfinished(q) => r = q
    BY DEF IInv, OneHolder
  <1>2. QED
    BY <1>1, ControlInvariant, PTL

(* The contract of Start's comment: between begin and finish the status is *)
(* the run's own, and is not idle.                                         *)
THEOREM StatusNeverLies == Spec => []StatusIsOfTheRun
  <1>1. IInv => StatusIsOfTheRun
    BY DEF IInv
  <1>2. QED
    BY <1>1, ControlInvariant, PTL

(* App.Close may close the databases once Scanner.Close has returned.      *)
THEOREM QuietAfterClose == Spec => []CloseMeansQuiet
  <1>1. IInv => CloseMeansQuiet
    BY DEF IInv, CloserKnows, CloseMeansQuiet
  <1>2. QED
    BY <1>1, ControlInvariant, PTL
------------------------------------------------------------------------------
(* The rows of a series.  A row is written from one state of the disk and   *)
(* compared with another one: the invariant says of each row what is still  *)
(* true of it however the disk changed since, namely what its stamps, the   *)
(* length and time of a file or the fingerprint of a directory, still say   *)
(* of the files that have not been put since.                              *)

(* The file at q is the one of that length and time; the directory d has   *)
(* the children it had at that time.                                       *)
FileIs(q, s, m) == q \in DOMAIN tree /\ tree[q].size = s /\ tree[q].mtime = m
DirIs(d, m) == d \in Directories /\ dirTime[d] = m

IsPage(q) == KindOf[NameOf(q)] \in {"image", "cover", "dot"}
IsBook(q) == KindOf[NameOf(q)] \in {"zip", "pdf"}
MakesBook(q) == KindOf[NameOf(q)] \in {"zip", "pdf", "image", "cover"}

(* What a directory's own directory may hold.                              *)
HoldsBook(d) == Visited(d) /\ \E k \in Kids(tree, d) : k \in Places /\ MakesBook(k)
HoldsDirs(d) == \E k \in Kids(tree, d) : k \notin Places

(* No time on the disk is after the clock, and no length was not yet used.  *)
DiskInv ==
  /\ DOMAIN tree \subseteq Places /\ clock \in Nat /\ edits \in Nat /\ pdf \in BOOLEAN
  /\ \A q \in DOMAIN tree :
       /\ tree[q] \in [size : 0..(edits + 1), mtime : 0..clock, body : Nat, good : BOOLEAN]
       /\ KindOf[NameOf(q)] # "zip" => tree[q].good
  /\ dirTime \in [Directories -> 0..clock]

Prints == [at : Places \cup Directories, size : 0..(edits + 1), mtime : 0..clock, dir : BOOLEAN]

(* What a row is, apart from its pages.                                    *)
RowShape(id, w) ==
  /\ w = [kind |-> w.kind, size |-> w.size, mtime |-> w.mtime, fp |-> w.fp, ord |-> w.ord,
          loose |-> w.loose, status |-> w.status, version |-> w.version, pages |-> w.pages,
          label |-> w.label, dims |-> w.dims]
  /\ w.status \in {"ok", "error", "unsupported"}
  /\ w.label = "" \/ (w.label = "utf-8" /\ w.status = "ok")
  /\ w.kind = "dir" => id \in Directories /\ w.size = 0 /\ w.version = w.fp
  /\ w.kind # "dir" =>
       /\ id \in Places /\ IsBook(id) /\ w.kind = KindOf[NameOf(id)]
       /\ w.size \in 0..(edits + 1) /\ w.mtime \in 0..clock /\ w.fp = {} /\ w.loose = FALSE
       /\ w.version = {<<w.size, w.mtime>>}
  /\ w.fp \subseteq Prints
  /\ \A x \in w.fp : x.dir <=> x.at \notin Places

(* The pages of a file that was read are those of the file it still is.    *)
FilePages(id, w) ==
  w.kind # "dir" /\ w.status = "ok" =>
    /\ FileIs(id, w.size, w.mtime) => w.pages = {<<id, tree[id].body>>} /\ tree[id].good
    /\ w.kind = "pdf" => pdf

(* The pages of a directory are the images of its fingerprint, each with    *)
(* the contents it still has if it is still that file.                     *)
DirPages(id, w) ==
  w.kind = "dir" /\ w.status = "ok" =>
    /\ w.pages \subseteq Places \X Nat
    /\ \A g \in w.pages : IsPage(g[1]) /\ \E x \in w.fp : x.at = g[1]
    /\ \A x \in w.fp : ~ x.dir /\ IsPage(x.at) => \E g \in w.pages : g[1] = x.at
    /\ \A x \in w.fp, g \in w.pages :
         g[1] = x.at /\ FileIs(x.at, x.size, x.mtime) => g[2] = tree[x.at].body

(* What a directory's name says is so as far as its fingerprint shows it.  *)
DirName(id, w) ==
  w.kind = "dir" =>
    /\ w.loose \in BOOLEAN
    /\ w.loose => \/ \E x \in w.fp : ~ x.dir /\ IsBook(x.at)
                  \/ \E x \in w.fp : /\ x.dir
                                     /\ DirIs(x.at, x.mtime) => HoldsBook(x.at) \/ HoldsDirs(x.at)
    /\ ~ w.loose => /\ \A x \in w.fp : ~ x.dir => ~ IsBook(x.at)
                    /\ \A x \in w.fp : x.dir /\ DirIs(x.at, x.mtime) => ~ HoldsBook(x.at)

Right(id, w) == RowShape(id, w) /\ FilePages(id, w) /\ DirPages(id, w) /\ DirName(id, w)
RowsInv == \A id \in DOMAIN rows : Right(id, rows[id])

(* Since the last scan nothing changed that a scan looks at.               *)
CurrentInv ==
  last \in {"scan", "full", "upgrade", "measure"} =>
    /\ DOMAIN rows = {u.id : u \in collectBooks}
    /\ \A u \in collectBooks :
         /\ rows[u.id].ord = Ord(u, collectBooks)
         /\ rows[u.id].status = "ok" => fileUnchanged(u, rows[u.id])

ScanInv == DiskInv /\ RowsInv /\ CurrentInv /\ IncrementalIsFull

------------------------------------------------------------------------------
LEMMA UpTo ==
  ASSUME NEW a \in Nat, NEW b \in Nat, a <= b
  PROVE  0..a \subseteq 0..b /\ 0..(a + 1) \subseteq 0..(b + 1)
OBVIOUS

LEMMA PathFacts ==
  ASSUME NEW q \in Places
  PROVE  /\ q \in Seq(1..Len(KindOf)) /\ Len(q) \in Nat \ {0}
         /\ Front(q) \in Parents(q)
         /\ Parents(q) \subseteq Directories
         /\ q \notin Directories
         /\ \A d \in Parents(q) : /\ d \in Seq(1..Len(KindOf)) /\ Len(d) \in 0..(Len(q) - 1)
                                  /\ d = SubSeq(q, 1, Len(d))
<1>1. q \in Seq(1..Len(KindOf)) /\ Len(q) \in Nat \ {0}
  BY ScanAssumption
<1>2. Front(q) \in Parents(q)
  <2>1. Len(q) - 1 \in 0..(Len(q) - 1)
    BY <1>1
  <2> QED  BY <2>1 DEF Front, Parents
<1>3. Parents(q) \subseteq Directories
  BY DEF Directories
<1>4. q \notin Directories
  BY ScanAssumption DEF Directories
<1>5. ASSUME NEW d \in Parents(q)
      PROVE  /\ d \in Seq(1..Len(KindOf)) /\ Len(d) \in 0..(Len(q) - 1)
             /\ d = SubSeq(q, 1, Len(d))
  <2>1. PICK n \in 0..(Len(q) - 1) : d = SubSeq(q, 1, n)
    BY DEF Parents
  <2>2. \A i \in 1..n : q[i] \in 1..Len(KindOf)
    BY <1>1, <2>1
  <2>3. d \in Seq(1..Len(KindOf)) /\ Len(d) = n
    BY <1>1, <2>1, <2>2
  <2> QED  BY <2>1, <2>3
<1> QED  BY <1>1, <1>2, <1>3, <1>4, <1>5

(* The children of a directory: the files whose directory it is, and       *)
(* directories.                                                            *)
LEMMA KidFacts ==
  ASSUME NEW t, DOMAIN t \subseteq Places, NEW d \in Directories
  PROVE  /\ \A k \in Kids(t, d) : IF k \in Places THEN k \in DOMAIN t /\ d \in Parents(k) /\ Front(k) = d
                                  ELSE k \in Directories
         /\ \A q \in DOMAIN t : d \in Parents(q) =>
              LET k == SubSeq(q, 1, Len(d) + 1)
              IN  /\ k \in Kids(t, d)
                  /\ Front(q) = d => k = q
                  /\ Front(q) # d => k \in Parents(q) /\ k \notin Places
                                      /\ Len(k) = Len(d) + 1 /\ Len(k) <= Len(Front(q))
<1>1. ASSUME NEW q \in DOMAIN t, d \in Parents(q)
      PROVE  LET k == SubSeq(q, 1, Len(d) + 1)
             IN  /\ k \in Kids(t, d)
                 /\ Len(q) = Len(d) + 1 => k = q /\ Front(q) = d
                 /\ Len(q) # Len(d) + 1 => k \in Parents(q) /\ k \notin Places /\ Front(q) # d
                                            /\ Len(k) = Len(d) + 1 /\ Len(k) <= Len(Front(q))
  <2> DEFINE k == SubSeq(q, 1, Len(d) + 1)
  <2>1. q \in Places /\ q \in Seq(1..Len(KindOf)) /\ Len(q) \in Nat /\ Len(d) \in 0..(Len(q) - 1)
        /\ d = SubSeq(q, 1, Len(d))
    BY <1>1, PathFacts
  <2>2. k \in Kids(t, d)
    BY <1>1 DEF Kids
  <2>3. Front(q) = SubSeq(q, 1, Len(q) - 1) /\ Len(Front(q)) = Len(q) - 1
    <3> DEFINE n == Len(q) - 1
    <3>1. n \in Nat /\ n <= Len(q)
      BY <2>1
    <3>2. \A i \in 1..n : q[i] \in 1..Len(KindOf)
      BY <2>1, <3>1
    <3>3. Len(SubSeq(q, 1, n)) = n
      <4> HIDE DEF n
      <4>1. Len(SubSeq(q, 1, n)) = IF 1 <= n THEN n - 1 + 1 ELSE 0
        BY <3>1, <3>2, SubSeqProperties
      <4> QED  BY <3>1, <4>1
    <3> QED  BY <3>3 DEF Front
  <2>4. ASSUME Len(q) = Len(d) + 1
        PROVE  k = q /\ Front(q) = d
    <3>1. SubSeq(q, 1, Len(q)) = q
      BY <2>1
    <3> QED  BY <2>1, <2>3, <2>4, <3>1
  <2>5. ASSUME Len(q) # Len(d) + 1
        PROVE  k \in Parents(q) /\ k \notin Places /\ Front(q) # d
               /\ Len(k) = Len(d) + 1 /\ Len(k) <= Len(Front(q))
    <3>1. Len(d) + 1 \in 0..(Len(q) - 1)
      BY <2>1, <2>5
    <3>2. k \in Parents(q)
      BY <3>1 DEF Parents
    <3>3. Len(k) = Len(d) + 1
      BY <2>1, <3>1
    <3>4. k \notin Places
      BY ScanAssumption, <3>2
    <3>5. Front(q) # d /\ Len(k) <= Len(Front(q))
      BY <2>1, <2>3, <2>5, <3>1, <3>3
    <3> QED  BY <3>2, <3>3, <3>4, <3>5
  <2> QED  BY <2>2, <2>4, <2>5
<1>2. ASSUME NEW k \in Kids(t, d)
      PROVE  IF k \in Places THEN k \in DOMAIN t /\ d \in Parents(k) /\ Front(k) = d
             ELSE k \in Directories
  <2>1. PICK q \in DOMAIN t : d \in Parents(q) /\ k = SubSeq(q, 1, Len(d) + 1)
    BY DEF Kids
  <2>2. q \in Places
    BY <2>1
  <2>3. CASE Len(q) = Len(d) + 1
    BY <1>1, <2>1, <2>2, <2>3
  <2>4. CASE Len(q) # Len(d) + 1
    BY <1>1, <2>1, <2>2, <2>4, PathFacts
  <2> QED  BY <2>3, <2>4
<1>3. ASSUME NEW q \in DOMAIN t, d \in Parents(q)
      PROVE  LET k == SubSeq(q, 1, Len(d) + 1)
             IN  /\ k \in Kids(t, d)
                 /\ Front(q) = d => k = q
                 /\ Front(q) # d => k \in Parents(q) /\ k \notin Places
                                     /\ Len(k) = Len(d) + 1 /\ Len(k) <= Len(Front(q))
  BY <1>1, <1>3
<1> QED  BY <1>2, <1>3

(* A row's stamps are not after the clock and not longer than any file so  *)
(* far, so they are never those of a file that was put since.              *)
EditStep == \E q \in Places : Delete(q) \/ \E good \in BOOLEAN : Rewrite(q, good)

LEMMA EditIsSeen ==
  ASSUME DiskInv, ~ SameSecond, EditStep
  PROVE  /\ DiskInv'
         /\ edits' \in Nat /\ edits <= edits' /\ clock' \in Nat /\ clock <= clock'
         /\ pdf' = pdf /\ rows' = rows /\ last' = "edit"
         /\ \A q, s, m : s \in 0..(edits + 1) /\ m \in 0..clock /\ FileIs(q, s, m)' =>
              FileIs(q, s, m) /\ tree'[q] = tree[q]
         /\ \A d, m : m \in 0..clock /\ DirIs(d, m)' => DirIs(d, m) /\ Kids(tree', d) = Kids(tree, d)
<1> USE DEF DiskInv
<1> DEFINE Goal ==
         /\ DiskInv'
         /\ edits' \in Nat /\ edits <= edits' /\ clock' \in Nat /\ clock <= clock'
         /\ pdf' = pdf /\ rows' = rows /\ last' = "edit"
         /\ \A q, s, m : s \in 0..(edits + 1) /\ m \in 0..clock /\ FileIs(q, s, m)' =>
              FileIs(q, s, m) /\ tree'[q] = tree[q]
         /\ \A d, m : m \in 0..clock /\ DirIs(d, m)' => DirIs(d, m) /\ Kids(tree', d) = Kids(tree, d)
<1>1. ASSUME NEW t \in Nat, Edited(t), clock <= t,
             DOMAIN tree' \subseteq Places,
             t = clock => DOMAIN tree' = DOMAIN tree,
             \A q \in DOMAIN tree' :
               \/ q \in DOMAIN tree /\ tree'[q] = tree[q]
               \/ /\ tree'[q] \in [size : 0..(edits + 2), mtime : 0..t, body : Nat, good : BOOLEAN]
                  /\ KindOf[NameOf(q)] # "zip" => tree'[q].good
                  /\ tree'[q].size = edits + 2 \/ tree'[q].mtime = clock + 1
      PROVE  Goal
  <2>1. edits' = edits + 1 /\ clock' = t /\ last' = "edit" /\ pdf' = pdf /\ rows' = rows
        /\ dirTime' = [d \in Directories |-> IF Kids(tree, d) # Kids(tree', d) THEN t ELSE dirTime[d]]
    BY <1>1 DEF Edited
  <2>2. DiskInv'
    <3>1. ASSUME NEW q \in DOMAIN tree'
          PROVE  /\ tree'[q] \in [size : 0..(edits' + 1), mtime : 0..clock', body : Nat, good : BOOLEAN]
                 /\ KindOf[NameOf(q)] # "zip" => tree'[q].good
      <4>1. CASE q \in DOMAIN tree /\ tree'[q] = tree[q]
        <5>1. tree[q] \in [size : 0..(edits + 1), mtime : 0..clock, body : Nat, good : BOOLEAN]
          BY <4>1
        <5>2. 0..(edits + 1) \subseteq 0..(edits' + 1) /\ 0..clock \subseteq 0..clock'
          BY <1>1, <2>1
        <5> QED  BY <4>1, <5>1, <5>2
      <4>2. CASE /\ tree'[q] \in [size : 0..(edits + 2), mtime : 0..t, body : Nat, good : BOOLEAN]
                 /\ KindOf[NameOf(q)] # "zip" => tree'[q].good
        <5>1. edits' + 1 = edits + 2
          BY <2>1
        <5> QED  BY <2>1, <4>2, <5>1
      <4> QED  BY <1>1, <4>1, <4>2
    <3>2. dirTime' \in [Directories -> 0..clock']
      BY <1>1, <2>1
    <3> QED  BY <1>1, <2>1, <3>1, <3>2
  <2>3. ASSUME NEW q, NEW s, NEW m, s \in 0..(edits + 1), m \in 0..clock, FileIs(q, s, m)'
        PROVE  FileIs(q, s, m) /\ tree'[q] = tree[q]
    <3>1. q \in DOMAIN tree' /\ tree'[q].size = s /\ tree'[q].mtime = m
      BY <2>3 DEF FileIs
    <3>2. tree'[q].size # edits + 2 /\ tree'[q].mtime # clock + 1
      BY <2>3, <3>1
    <3>3. q \in DOMAIN tree /\ tree'[q] = tree[q]
      BY <1>1, <3>1, <3>2
    <3> QED  BY <3>1, <3>3 DEF FileIs
  <2>4. ASSUME NEW d, NEW m, m \in 0..clock, DirIs(d, m)'
        PROVE  DirIs(d, m) /\ Kids(tree', d) = Kids(tree, d)
    <3>1. d \in Directories /\ m = IF Kids(tree, d) # Kids(tree', d) THEN t ELSE dirTime[d]
      BY <2>1, <2>4 DEF DirIs
    <3>2. t = clock => Kids(tree, d) = Kids(tree', d)
      BY <1>1 DEF Kids
    <3> QED  BY <1>1, <2>4, <3>1, <3>2 DEF DirIs
  <2> QED  BY <1>1, <2>1, <2>2, <2>3, <2>4
<1>2. ASSUME NEW q \in Places, Delete(q)
      PROVE  Goal
  <2>1. q \in DOMAIN tree /\ tree' = [r \in DOMAIN tree \ {q} |-> tree[r]] /\ Edited(clock + 1)
    BY <1>2 DEF Delete
  <2>2. clock + 1 \in Nat /\ clock <= clock + 1 /\ clock + 1 # clock
    OBVIOUS
  <2>3. DOMAIN tree' \subseteq Places /\ \A r \in DOMAIN tree' : r \in DOMAIN tree /\ tree'[r] = tree[r]
    BY <2>1
  <2> QED  BY <1>1, <2>1, <2>2, <2>3
<1>3. ASSUME NEW q \in Places, NEW good \in BOOLEAN, Rewrite(q, good)
      PROVE  Goal
  <2>1. PICK n \in Nat, m \in Nat :
          /\ Put(q, n, m, good) /\ n <= edits + 2 /\ m <= clock + 1
          /\ m = clock + 1 \/ (n = edits + 2 /\ q \in DOMAIN tree /\ m <= clock)
    <3>1. CASE Put(q, 1, clock + 1, good)
      BY <3>1
    <3>2. CASE q \in DOMAIN tree /\ Put(q, edits + 2, tree[q].mtime, good)
      <4>1. tree[q].mtime \in 0..clock
        BY <3>2
      <4> QED  BY <3>2, <4>1
    <3> QED  BY <1>3, <3>1, <3>2 DEF Rewrite
  <2> DEFINE t == IF m > clock THEN m ELSE clock
  <2>2. /\ KindOf[NameOf(q)] # "zip" => good
        /\ tree' = [r \in DOMAIN tree \cup {q} |-> IF r = q THEN File(n, m, edits + 1, good) ELSE tree[r]]
        /\ Edited(t)
    BY <2>1 DEF Put
  <2>3. DOMAIN tree' = DOMAIN tree \cup {q}
        /\ tree'[q] = File(n, m, edits + 1, good)
        /\ \A r \in DOMAIN tree : r # q => tree'[r] = tree[r]
    BY <2>2
  <2>4. t \in Nat /\ clock <= t /\ m <= t /\ (t = clock => q \in DOMAIN tree)
    BY <2>1
  <2>5. ASSUME NEW r \in DOMAIN tree'
        PROVE  \/ r \in DOMAIN tree /\ tree'[r] = tree[r]
               \/ /\ tree'[r] \in [size : 0..(edits + 2), mtime : 0..t, body : Nat, good : BOOLEAN]
                  /\ KindOf[NameOf(r)] # "zip" => tree'[r].good
                  /\ tree'[r].size = edits + 2 \/ tree'[r].mtime = clock + 1
    <3>1. CASE r # q
      BY <2>3, <3>1
    <3>2. CASE r = q
      <4>1. n \in 0..(edits + 2) /\ m \in 0..t /\ edits + 1 \in Nat
        BY <2>1, <2>4
      <4> QED  BY <2>1, <2>2, <2>3, <3>2, <4>1 DEF File
    <3> QED  BY <3>1, <3>2
  <2>6. DOMAIN tree' \subseteq Places /\ (t = clock => DOMAIN tree' = DOMAIN tree)
    <3>1. DOMAIN tree' = DOMAIN tree \cup {q} /\ q \in Places /\ DOMAIN tree \subseteq Places
      BY <2>3
    <3> QED  BY <2>4, <3>1
  <2> QED  BY <1>1, <2>2, <2>4, <2>5, <2>6
<1> QED  BY <1>2, <1>3 DEF EditStep

LEMMA EditKeepsRows ==
  ASSUME DiskInv, RowsInv, ~ SameSecond, EditStep
  PROVE  RowsInv'
<1>1. /\ DiskInv'
      /\ edits' \in Nat /\ edits <= edits' /\ clock' \in Nat /\ clock <= clock'
      /\ pdf' = pdf /\ rows' = rows /\ last' = "edit"
      /\ \A q, s, m : s \in 0..(edits + 1) /\ m \in 0..clock /\ FileIs(q, s, m)' =>
           FileIs(q, s, m) /\ tree'[q] = tree[q]
      /\ \A d, m : m \in 0..clock /\ DirIs(d, m)' => DirIs(d, m) /\ Kids(tree', d) = Kids(tree, d)
  BY EditIsSeen
<1>2. 0..(edits + 1) \subseteq 0..(edits' + 1) /\ 0..clock \subseteq 0..clock'
  <2>1. edits \in Nat /\ clock \in Nat
    BY DEF DiskInv
  <2>2. edits' \in Nat /\ edits <= edits' /\ clock' \in Nat /\ clock <= clock'
    BY <1>1
  <2>3. 0..(edits + 1) \subseteq 0..(edits' + 1)
    BY <2>1, <2>2, UpTo
  <2>4. 0..clock \subseteq 0..clock'
    BY <2>1, <2>2, UpTo
  <2> QED  BY <2>3, <2>4
<1> SUFFICES ASSUME NEW id \in DOMAIN rows
             PROVE  Right(id, rows[id])'
  BY <1>1 DEF RowsInv
<1> DEFINE w == rows[id]
<1>3. RowShape(id, w) /\ FilePages(id, w) /\ DirPages(id, w) /\ DirName(id, w)
  BY DEF RowsInv, Right
<1>w. w' = w
  BY <1>1
<1> HIDE DEF w
<1>4. \A x \in w.fp : x.size \in 0..(edits + 1) /\ x.mtime \in 0..clock
  BY <1>3 DEF RowShape, Prints
<1>5. RowShape(id, w)'
  <2>1. Prints \subseteq Prints'
    BY <1>2 DEF Prints
  <2> QED  BY <1>w, <1>2, <1>3, <2>1 DEF RowShape, IsBook
<1>6. FilePages(id, w)'
  <2> SUFFICES ASSUME w.kind # "dir", w.status = "ok"
               PROVE  /\ FileIs(id, w.size, w.mtime)' => w.pages = {<<id, tree'[id].body>>} /\ tree'[id].good
                      /\ w.kind = "pdf" => pdf'
    BY <1>w DEF FilePages
  <2>1. w.size \in 0..(edits + 1) /\ w.mtime \in 0..clock
    BY <1>3 DEF RowShape
  <2>2. FileIs(id, w.size, w.mtime)' => FileIs(id, w.size, w.mtime) /\ tree'[id] = tree[id]
    <3>1. \A s, m : s \in 0..(edits + 1) /\ m \in 0..clock /\ FileIs(id, s, m)' =>
            FileIs(id, s, m) /\ tree'[id] = tree[id]
      BY <1>1
    <3>2. FileIs(id, w.size, w.mtime)' <=> FileIs(id, w.size, w.mtime)'
      OBVIOUS
    <3> QED  BY <1>w, <2>1, <3>1
  <2> QED  BY <1>w, <1>1, <1>3, <2>2 DEF FilePages
<1>7. DirPages(id, w)'
  <2> SUFFICES ASSUME w.kind = "dir", w.status = "ok"
               PROVE  \A x \in w.fp, g \in w.pages :
                        g[1] = x.at /\ FileIs(x.at, x.size, x.mtime)' => g[2] = tree'[x.at].body
    BY <1>w, <1>3 DEF DirPages, IsPage
  <2> QED  BY <1>1, <1>3, <1>4 DEF DirPages
<1>8. DirName(id, w)'
  <2>1. \A x \in w.fp : DirIs(x.at, x.mtime)' =>
          DirIs(x.at, x.mtime) /\ (HoldsBook(x.at)' <=> HoldsBook(x.at)) /\ (HoldsDirs(x.at)' <=> HoldsDirs(x.at))
    BY <1>1, <1>4 DEF HoldsBook, HoldsDirs, MakesBook, Visited
  <2> QED  BY <1>w, <1>3, <2>1 DEF DirName, IsBook
<1> QED  BY <1>w, <1>5, <1>6, <1>7, <1>8 DEF w, Right

------------------------------------------------------------------------------
(* The books of a walk: each is a file or a directory with images, and no   *)
(* two are at the same path.                                               *)
FileUnit(u) ==
  /\ u.id \in DOMAIN tree /\ u.id \in Places /\ IsBook(u.id)
  /\ u = fileBook(u.id)
DirUnit(u) ==
  /\ u.id \in Directories /\ u.id \notin Places /\ Visited(u.id) /\ Images(u.id) # {}
  /\ u = looseBook(u.id, Beside(u.id))

LEMMA UnitIs ==
  ASSUME DiskInv, NEW u \in collectBooks
  PROVE  FileUnit(u) \/ DirUnit(u)
<1>1. CASE u \in {fileBook(q) : q \in {r \in Met(<<>>) : KindOf[NameOf(r)] \in {"zip", "pdf"}}}
  <2>1. PICK q \in Met(<<>>) : KindOf[NameOf(q)] \in {"zip", "pdf"} /\ u = fileBook(q)
    BY <1>1
  <2>2. q \in DOMAIN tree /\ q \in Places
    BY <2>1 DEF Met, DiskInv
  <2> QED  BY <2>1, <2>2 DEF FileUnit, fileBook, IsBook
<1>2. CASE u \in {looseBook(d, Beside(d)) : d \in {e \in Directories : Visited(e) /\ IsLooseBook(e)}}
  <2>1. PICK d \in Directories : Visited(d) /\ IsLooseBook(d) /\ u = looseBook(d, Beside(d))
    BY <1>2
  <2>2. d \notin Places
    BY PathFacts
  <2> QED  BY <2>1, <2>2 DEF DirUnit, IsLooseBook, looseBook
<1> QED  BY <1>1, <1>2 DEF collectBooks

LEMMA UnitIsOne ==
  ASSUME DiskInv, NEW u \in collectBooks, NEW v \in collectBooks, u.id = v.id
  PROVE  u = v
BY UnitIs DEF FileUnit, DirUnit

(* What was written for a book is what WriteBook gives for it.              *)
LEMMA WrittenIs ==
  ASSUME DiskInv, NEW results
  PROVE  /\ DOMAIN Written(collectBooks, results) = {u.id : u \in collectBooks}
         /\ \A u \in collectBooks :
              Written(collectBooks, results)[u.id] = WriteBook(u, results[u], Ord(u, collectBooks))
<1>1. ASSUME NEW u \in collectBooks
      PROVE  (CHOOSE v \in collectBooks : v.id = u.id) = u
  <2>1. \A v \in collectBooks : v.id = u.id => v = u
    BY UnitIsOne
  <2> QED  BY <2>1
<1> QED  BY <1>1 DEF Written

(* The fingerprint of a directory with images: its images are in it, and    *)
(* it shows its files and directories as they are.                         *)
LEMMA PrintIs ==
  ASSUME DiskInv, NEW d \in Directories
  PROVE  /\ fingerprint(d) \subseteq Prints
         /\ \A x \in fingerprint(d) :
              /\ x.at \in Kids(tree, d) /\ (x.dir <=> x.at \notin Places)
              /\ IF x.at \in Places THEN FileIs(x.at, x.size, x.mtime) ELSE DirIs(x.at, x.mtime)
         /\ \A k \in Kids(tree, d) : \E x \in fingerprint(d) : x.at = k
         /\ Images(d) # {} => fingerprint(d) # {}
<1> USE DEF DiskInv
<1>1. \A k \in Kids(tree, d) : IF k \in Places THEN k \in DOMAIN tree ELSE k \in Directories
  BY KidFacts
<1>2. ASSUME NEW k \in Kids(tree, d)
      PROVE  /\ Tuple(k) \in Prints /\ Tuple(k).at = k /\ (Tuple(k).dir <=> k \notin Places)
             /\ IF k \in Places THEN FileIs(k, Tuple(k).size, Tuple(k).mtime) ELSE DirIs(k, Tuple(k).mtime)
  <2>1. Tuple(k) = [at |-> k, size |-> IF k \notin Places THEN 0 ELSE tree[k].size,
                    mtime |-> IF k \notin Places THEN dirTime[k] ELSE tree[k].mtime, dir |-> k \notin Places]
    BY DEF Tuple, IsDir, Mtime
  <2>2. CASE k \in Places
    <3>1. k \in DOMAIN tree /\ tree[k].size \in 0..(edits + 1) /\ tree[k].mtime \in 0..clock
      BY <1>1, <2>2
    <3>2. Tuple(k) = [at |-> k, size |-> tree[k].size, mtime |-> tree[k].mtime, dir |-> FALSE]
      BY <2>1, <2>2
    <3>3. Tuple(k) \in Prints
      BY <2>2, <3>1, <3>2 DEF Prints
    <3> QED  BY <2>2, <3>1, <3>2, <3>3 DEF FileIs
  <2>3. CASE k \notin Places
    <3>1. k \in Directories /\ dirTime[k] \in 0..clock /\ 0 \in 0..(edits + 1)
      BY <1>1, <2>3
    <3>2. Tuple(k) = [at |-> k, size |-> 0, mtime |-> dirTime[k], dir |-> TRUE]
      BY <2>1, <2>3
    <3>3. Tuple(k) \in Prints
      BY <3>1, <3>2 DEF Prints
    <3> QED  BY <2>3, <3>1, <3>2, <3>3 DEF DirIs
  <2> QED  BY <2>2, <2>3
<1>3. fingerprint(d) = {Tuple(k) : k \in Kids(tree, d)}
  BY DEF fingerprint, ChildrenOf
<1>4. Images(d) \subseteq Kids(tree, d)
  BY DEF Images, Files, ChildrenOf
<1> HIDE DEF DiskInv
<1>5. \A x \in fingerprint(d) : \E k \in Kids(tree, d) : x = Tuple(k)
  BY <1>3
<1>6. \A k \in Kids(tree, d) : Tuple(k) \in fingerprint(d)
  BY <1>3
<1> QED  BY <1>2, <1>4, <1>5, <1>6

(* The files that are pages of a directory.                                *)
LEMMA FilesIs ==
  ASSUME DiskInv, NEW d \in Directories, NEW kinds
  PROVE  Files(d, kinds) = {k \in Kids(tree, d) : k \in Places /\ KindOf[NameOf(k)] \in kinds}
BY DEF Files, ChildrenOf, IsDir

(* A directory below a directory, and what lies in it.                     *)
LEMMA GrandKids ==
  ASSUME NEW t, DOMAIN t \subseteq Places, NEW d \in Directories,
         NEW k \in Kids(t, d), k \notin Places
  PROVE  /\ k \in Directories /\ Len(k) = Len(d) + 1 /\ Len(d) \in Nat
         /\ \A q \in Places : k \in Parents(q) => d \in Parents(q)
<1>1. PICK q \in DOMAIN t : d \in Parents(q) /\ k = SubSeq(q, 1, Len(d) + 1)
  BY DEF Kids
<1>2. /\ q \in Seq(1..Len(KindOf)) /\ Len(q) \in Nat \ {0} /\ Len(d) \in 0..(Len(q) - 1)
      /\ d = SubSeq(q, 1, Len(d))
  BY <1>1, PathFacts
<1>3. k \in Directories /\ k \in Parents(q)
  <2>1. k \in Directories
    BY KidFacts
  <2>2. /\ Front(q) = d => k = q
        /\ Front(q) # d => k \in Parents(q)
    BY <1>1, KidFacts
  <2>3. q \in Places
    BY <1>1
  <2>4. k # q
    BY <2>3
  <2> QED  BY <2>1, <2>2, <2>4
<1>4. Len(k) \in 0..(Len(q) - 1) /\ k = SubSeq(q, 1, Len(k))
  BY <1>1, <1>3, PathFacts
<1> DEFINE n == Len(d)
<1>5. n \in Nat /\ n + 1 <= Len(q)
  BY <1>2
<1>6. Len(k) = n + 1 /\ \A i \in 1..(n + 1) : k[i] = q[i]
  <2>1. \A i \in 1..(n + 1) : q[i] \in 1..Len(KindOf)
    BY <1>2, <1>5
  <2>2. /\ Len(SubSeq(q, 1, n + 1)) = IF 1 <= n + 1 THEN n + 1 - 1 + 1 ELSE 0
        /\ \A i \in 1..(n + 1 - 1 + 1) : SubSeq(q, 1, n + 1)[i] = q[1 + i - 1]
    <3> HIDE DEF n
    <3> QED  BY <1>5, <2>1, SubSeqProperties
  <2> QED  BY <1>1, <1>5, <2>2
<1>7. ASSUME NEW r \in Places, k \in Parents(r)
      PROVE  d \in Parents(r)
  <2>1. /\ r \in Seq(1..Len(KindOf)) /\ Len(r) \in Nat \ {0} /\ Len(k) \in 0..(Len(r) - 1)
        /\ k = SubSeq(r, 1, Len(k))
    BY <1>7, PathFacts
  <2>2. n + 1 <= Len(r) /\ n \in 0..(Len(r) - 1)
    BY <1>5, <1>6, <2>1
  <2>3. \A i \in 1..(n + 1) : r[i] = q[i]
    <3>1. \A i \in 1..(n + 1) : r[i] \in 1..Len(KindOf)
      BY <2>1, <2>2
    <3>2. \A i \in 1..(n + 1 - 1 + 1) : SubSeq(r, 1, n + 1)[i] = r[1 + i - 1]
      <4> HIDE DEF n
      <4> QED  BY <1>5, <3>1, SubSeqProperties
    <3>3. SubSeq(r, 1, n + 1) = k
      BY <1>6, <2>1
    <3> QED  BY <1>5, <1>6, <3>2, <3>3
  <2>4. SubSeq(r, 1, n) = SubSeq(q, 1, n)
    BY <1>2, <1>5, <2>1, <2>2, <2>3
  <2>5. d = SubSeq(r, 1, n)
    BY <1>2, <2>4
  <2> QED  BY <2>2, <2>5 DEF Parents
<1> QED  BY <1>3, <1>5, <1>6, <1>7

(* What a directory has apart from its images, by its children.             *)
LEMMA BesideIs ==
  ASSUME DiskInv, NEW d \in Directories, Visited(d)
  PROVE  /\ \A k \in Kids(tree, d) : k \in Places /\ IsBook(k) => Beside(d)
         /\ \A k \in Kids(tree, d) : k \notin Places /\ HoldsBook(k) => Beside(d)
         /\ Beside(d) => \E k \in Kids(tree, d) : IF k \in Places THEN IsBook(k)
                                                  ELSE HoldsBook(k) \/ HoldsDirs(k)
         /\ Shallow(d) => \A k \in Kids(tree, d) : k \notin Places => ~ HoldsDirs(k)
<1>t. DOMAIN tree \subseteq Places
  BY DEF DiskInv
<1>1. ASSUME NEW k \in Kids(tree, d), k \in Places, IsBook(k)
      PROVE  Beside(d)
  <2>1. k \in DOMAIN tree /\ d \in Parents(k) /\ Front(k) = d
    BY <1>t, <1>1, KidFacts
  <2> QED  BY <1>1, <2>1 DEF Beside, Met, IsBook
<1>2. ASSUME NEW k \in Kids(tree, d), k \notin Places, HoldsBook(k)
      PROVE  Beside(d)
  <2>1. PICK q \in Kids(tree, k) : q \in Places /\ MakesBook(q) /\ Visited(k)
    BY <1>2 DEF HoldsBook
  <2>2. k \in Directories /\ Len(k) = Len(d) + 1 /\ Len(d) \in Nat
        /\ \A r \in Places : k \in Parents(r) => d \in Parents(r)
    BY <1>t, <1>2, GrandKids
  <2>3. q \in DOMAIN tree /\ k \in Parents(q) /\ Front(q) = k
    BY <1>t, <2>1, <2>2, KidFacts
  <2>4. q \in Met(d)
    BY <2>1, <2>2, <2>3 DEF Met
  <2>5. k # d
    BY <2>2
  <2> QED  BY <2>1, <2>3, <2>4, <2>5 DEF Beside, MakesBook
<1>3. ASSUME Beside(d)
      PROVE  \E k \in Kids(tree, d) : IF k \in Places THEN IsBook(k) ELSE HoldsBook(k) \/ HoldsDirs(k)
  <2>1. PICK q \in Met(d) : \/ KindOf[NameOf(q)] \in {"zip", "pdf"}
                            \/ KindOf[NameOf(q)] \in {"image", "cover"} /\ Front(q) # d
    BY <1>3 DEF Beside
  <2>2. q \in DOMAIN tree /\ q \in Places /\ d \in Parents(q) /\ Visited(Front(q))
    BY <1>t, <2>1 DEF Met
  <2> DEFINE k == SubSeq(q, 1, Len(d) + 1)
  <2>3. /\ k \in Kids(tree, d)
        /\ Front(q) = d => k = q
        /\ Front(q) # d => k \in Parents(q) /\ k \notin Places
    BY <1>t, <2>2, KidFacts
  <2>4. CASE Front(q) = d
    BY <2>1, <2>2, <2>3, <2>4 DEF IsBook
  <2>5. CASE Front(q) # d
    <3>1. k \in Directories
      BY <1>t, <2>3, <2>5, KidFacts
    <3> DEFINE l == SubSeq(q, 1, Len(k) + 1)
    <3>2. /\ l \in Kids(tree, k)
          /\ Front(q) = k => l = q
          /\ Front(q) # k => l \notin Places
      <4> HIDE DEF k
      <4> QED  BY <1>t, <2>2, <2>3, <2>5, <3>1, KidFacts
    <3>3. MakesBook(q)
      BY <2>1 DEF MakesBook
    <3>4. HoldsBook(k) \/ HoldsDirs(k)
      <4> HIDE DEF k
      <4> QED  BY <2>2, <3>2, <3>3 DEF HoldsBook, HoldsDirs
    <3> QED  BY <2>3, <2>5, <3>4
  <2> QED  BY <2>4, <2>5
<1>4. ASSUME Shallow(d), NEW k \in Kids(tree, d), k \notin Places, HoldsDirs(k)
      PROVE  FALSE
  <2>1. k \in Directories /\ Len(k) = Len(d) + 1 /\ Len(d) \in Nat
        /\ \A r \in Places : k \in Parents(r) => d \in Parents(r)
    BY <1>t, <1>4, GrandKids
  <2>2. PICK l \in Kids(tree, k) : l \notin Places
    BY <1>4 DEF HoldsDirs
  <2>3. PICK q \in DOMAIN tree : k \in Parents(q) /\ l = SubSeq(q, 1, Len(k) + 1)
    BY <2>2 DEF Kids
  <2>4. Front(q) # k /\ Len(l) = Len(k) + 1 /\ Len(l) <= Len(Front(q))
    <3>1. /\ Front(q) = k => l = q
          /\ Front(q) # k => Len(l) = Len(k) + 1 /\ Len(l) <= Len(Front(q))
      BY <1>t, <2>1, <2>3, KidFacts
    <3>2. q \in Places
      BY <1>t, <2>3
    <3>3. l # q
      BY <2>2, <3>2
    <3> QED  BY <3>1, <3>3
  <2>5. q \in Places /\ Len(q) \in Nat \ {0} /\ Len(Front(q)) \in 0..(Len(q) - 1)
    BY <1>t, <2>3, PathFacts
  <2>6. Len(q) <= Len(d) + 2
    BY <1>4, <2>1, <2>3, <2>5 DEF Shallow
  <2> QED  BY <2>1, <2>4, <2>5, <2>6
<1> QED  BY <1>1, <1>2, <1>3, <1>4

(* A new name is as its fingerprint shows it, and a name that is kept with  *)
(* its fingerprint is right where nothing lies deeper.                     *)
LEMMA NameIsShown ==
  ASSUME DiskInv, NEW d \in Directories, Visited(d), NEW w,
         w.fp = fingerprint(d)
  PROVE  /\ w.loose = Beside(d) => DirName(d, w)
         /\ DirName(d, w) /\ w.kind = "dir" /\ Shallow(d) => w.loose = Beside(d)
<1>1. /\ \A x \in w.fp : /\ x.at \in Kids(tree, d) /\ (x.dir <=> x.at \notin Places)
                         /\ x.at \notin Places => DirIs(x.at, x.mtime)
      /\ \A k \in Kids(tree, d) : \E x \in w.fp : x.at = k
  BY PrintIs
<1>2. /\ \A k \in Kids(tree, d) : k \in Places /\ IsBook(k) => Beside(d)
      /\ \A k \in Kids(tree, d) : k \notin Places /\ HoldsBook(k) => Beside(d)
      /\ Beside(d) => \E k \in Kids(tree, d) : IF k \in Places THEN IsBook(k)
                                               ELSE HoldsBook(k) \/ HoldsDirs(k)
      /\ Shallow(d) => \A k \in Kids(tree, d) : k \notin Places => ~ HoldsDirs(k)
  BY BesideIs
<1>3. Beside(d) \in BOOLEAN
  BY DEF Beside
<1>4. ASSUME w.loose = Beside(d)
      PROVE  DirName(d, w)
  <2>1. ASSUME Beside(d)
        PROVE  \/ \E x \in w.fp : ~ x.dir /\ IsBook(x.at)
               \/ \E x \in w.fp : /\ x.dir
                                  /\ DirIs(x.at, x.mtime) => HoldsBook(x.at) \/ HoldsDirs(x.at)
    <3>1. PICK k \in Kids(tree, d) : IF k \in Places THEN IsBook(k) ELSE HoldsBook(k) \/ HoldsDirs(k)
      BY <1>2, <2>1
    <3>2. PICK x \in w.fp : x.at = k
      BY <1>1
    <3> QED  BY <1>1, <3>1, <3>2
  <2>2. ASSUME ~ Beside(d)
        PROVE  /\ \A x \in w.fp : ~ x.dir => ~ IsBook(x.at)
               /\ \A x \in w.fp : x.dir /\ DirIs(x.at, x.mtime) => ~ HoldsBook(x.at)
    BY <1>1, <1>2, <2>2
  <2> QED  BY <1>3, <1>4, <2>1, <2>2 DEF DirName
<1>5. ASSUME DirName(d, w), w.kind = "dir", Shallow(d)
      PROVE  w.loose = Beside(d)
  <2>1. CASE w.loose = TRUE
    <3>1. \/ \E x \in w.fp : ~ x.dir /\ IsBook(x.at)
          \/ \E x \in w.fp : /\ x.dir
                             /\ DirIs(x.at, x.mtime) => HoldsBook(x.at) \/ HoldsDirs(x.at)
      BY <1>5, <2>1 DEF DirName
    <3>2. Beside(d)
      BY <1>1, <1>2, <1>5, <3>1
    <3> QED  BY <1>3, <2>1, <3>2
  <2>2. CASE w.loose = FALSE
    <3>1. /\ \A x \in w.fp : ~ x.dir => ~ IsBook(x.at)
          /\ \A x \in w.fp : x.dir /\ DirIs(x.at, x.mtime) => ~ HoldsBook(x.at)
      BY <1>5, <2>2 DEF DirName
    <3>2. ~ Beside(d)
      BY <1>1, <1>2, <1>5, <3>1
    <3> QED  BY <1>3, <2>2, <3>2
  <2> QED  BY <1>5, <2>1, <2>2 DEF DirName
<1> QED  BY <1>4, <1>5

(* What opening a book gives.                                              *)
LEMMA ListingIs ==
  ASSUME DiskInv, NEW u \in collectBooks, NEW failing
  PROVE  /\ u.id \in failing => Listing(u, failing) = [status |-> "error", pages |-> {}]
         /\ u.id \notin failing => Listing(u, failing) = Listing(u, {})
         /\ Listing(u, failing) = [status |-> Listing(u, failing).status, pages |-> Listing(u, failing).pages]
         /\ Listing(u, failing).status \in {"ok", "error", "unsupported"}
         /\ FileUnit(u) /\ Listing(u, failing).status = "ok" =>
              /\ Listing(u, failing).pages = {<<u.id, tree[u.id].body>>}
              /\ tree[u.id].good /\ (u.kind = "pdf" => pdf)
         /\ FileUnit(u) /\ tree[u.id].good /\ (u.kind = "pdf" => pdf) =>
              Listing(u, {}) = [status |-> "ok", pages |-> {<<u.id, tree[u.id].body>>}]
         /\ DirUnit(u) /\ Listing(u, failing).status = "ok" =>
              Listing(u, failing).pages = {<<c, tree[c].body>> : c \in Files(u.id, {"image", "cover", "dot"})}
         /\ DirUnit(u) =>
              Listing(u, {}) = [status |-> "ok",
                                pages |-> {<<c, tree[c].body>> : c \in Files(u.id, {"image", "cover", "dot"})}]
<1>1. CASE FileUnit(u)
  <2>1. u.kind # "dir" /\ ~ DirUnit(u)
    BY <1>1 DEF FileUnit, DirUnit, fileBook, IsBook
  <2> QED  BY <1>1, <2>1 DEF Listing
<1>2. CASE DirUnit(u)
  <2>1. u.kind = "dir" /\ ~ FileUnit(u)
    BY <1>2 DEF FileUnit, DirUnit, looseBook
  <2> QED  BY <1>2, <2>1 DEF Listing
<1> QED  BY <1>1, <1>2, UnitIs

LEMMA ReadRow ==
  ASSUME DiskInv, NEW u \in collectBooks, NEW failing, NEW ord
  PROVE  Right(u.id, Row(u, Read(u, failing), ord, Read(u, failing).pages))
<1> DEFINE l == Listing(u, failing)
           w == Row(u, Read(u, failing), ord, Read(u, failing).pages)
<1>1. w = [kind |-> u.kind, size |-> u.size, mtime |-> u.mtime, fp |-> u.fp, ord |-> ord,
           loose |-> u.loose, status |-> l.status, version |-> contentVersion(u), pages |-> l.pages,
           label |-> Label(l.status), dims |-> "none"]
  BY DEF Row, Read
<1>2. /\ l.status \in {"ok", "error", "unsupported"}
      /\ FileUnit(u) /\ l.status = "ok" =>
           l.pages = {<<u.id, tree[u.id].body>>} /\ tree[u.id].good /\ (u.kind = "pdf" => pdf)
      /\ DirUnit(u) /\ l.status = "ok" =>
           l.pages = {<<c, tree[c].body>> : c \in Files(u.id, {"image", "cover", "dot"})}
  BY ListingIs
<1>3. /\ w.kind = u.kind /\ w.size = u.size /\ w.mtime = u.mtime /\ w.fp = u.fp /\ w.loose = u.loose
      /\ w.status = l.status /\ w.version = contentVersion(u) /\ w.pages = l.pages
      /\ w.label = Label(l.status)
  BY <1>1
<1>4. w = [kind |-> w.kind, size |-> w.size, mtime |-> w.mtime, fp |-> w.fp, ord |-> w.ord,
           loose |-> w.loose, status |-> w.status, version |-> w.version, pages |-> w.pages,
           label |-> w.label, dims |-> w.dims]
  BY <1>1
<1> HIDE DEF l, w
<1>5. w.label = "" \/ (w.label = "utf-8" /\ w.status = "ok")
  BY <1>3 DEF Label
<1>6. CASE FileUnit(u)
  <2>1. /\ u.kind = KindOf[NameOf(u.id)] /\ u.size = tree[u.id].size /\ u.mtime = tree[u.id].mtime
        /\ u.fp = {} /\ u.loose = FALSE /\ u.kind # "dir" /\ u.id \in DOMAIN tree /\ u.id \in Places
        /\ IsBook(u.id)
    BY <1>6 DEF FileUnit, fileBook, IsBook
  <2>2. tree[u.id].size \in 0..(edits + 1) /\ tree[u.id].mtime \in 0..clock
    BY <2>1 DEF DiskInv
  <2>3. contentVersion(u) = {<<u.size, u.mtime>>}
    BY <2>1 DEF contentVersion
  <2>4. RowShape(u.id, w)
    BY <1>2, <1>3, <1>4, <1>5, <2>1, <2>2, <2>3 DEF RowShape
  <2>5. FilePages(u.id, w) /\ DirPages(u.id, w) /\ DirName(u.id, w)
    BY <1>2, <1>3, <1>6, <2>1 DEF FilePages, DirPages, DirName
  <2> QED  BY <2>4, <2>5 DEF Right, w
<1>7. CASE DirUnit(u)
  <2>1. /\ u.kind = "dir" /\ u.size = 0 /\ u.fp = fingerprint(u.id) /\ u.loose = Beside(u.id)
        /\ u.id \in Directories /\ u.id \notin Places /\ Visited(u.id)
    BY <1>7 DEF DirUnit, looseBook
  <2>2. contentVersion(u) = u.fp
    BY <2>1 DEF contentVersion
  <2>3. /\ u.fp \subseteq Prints
        /\ \A x \in u.fp : /\ x.at \in Kids(tree, u.id) /\ (x.dir <=> x.at \notin Places)
                           /\ x.at \in Places => FileIs(x.at, x.size, x.mtime)
        /\ \A k \in Kids(tree, u.id) : \E x \in u.fp : x.at = k
    BY <2>1, PrintIs
  <2>4. RowShape(u.id, w)
    BY <1>2, <1>3, <1>4, <1>5, <2>1, <2>2, <2>3 DEF RowShape
  <2>5. DirName(u.id, w)
    BY <1>3, <2>1, NameIsShown
  <2>6. DirPages(u.id, w)
    <3> SUFFICES ASSUME w.status = "ok"
                 PROVE  /\ w.pages \subseteq Places \X Nat
                        /\ \A g \in w.pages : IsPage(g[1]) /\ \E x \in w.fp : x.at = g[1]
                        /\ \A x \in w.fp : ~ x.dir /\ IsPage(x.at) => \E g \in w.pages : g[1] = x.at
                        /\ \A x \in w.fp, g \in w.pages :
                             g[1] = x.at /\ FileIs(x.at, x.size, x.mtime) => g[2] = tree[x.at].body
      BY DEF DirPages
    <3> DEFINE F == Files(u.id, {"image", "cover", "dot"})
    <3>1. w.pages = {<<c, tree[c].body>> : c \in F}
      BY <1>2, <1>3, <1>7
    <3>2. \A c : c \in F <=> c \in Kids(tree, u.id) /\ c \in Places /\ IsPage(c)
      BY <2>1, FilesIs DEF IsPage
    <3>3. \A c \in F : c \in DOMAIN tree /\ tree[c].body \in Nat
      <4>1. \A c \in F : c \in DOMAIN tree
        BY <2>1, <3>2, KidFacts DEF DiskInv
      <4> QED  BY <4>1 DEF DiskInv
    <3> HIDE DEF F
    <3>4. \A g \in w.pages : \E c \in F : g = <<c, tree[c].body>>
      BY <3>1
    <3>5. \A c \in F : <<c, tree[c].body>> \in w.pages
      BY <3>1
    <3> HIDE <3>1
    <3>6. ASSUME NEW g \in w.pages
          PROVE  /\ g \in Places \X Nat /\ IsPage(g[1]) /\ g[1] \in Kids(tree, u.id)
                 /\ g[2] = tree[g[1]].body
      <4>1. PICK c \in F : g = <<c, tree[c].body>>
        BY <3>4
      <4>2. g[1] = c /\ g[2] = tree[c].body
        BY <4>1
      <4> QED  BY <3>2, <3>3, <4>1, <4>2
    <3>7. ASSUME NEW g \in w.pages
          PROVE  \E x \in w.fp : x.at = g[1]
      BY <1>3, <2>3, <3>6
    <3>8. ASSUME NEW x \in w.fp, ~ x.dir, IsPage(x.at)
          PROVE  \E g \in w.pages : g[1] = x.at
      <4>1. x.at \in F
        BY <1>3, <2>3, <3>2, <3>8
      <4> QED  BY <3>5, <4>1
    <3> QED  BY <3>6, <3>7, <3>8
  <2>7. FilePages(u.id, w)
    BY <1>3, <2>1 DEF FilePages
  <2> QED  BY <2>4, <2>5, <2>6, <2>7 DEF Right, w
<1> QED  BY <1>6, <1>7, UnitIs

(* A row whose stamp is still that of its book is what reading it would     *)
(* give, apart from the time and the name of a directory.                  *)
LEMMA KeptIsRight ==
  ASSUME DiskInv, NEW u \in collectBooks, NEW w, Right(u.id, w), fileUnchanged(u, w)
  PROVE  /\ Listing(u, {}) = [status |-> "ok", pages |-> w.pages]
         /\ w.status = "ok" /\ w.kind = u.kind /\ w.size = u.size /\ w.fp = u.fp
         /\ w.version = contentVersion(u)
         /\ u.kind = "dir" \/ w.mtime = u.mtime
         /\ Shallow(u.id) => w.loose = u.loose
         /\ u.kind # "dir" => w.loose = u.loose
<1>1. w.status = "ok" /\ IF u.kind = "dir" THEN w.fp # {} /\ w.fp = u.fp
                         ELSE w.size = u.size /\ w.mtime = u.mtime
  BY DEF fileUnchanged
<1>2. RowShape(u.id, w) /\ FilePages(u.id, w) /\ DirPages(u.id, w) /\ DirName(u.id, w)
  BY DEF Right
<1>3. CASE FileUnit(u)
  <2>1. /\ u.kind = KindOf[NameOf(u.id)] /\ u.size = tree[u.id].size /\ u.mtime = tree[u.id].mtime
        /\ u.fp = {} /\ u.loose = FALSE /\ u.kind # "dir" /\ u.id \in DOMAIN tree /\ u.id \in Places
    BY <1>3 DEF FileUnit, fileBook, IsBook
  <2>2. u.id \notin Directories
    BY <2>1, PathFacts
  <2>3. w.kind # "dir"
    BY <1>2, <2>2 DEF RowShape
  <2>4. w.kind = u.kind /\ w.fp = {} /\ w.loose = FALSE /\ w.version = {<<w.size, w.mtime>>}
    BY <1>2, <2>1, <2>3 DEF RowShape
  <2>5. FileIs(u.id, w.size, w.mtime)
    BY <1>1, <2>1 DEF FileIs
  <2>6. w.pages = {<<u.id, tree[u.id].body>>} /\ tree[u.id].good /\ (u.kind = "pdf" => pdf)
    BY <1>1, <1>2, <2>3, <2>4, <2>5 DEF FilePages
  <2>7. Listing(u, {}) = [status |-> "ok", pages |-> w.pages]
    BY <1>3, <2>6, ListingIs
  <2> QED  BY <1>1, <2>1, <2>4, <2>7 DEF contentVersion
<1>4. CASE DirUnit(u)
  <2>1. /\ u.kind = "dir" /\ u.size = 0 /\ u.fp = fingerprint(u.id) /\ u.loose = Beside(u.id)
        /\ u.id \in Directories /\ u.id \notin Places /\ Visited(u.id)
    BY <1>4 DEF DirUnit, looseBook
  <2>2. w.kind = "dir" /\ w.size = 0 /\ w.version = w.fp /\ w.fp = u.fp
    BY <1>1, <1>2, <2>1 DEF RowShape
  <2>3. Shallow(u.id) => w.loose = u.loose
    BY <1>2, <2>1, <2>2, NameIsShown
  <2>4. /\ \A x \in w.fp : /\ x.at \in Kids(tree, u.id) /\ (x.dir <=> x.at \notin Places)
                           /\ x.at \in Places => FileIs(x.at, x.size, x.mtime)
        /\ \A k \in Kids(tree, u.id) : \E x \in w.fp : x.at = k
    BY <2>1, <2>2, PrintIs
  <2> DEFINE F == Files(u.id, {"image", "cover", "dot"})
  <2>5. \A c : c \in F <=> c \in Kids(tree, u.id) /\ c \in Places /\ IsPage(c)
    BY <2>1, FilesIs DEF IsPage
  <2>6. Listing(u, {}) = [status |-> "ok", pages |-> {<<c, tree[c].body>> : c \in F}]
    BY <1>4, ListingIs
  <2> HIDE DEF F
  <2>7. /\ w.pages \subseteq Places \X Nat
        /\ \A g \in w.pages : IsPage(g[1]) /\ \E x \in w.fp : x.at = g[1]
        /\ \A x \in w.fp : ~ x.dir /\ IsPage(x.at) => \E g \in w.pages : g[1] = x.at
        /\ \A x \in w.fp, g \in w.pages :
             g[1] = x.at /\ FileIs(x.at, x.size, x.mtime) => g[2] = tree[x.at].body
    BY <1>1, <1>2, <2>2 DEF DirPages
  <2>8. ASSUME NEW g \in w.pages
        PROVE  \E c \in F : g = <<c, tree[c].body>>
    <3>1. g = <<g[1], g[2]>> /\ g[1] \in Places /\ IsPage(g[1])
      BY <2>7
    <3>2. PICK x \in w.fp : x.at = g[1]
      BY <2>7
    <3>3. g[1] \in Kids(tree, u.id) /\ FileIs(x.at, x.size, x.mtime)
      BY <2>4, <3>1, <3>2
    <3> QED  BY <2>5, <2>7, <3>1, <3>2, <3>3
  <2>9. ASSUME NEW c \in F
        PROVE  <<c, tree[c].body>> \in w.pages
    <3>1. PICK x \in w.fp : x.at = c
      BY <2>4, <2>5
    <3>2. ~ x.dir /\ IsPage(x.at) /\ FileIs(x.at, x.size, x.mtime)
      BY <2>4, <2>5, <3>1
    <3>3. PICK g \in w.pages : g[1] = c
      BY <2>7, <3>1, <3>2
    <3>4. g = <<g[1], g[2]>>
      BY <2>7
    <3> QED  BY <2>7, <3>1, <3>2, <3>3, <3>4
  <2>10. w.pages = {<<c, tree[c].body>> : c \in F}
    BY <2>8, <2>9
  <2> QED  BY <1>1, <2>1, <2>2, <2>3, <2>6, <2>10 DEF contentVersion
<1> QED  BY <1>3, <1>4, UnitIs

------------------------------------------------------------------------------
(* The books and what is read of them depend on the disk alone.            *)
LEMMA SameDisk ==
  ASSUME UNCHANGED <<tree, dirTime>>
  PROVE  /\ collectBooks' = collectBooks
         /\ \A d : Shallow(d)' <=> Shallow(d)
         /\ pdf' = pdf => \A u, failing : Read(u, failing)' = Read(u, failing)
         /\ \A units, results : SeriesRow(units, results)' = SeriesRow(units, results)
<1>1. \A d : ChildrenOf(d)' = ChildrenOf(d)
  BY DEF ChildrenOf, Kids
<1>2. \A d, kinds : Files(d, kinds)' = Files(d, kinds)
  BY <1>1 DEF Files, IsDir
<1>3. \A d : Images(d)' = Images(d)
  BY <1>2 DEF Images
<1>4. \A d : Met(d)' = Met(d)
  BY DEF Met, Visited
<1>5. \A d : Beside(d)' <=> Beside(d)
  BY <1>4 DEF Beside
<1>6. \A d : IsLooseBook(d)' <=> IsLooseBook(d)
  BY <1>3, <1>5 DEF IsLooseBook
<1>7. collectBooks' = collectBooks
  BY DEF collectBooks, fileBook, looseBook, Met, Visited, Beside, IsLooseBook, Images, Files,
         ChildrenOf, Kids, Newest, Mtime, IsDir, fingerprint, Tuple
<1>8. \A d : Shallow(d)' <=> Shallow(d)
  BY DEF Shallow
<1>9. ASSUME pdf' = pdf
      PROVE  \A u, failing : Read(u, failing)' = Read(u, failing)
  BY <1>9 DEF Read, Listing, Files, ChildrenOf, Kids, IsDir, Label, contentVersion
<1>10. \A units, results : SeriesRow(units, results)' = SeriesRow(units, results)
  BY DEF SeriesRow, seriesStatus, chooseCover, coverCandidates, Images, Files, ChildrenOf, Kids, IsDir,
         HasBooksBeside
<1> QED  BY <1>7, <1>8, <1>9, <1>10

(* What a scan writes for a book: right, with its stamp, and, if nothing    *)
(* failed, what a scan of everything would write.                          *)
LEMMA IndexedIs ==
  ASSUME DiskInv, RowsInv, NEW u \in collectBooks, NEW full \in BOOLEAN, NEW failing
  PROVE  LET r == indexUnit(u, full, failing)
             known == ~ full /\ u.id \in DOMAIN rows /\ fileUnchanged(u, rows[u.id])
         IN  \/ r = Read(u, failing)
                  /\ (known => rows[u.id].label = "" /\ Listing(u, failing).status # "ok")
             \/ /\ known
                /\ r = Keep(rows[u.id], "utf-8", rows[u.id].label = "")
<1> DEFINE known == ~ full /\ u.id \in DOMAIN rows
           prior == rows[u.id]
           enc == Label(Listing(u, failing).status)
<1>1. indexUnit(u, full, failing) =
        CASE known /\ fileUnchanged(u, prior) /\ prior.label # "" -> Keep(prior, prior.label, FALSE)
          [] known /\ fileUnchanged(u, prior) /\ prior.label = "" /\ enc # "" -> Keep(prior, enc, TRUE)
          [] OTHER -> Read(u, failing)
  BY DEF indexUnit
<1>2. enc = (IF Listing(u, failing).status = "ok" THEN "utf-8" ELSE "")
  BY DEF Label
<1>3. known => prior.label \in {"", "utf-8"}
  BY DEF RowsInv, Right, RowShape
<1> HIDE DEF enc, prior, known
<1>4. CASE known /\ fileUnchanged(u, prior) /\ prior.label # ""
  <2>1. indexUnit(u, full, failing) = Keep(prior, prior.label, FALSE)
    BY <1>1, <1>4
  <2>2. prior.label = "utf-8" /\ (prior.label = "") = FALSE
    BY <1>3, <1>4
  <2> QED  BY <1>4, <2>1, <2>2 DEF known, prior
<1>5. CASE known /\ fileUnchanged(u, prior) /\ prior.label = "" /\ enc # ""
  <2>1. indexUnit(u, full, failing) = Keep(prior, enc, TRUE)
    BY <1>1, <1>5
  <2>2. enc = "utf-8" /\ (prior.label = "") = TRUE
    BY <1>2, <1>5
  <2> QED  BY <1>5, <2>1, <2>2 DEF known, prior
<1>6. CASE ~ (known /\ fileUnchanged(u, prior) /\ (prior.label # "" \/ enc # ""))
  <2>1. indexUnit(u, full, failing) = Read(u, failing)
    BY <1>1, <1>6
  <2> QED  BY <1>2, <1>6, <2>1 DEF known, prior
<1> QED  BY <1>4, <1>5, <1>6

LEMMA SeenIs ==
  ASSUME NEW id, NEW w,
         w = [kind |-> w.kind, size |-> w.size, mtime |-> w.mtime, fp |-> w.fp, ord |-> w.ord,
              loose |-> w.loose, status |-> w.status, version |-> w.version, pages |-> w.pages,
              label |-> w.label, dims |-> w.dims]
  PROVE  Seen(id, w) = [kind |-> w.kind, size |-> w.size, mtime |-> IF w.kind = "dir" THEN 0 ELSE w.mtime,
                        fp |-> w.fp, ord |-> w.ord, loose |-> Shallow(id) /\ w.loose,
                        status |-> w.status, version |-> w.version, pages |-> w.pages,
                        label |-> w.label, dims |-> "none"]
<1> DEFINE m == IF w.kind = "dir" THEN 0 ELSE w.mtime
           l == Shallow(id) /\ w.loose
           x == [w EXCEPT !.dims = "none"]
           y == [x EXCEPT !.mtime = m]
<1>1. Seen(id, w) = [w EXCEPT !.dims = "none", !.mtime = m, !.loose = l]
  BY DEF Seen
<1> HIDE DEF m, l
<1>2. Seen(id, w) = [y EXCEPT !.loose = l]
  BY <1>1
<1>3. x = [kind |-> w.kind, size |-> w.size, mtime |-> w.mtime, fp |-> w.fp, ord |-> w.ord,
           loose |-> w.loose, status |-> w.status, version |-> w.version, pages |-> w.pages,
           label |-> w.label, dims |-> "none"]
  OBVIOUS
<1> HIDE DEF x
<1>4. y = [kind |-> w.kind, size |-> w.size, mtime |-> m, fp |-> w.fp, ord |-> w.ord,
           loose |-> w.loose, status |-> w.status, version |-> w.version, pages |-> w.pages,
           label |-> w.label, dims |-> "none"]
  BY <1>3
<1> HIDE DEF y
<1>5. [y EXCEPT !.loose = l]
        = [kind |-> w.kind, size |-> w.size, mtime |-> m, fp |-> w.fp, ord |-> w.ord, loose |-> l,
           status |-> w.status, version |-> w.version, pages |-> w.pages, label |-> w.label,
           dims |-> "none"]
  BY <1>4
<1> QED  BY <1>2, <1>5 DEF m, l

LEMMA WriteIs ==
  ASSUME DiskInv, RowsInv, NEW u \in collectBooks, NEW full \in BOOLEAN, NEW failing,
         NEW ord
  PROVE  LET r == indexUnit(u, full, failing)
             w == WriteBook(u, r, ord)
             f == Read(u, {})
         IN  /\ Right(u.id, w) /\ w.ord = ord
             /\ w.status = "ok" => fileUnchanged(u, w)
             /\ failing = {} =>
                  /\ r.status = f.status /\ r.pages = f.pages
                  /\ Seen(u.id, w) = Seen(u.id, Row(u, f, ord, f.pages))
<1> DEFINE r == indexUnit(u, full, failing)
           w == WriteBook(u, r, ord)
           f == Read(u, {})
           prior == rows[u.id]
<1>1. CASE r = Read(u, failing)
  <2>1. r.skipped = FALSE
    BY <1>1 DEF Read
  <2>2. w = Row(u, Read(u, failing), ord, Read(u, failing).pages)
    BY <1>1, <2>1 DEF WriteBook
  <2>3. Right(u.id, w)
    BY <2>2, ReadRow
  <2>4. w.ord = ord /\ w.status = Read(u, failing).status /\ w.size = u.size /\ w.mtime = u.mtime /\ w.fp = u.fp
    BY <2>2 DEF Row
  <2>5. w.status = "ok" => fileUnchanged(u, w)
    <3>1. u.kind = "dir" => u.fp # {}
      <4>1. CASE FileUnit(u)
        BY <4>1 DEF FileUnit, fileBook, IsBook
      <4>2. CASE DirUnit(u)
        BY <4>2, PrintIs DEF DirUnit, looseBook
      <4> QED  BY <4>1, <4>2, UnitIs
    <3> QED  BY <2>4, <3>1 DEF fileUnchanged
  <2>6. ASSUME failing = {}
        PROVE  r.status = f.status /\ r.pages = f.pages /\ Seen(u.id, w) = Seen(u.id, Row(u, f, ord, f.pages))
    BY <1>1, <2>2, <2>6
  <2> QED  BY <2>3, <2>4, <2>5, <2>6
<1>2. CASE /\ u.id \in DOMAIN rows /\ fileUnchanged(u, prior)
           /\ r = Keep(prior, "utf-8", prior.label = "")
  <2>1. r.skipped /\ r.label = "utf-8" /\ r.status = prior.status /\ r.pages = prior.pages
        /\ r.version = prior.version /\ r.dims = prior.dims
    <3>1. r = [status |-> prior.status, pages |-> prior.pages, version |-> prior.version,
               label |-> "utf-8", dims |-> prior.dims, skipped |-> TRUE, opened |-> (prior.label = "")]
      BY <1>2 DEF Keep
    <3> HIDE DEF r, prior
    <3> QED  BY <3>1
  <2>2. Right(u.id, prior)
    BY <1>2 DEF RowsInv
  <2>3. /\ Listing(u, {}) = [status |-> "ok", pages |-> prior.pages]
        /\ prior.status = "ok" /\ prior.kind = u.kind /\ prior.size = u.size /\ prior.fp = u.fp
        /\ prior.version = contentVersion(u)
        /\ u.kind = "dir" \/ prior.mtime = u.mtime
        /\ Shallow(u.id) => prior.loose = u.loose
        /\ u.kind # "dir" => prior.loose = u.loose
    BY <1>2, <2>2, KeptIsRight
  <2>4. prior = [kind |-> prior.kind, size |-> prior.size, mtime |-> prior.mtime, fp |-> prior.fp,
                 ord |-> prior.ord, loose |-> prior.loose, status |-> prior.status,
                 version |-> prior.version, pages |-> prior.pages, label |-> prior.label,
                 dims |-> prior.dims]
    BY <2>2 DEF Right, RowShape
  <2>5. w = IF prior.ord = ord THEN [prior EXCEPT !.label = "utf-8"] ELSE Row(u, r, ord, prior.pages)
    BY <2>1 DEF WriteBook
  <2>6. /\ w = [kind |-> u.kind, size |-> u.size, mtime |-> w.mtime, fp |-> u.fp,
                ord |-> ord, loose |-> w.loose, status |-> "ok",
                version |-> prior.version, pages |-> prior.pages, label |-> "utf-8",
                dims |-> prior.dims]
        /\ \/ w.mtime = u.mtime /\ w.loose = u.loose
           \/ w.mtime = prior.mtime /\ w.loose = prior.loose
    <3>1. CASE prior.ord = ord
      <4>1. w = [kind |-> prior.kind, size |-> prior.size, mtime |-> prior.mtime, fp |-> prior.fp,
                 ord |-> prior.ord, loose |-> prior.loose, status |-> prior.status,
                 version |-> prior.version, pages |-> prior.pages, label |-> "utf-8",
                 dims |-> prior.dims]
        BY <2>4, <2>5, <3>1
      <4>2. w.mtime = prior.mtime /\ w.loose = prior.loose
        BY <4>1
      <4> HIDE DEF w, prior
      <4> QED  BY <2>3, <3>1, <4>1, <4>2
    <3>2. CASE prior.ord # ord
      <4>1. w = [kind |-> u.kind, size |-> u.size, mtime |-> u.mtime, fp |-> u.fp,
                 ord |-> ord, loose |-> u.loose, status |-> prior.status,
                 version |-> prior.version, pages |-> prior.pages, label |-> "utf-8",
                 dims |-> prior.dims]
        BY <2>1, <2>5, <3>2 DEF Row
      <4>2. w.mtime = u.mtime /\ w.loose = u.loose
        BY <4>1
      <4> HIDE DEF w, prior
      <4> QED  BY <2>3, <4>1, <4>2
    <3> QED  BY <3>1, <3>2
  <2> HIDE DEF w, prior, r
  <2>7. /\ w.kind = u.kind /\ w.size = u.size /\ w.fp = u.fp /\ w.ord = ord /\ w.status = "ok"
        /\ w.version = prior.version /\ w.pages = prior.pages /\ w.label = "utf-8" /\ w.dims = prior.dims
    BY <2>6
  <2>8. u.kind = "dir" \/ (w.mtime = u.mtime /\ w.loose = u.loose)
    BY <2>3, <2>6
  <2>9. Shallow(u.id) => w.loose = u.loose
    BY <2>3, <2>6
  <2>10. fileUnchanged(u, w)
    BY <1>2, <2>3, <2>7, <2>8 DEF fileUnchanged
  <2>11. RowShape(u.id, w)
    <3>1. w = [kind |-> w.kind, size |-> w.size, mtime |-> w.mtime, fp |-> w.fp, ord |-> w.ord,
               loose |-> w.loose, status |-> w.status, version |-> w.version, pages |-> w.pages,
               label |-> w.label, dims |-> w.dims]
      BY <2>6, <2>7
    <3>2. RowShape(u.id, prior)
      BY <2>2 DEF Right
    <3>3. u.kind # "dir" => w.mtime = prior.mtime /\ w.loose = prior.loose
      BY <2>3, <2>8
    <3> QED  BY <2>3, <2>7, <3>1, <3>2, <3>3 DEF RowShape
  <2>12. FilePages(u.id, w)
    <3>1. FilePages(u.id, prior)
      BY <2>2 DEF Right
    <3>2. u.kind # "dir" => w.mtime = prior.mtime
      BY <2>3, <2>8
    <3> QED  BY <2>3, <2>7, <3>1, <3>2 DEF FilePages
  <2>13. DirPages(u.id, w)
    <3>1. DirPages(u.id, prior)
      BY <2>2 DEF Right
    <3> QED  BY <2>3, <2>7, <3>1 DEF DirPages
  <2>14. DirName(u.id, w)
    <3>1. CASE w.loose = prior.loose
      <4>1. DirName(u.id, prior)
        BY <2>2 DEF Right
      <4> QED  BY <2>3, <2>7, <3>1, <4>1 DEF DirName
    <3>2. CASE w.loose = u.loose
      <4>1. CASE u.kind # "dir"
        BY <2>7, <4>1 DEF DirName
      <4>2. CASE u.kind = "dir"
        <5>1. DirUnit(u)
          BY <4>2, UnitIs DEF FileUnit, fileBook, IsBook
        <5>2. u.id \in Directories /\ Visited(u.id) /\ u.fp = fingerprint(u.id) /\ u.loose = Beside(u.id)
          BY <5>1 DEF DirUnit, looseBook
        <5> QED  BY <2>7, <3>2, <5>2, NameIsShown
      <4> QED  BY <4>1, <4>2
    <3> QED  BY <2>6, <3>1, <3>2
  <2>15. f = [status |-> "ok", pages |-> prior.pages, version |-> contentVersion(u),
              label |-> "utf-8", dims |-> "none", skipped |-> FALSE, opened |-> TRUE]
    <3>1. Listing(u, {}).status = "ok" /\ Listing(u, {}).pages = prior.pages /\ Label("ok") = "utf-8"
      BY <2>3 DEF Label
    <3> QED  BY <3>1 DEF Read
  <2>16. r.status = f.status /\ r.pages = f.pages
    BY <2>1, <2>3, <2>15
  <2>17. Seen(u.id, w) = Seen(u.id, Row(u, f, ord, f.pages))
    <3> DEFINE v == Row(u, f, ord, f.pages)
    <3>1. v = [kind |-> u.kind, size |-> u.size, mtime |-> u.mtime, fp |-> u.fp, ord |-> ord,
               loose |-> u.loose, status |-> "ok", version |-> prior.version, pages |-> prior.pages,
               label |-> "utf-8", dims |-> "none"]
      BY <2>3, <2>15 DEF Row
    <3>2. (Shallow(u.id) /\ w.loose) = (Shallow(u.id) /\ u.loose)
      BY <2>9
    <3>3. (IF u.kind = "dir" THEN 0 ELSE w.mtime) = (IF u.kind = "dir" THEN 0 ELSE u.mtime)
      BY <2>8
    <3>4. Seen(u.id, w)
            = [kind |-> u.kind, size |-> u.size, mtime |-> IF u.kind = "dir" THEN 0 ELSE w.mtime,
               fp |-> u.fp, ord |-> ord, loose |-> Shallow(u.id) /\ w.loose, status |-> "ok",
               version |-> prior.version, pages |-> prior.pages, label |-> "utf-8", dims |-> "none"]
      <4>1. w = [kind |-> w.kind, size |-> w.size, mtime |-> w.mtime, fp |-> w.fp, ord |-> w.ord,
                 loose |-> w.loose, status |-> w.status, version |-> w.version, pages |-> w.pages,
                 label |-> w.label, dims |-> w.dims]
        BY <2>11 DEF RowShape
      <4>2. Seen(u.id, w)
              = [kind |-> w.kind, size |-> w.size, mtime |-> IF w.kind = "dir" THEN 0 ELSE w.mtime,
                 fp |-> w.fp, ord |-> w.ord, loose |-> Shallow(u.id) /\ w.loose,
                 status |-> w.status, version |-> w.version, pages |-> w.pages,
                 label |-> w.label, dims |-> "none"]
        BY <4>1, SeenIs
      <4> QED  BY <2>7, <4>2
    <3>5. Seen(u.id, v)
            = [kind |-> u.kind, size |-> u.size, mtime |-> IF u.kind = "dir" THEN 0 ELSE u.mtime,
               fp |-> u.fp, ord |-> ord, loose |-> Shallow(u.id) /\ u.loose, status |-> "ok",
               version |-> prior.version, pages |-> prior.pages, label |-> "utf-8", dims |-> "none"]
      <4> HIDE DEF v
      <4>1. /\ v.kind = u.kind /\ v.size = u.size /\ v.mtime = u.mtime /\ v.fp = u.fp /\ v.ord = ord
            /\ v.loose = u.loose /\ v.status = "ok" /\ v.version = prior.version
            /\ v.pages = prior.pages /\ v.label = "utf-8" /\ v.dims = "none"
        BY <3>1
      <4>2. v = [kind |-> v.kind, size |-> v.size, mtime |-> v.mtime, fp |-> v.fp, ord |-> v.ord,
                 loose |-> v.loose, status |-> v.status, version |-> v.version, pages |-> v.pages,
                 label |-> v.label, dims |-> v.dims]
        BY <3>1, <4>1
      <4>3. Seen(u.id, v)
              = [kind |-> v.kind, size |-> v.size, mtime |-> IF v.kind = "dir" THEN 0 ELSE v.mtime,
                 fp |-> v.fp, ord |-> v.ord, loose |-> Shallow(u.id) /\ v.loose,
                 status |-> v.status, version |-> v.version, pages |-> v.pages,
                 label |-> v.label, dims |-> "none"]
        BY <4>2, SeenIs
      <4> QED  BY <4>1, <4>3
    <3> HIDE DEF v
    <3> QED  BY <3>2, <3>3, <3>4, <3>5 DEF v
  <2>18. Right(u.id, w)
    BY <2>11, <2>12, <2>13, <2>14 DEF Right
  <2> QED  BY <2>7, <2>10, <2>16, <2>17, <2>18 DEF w, r
<1> QED  BY <1>1, <1>2, IndexedIs

(* The series row takes of a book's result its status and its pages.        *)
LEMMA SeriesRowIs ==
  ASSUME NEW units, NEW f, NEW g, DOMAIN f = units, DOMAIN g = units,
         \A u \in units : f[u].status = g[u].status /\ f[u].pages = g[u].pages
  PROVE  SeriesRow(units, f) = SeriesRow(units, g)
<1>1. seriesStatus(f) = seriesStatus(g)
  <2>1. (\E u \in DOMAIN f : f[u].status = "ok") <=> (\E u \in DOMAIN g : g[u].status = "ok")
    OBVIOUS
  <2> QED  BY <2>1 DEF seriesStatus
<1>2. chooseCover(units, f) = chooseCover(units, g)
  <2>1. {u \in units : f[u].status = "ok" /\ f[u].pages # {}}
          = {u \in units : g[u].status = "ok" /\ g[u].pages # {}}
    OBVIOUS
  <2> QED  BY <2>1 DEF chooseCover
<1>3. [u \in units |-> IF u.size > 0 THEN u.size ELSE Cardinality(f[u].pages)]
        = [u \in units |-> IF u.size > 0 THEN u.size ELSE Cardinality(g[u].pages)]
  OBVIOUS
<1> QED  BY <1>1, <1>2, <1>3 DEF SeriesRow

(* A right row is right after a step that leaves the disk alone.            *)
LEMMA SameDiskRight ==
  ASSUME DiskInv, UNCHANGED <<tree, dirTime, clock>>, pdf => pdf', edits' = edits \/ edits' = edits + 1,
         pdf' \in BOOLEAN
  PROVE  DiskInv' /\ \A id, w : Right(id, w) => Right(id, w)'
<1>1. edits \in Nat /\ clock \in Nat
  BY DEF DiskInv
<1>2. edits' \in Nat /\ 0..(edits + 1) \subseteq 0..(edits' + 1)
  BY <1>1
<1>3. DiskInv'
  BY <1>2 DEF DiskInv
<1>4. Prints \subseteq Prints'
  BY <1>2 DEF Prints
<1>5. ASSUME NEW id, NEW w, Right(id, w)
      PROVE  Right(id, w)'
  <2>1. RowShape(id, w)'
    BY <1>2, <1>4, <1>5 DEF Right, RowShape, IsBook
  <2>2. FilePages(id, w)'
    BY <1>5 DEF Right, FilePages, FileIs
  <2>3. DirPages(id, w)'
    BY <1>5 DEF Right, DirPages, FileIs, IsPage
  <2>4. DirName(id, w)'
    BY <1>5 DEF Right, DirName, DirIs, HoldsBook, HoldsDirs, IsBook, MakesBook, Visited
  <2> QED  BY <2>1, <2>2, <2>3, <2>4 DEF Right
<1> QED  BY <1>3, <1>5

LEMMA ScanKeeps ==
  ASSUME DiskInv, RowsInv, NEW full \in BOOLEAN, NEW failing, Scan(full, failing)
  PROVE  ScanInv'
<1> DEFINE units == collectBooks
           results == [u \in units |-> indexUnit(u, full, failing)]
           whole == [u \in units |-> Read(u, {})]
<1>1. /\ rows' = Written(units, results) /\ series' = SeriesRow(units, results)
      /\ UNCHANGED <<tree, dirTime, clock, pdf>> /\ (edits' = edits \/ edits' = edits + 1)
      /\ failing # {} => last' = "failing"
  BY DEF Scan
<1>2. DiskInv' /\ \A id, w : Right(id, w) => Right(id, w)'
  BY <1>1, SameDiskRight DEF DiskInv
<1>3. /\ collectBooks' = collectBooks
      /\ \A d : Shallow(d)' <=> Shallow(d)
      /\ \A u, broken : Read(u, broken)' = Read(u, broken)
      /\ \A us, rs : SeriesRow(us, rs)' = SeriesRow(us, rs)
  BY <1>1, SameDisk
<1>4. /\ DOMAIN rows' = {u.id : u \in units}
      /\ \A u \in units : rows'[u.id] = WriteBook(u, results[u], Ord(u, units))
  BY <1>1, WrittenIs
<1>5. \A u \in units :
        /\ Right(u.id, rows'[u.id]) /\ rows'[u.id].ord = Ord(u, units)
        /\ rows'[u.id].status = "ok" => fileUnchanged(u, rows'[u.id])
        /\ failing = {} =>
             /\ results[u].status = whole[u].status /\ results[u].pages = whole[u].pages
             /\ Seen(u.id, rows'[u.id]) = Seen(u.id, Row(u, whole[u], Ord(u, units), whole[u].pages))
  BY <1>4, WriteIs
<1> HIDE DEF units, results, whole
<1>6. RowsInv'
  <2>1. \A id \in DOMAIN rows' : Right(id, rows'[id])
    BY <1>4, <1>5
  <2> QED  BY <1>2, <2>1 DEF RowsInv
<1>7. CurrentInv'
  <2>1. \A u, v, us : Ord(u, us)' = Ord(u, us) /\ (fileUnchanged(u, v)' <=> fileUnchanged(u, v))
    BY DEF Ord, Rel, Less, fileUnchanged
  <2> QED  BY <1>3, <1>4, <1>5, <2>1 DEF CurrentInv, units
<1>8. ASSUME failing = {}
      PROVE  IncrementalIsFull'
  <2>1. series' = SeriesRow(units, whole)
    BY <1>1, <1>5, <1>8, SeriesRowIs DEF results, whole
  <2>2. \A id, w : Seen(id, w)' = Seen(id, w)
    BY <1>3 DEF Seen
  <2>3. \A u, ord, r, pages : Row(u, r, ord, pages)' = Row(u, r, ord, pages)
    BY DEF Row
  <2>4. [u \in collectBooks |-> Read(u, {})]' = whole
    BY <1>3 DEF whole, units
  <2>5. \A u, us : Ord(u, us)' = Ord(u, us)
    BY DEF Ord, Rel, Less
  <2>6. collectBooks' = units
    BY <1>3 DEF units
  <2>7. SeriesRow(collectBooks, [u \in collectBooks |-> Read(u, {})])' = series'
    BY <1>3, <2>1, <2>4, <2>6
  <2>8. ASSUME NEW u \in collectBooks'
        PROVE  Seen(u.id, rows[u.id])'
                 = (LET f == [v \in collectBooks |-> Read(v, {})]
                    IN  Seen(u.id, Row(u, f[u], Ord(u, collectBooks), f[u].pages)))'
    BY <1>5, <1>8, <2>2, <2>3, <2>4, <2>5, <2>6, <2>8
  <2>9. (DOMAIN rows = {u.id : u \in collectBooks})'
    BY <1>4, <2>6
  <2> QED  BY <2>7, <2>8, <2>9 DEF IncrementalIsFull
<1> QED  BY <1>1, <1>2, <1>6, <1>7, <1>8 DEF ScanInv, IncrementalIsFull

(* A build that reads more, an index without labels, measured pages.        *)
LEMMA OthersKeep ==
  ASSUME ScanInv, NewBuild \/ OldIndex \/ Measure
  PROVE  ScanInv'
<1>1. DiskInv /\ RowsInv /\ CurrentInv
  BY DEF ScanInv
<1>2. UNCHANGED <<tree, dirTime, clock>> /\ (edits' = edits \/ edits' = edits + 1)
      /\ (pdf => pdf') /\ pdf' \in BOOLEAN
  BY <1>1 DEF NewBuild, OldIndex, Measure, DiskInv
<1>3. DiskInv' /\ \A id, w : Right(id, w) => Right(id, w)'
  BY <1>1, <1>2, SameDiskRight
<1>4. last' \notin {"scan", "full"} /\ last' \in {"edit", "upgrade", "measure"}
  BY DEF NewBuild, OldIndex, Measure
<1>5. IncrementalIsFull'
  BY <1>4 DEF IncrementalIsFull
<1>6. DOMAIN rows' = DOMAIN rows
      /\ \A id \in DOMAIN rows :
           \/ rows'[id] = rows[id]
           \/ rows'[id] = [rows[id] EXCEPT !.label = ""]
           \/ rows'[id] = [rows[id] EXCEPT !.dims = "done"]
  BY DEF NewBuild, OldIndex, Measure
<1>7. ASSUME NEW id \in DOMAIN rows
      PROVE  /\ Right(id, rows'[id]) /\ rows'[id].ord = rows[id].ord /\ rows'[id].status = rows[id].status
             /\ rows'[id].size = rows[id].size /\ rows'[id].mtime = rows[id].mtime
             /\ rows'[id].fp = rows[id].fp
  <2> DEFINE v == rows[id]
             w == rows'[id]
  <2>1. Right(id, v)
    BY <1>1 DEF RowsInv
  <2>2. v = [kind |-> v.kind, size |-> v.size, mtime |-> v.mtime, fp |-> v.fp, ord |-> v.ord,
             loose |-> v.loose, status |-> v.status, version |-> v.version, pages |-> v.pages,
             label |-> v.label, dims |-> v.dims]
    BY <2>1 DEF Right, RowShape
  <2>3. w = v \/ w = [v EXCEPT !.label = ""] \/ w = [v EXCEPT !.dims = "done"]
    BY <1>6
  <2> HIDE DEF v, w
  <2>4. PICK label, dims :
          /\ w = [kind |-> v.kind, size |-> v.size, mtime |-> v.mtime, fp |-> v.fp, ord |-> v.ord,
                  loose |-> v.loose, status |-> v.status, version |-> v.version, pages |-> v.pages,
                  label |-> label, dims |-> dims]
          /\ label = v.label \/ label = ""
    <3>1. CASE w = v
      BY <2>2, <3>1
    <3>2. CASE w = [v EXCEPT !.label = ""]
      <4>1. w = [kind |-> v.kind, size |-> v.size, mtime |-> v.mtime, fp |-> v.fp, ord |-> v.ord,
                 loose |-> v.loose, status |-> v.status, version |-> v.version, pages |-> v.pages,
                 label |-> "", dims |-> v.dims]
        BY <2>2, <3>2
      <4> QED  BY <4>1
    <3>3. CASE w = [v EXCEPT !.dims = "done"]
      <4>1. w = [kind |-> v.kind, size |-> v.size, mtime |-> v.mtime, fp |-> v.fp, ord |-> v.ord,
                 loose |-> v.loose, status |-> v.status, version |-> v.version, pages |-> v.pages,
                 label |-> v.label, dims |-> "done"]
        BY <2>2, <3>3
      <4> QED  BY <4>1
    <3> QED  BY <2>3, <3>1, <3>2, <3>3
  <2>5. /\ w.kind = v.kind /\ w.size = v.size /\ w.mtime = v.mtime /\ w.fp = v.fp /\ w.ord = v.ord
        /\ w.loose = v.loose /\ w.status = v.status /\ w.version = v.version /\ w.pages = v.pages
        /\ w.label = label /\ w.dims = dims
    BY <2>4
  <2>6. w = [kind |-> w.kind, size |-> w.size, mtime |-> w.mtime, fp |-> w.fp, ord |-> w.ord,
             loose |-> w.loose, status |-> w.status, version |-> w.version, pages |-> w.pages,
             label |-> w.label, dims |-> w.dims]
    BY <2>4, <2>5
  <2>7. RowShape(id, w)
    BY <2>1, <2>4, <2>5, <2>6 DEF Right, RowShape
  <2>8. FilePages(id, w) /\ DirPages(id, w) /\ DirName(id, w)
    BY <2>1, <2>5 DEF Right, FilePages, DirPages, DirName
  <2> QED  BY <2>5, <2>7, <2>8 DEF Right, v, w
<1>8. RowsInv'
  <2>1. \A id \in DOMAIN rows' : Right(id, rows'[id])
    BY <1>6, <1>7
  <2> QED  BY <1>3, <2>1 DEF RowsInv
<1>9. CurrentInv'
  <2>1. CASE NewBuild
    BY <2>1 DEF NewBuild, CurrentInv
  <2>2. CASE OldIndex \/ Measure
    <3>1. last \in {"scan", "full", "upgrade", "measure"}
      BY <2>2 DEF OldIndex, Measure
    <3>2. DOMAIN rows = {u.id : u \in collectBooks}
          /\ \A u \in collectBooks :
               /\ rows[u.id].ord = Ord(u, collectBooks)
               /\ rows[u.id].status = "ok" => fileUnchanged(u, rows[u.id])
      BY <1>1, <3>1 DEF CurrentInv
    <3>3. collectBooks' = collectBooks
      BY <1>2, SameDisk
    <3>4. \A u, v, us : Ord(u, us)' = Ord(u, us) /\ (fileUnchanged(u, v)' <=> fileUnchanged(u, v))
      BY DEF Ord, Rel, Less, fileUnchanged
    <3>5. ASSUME NEW u \in collectBooks
          PROVE  /\ rows'[u.id].ord = Ord(u, collectBooks)
                 /\ rows'[u.id].status = "ok" => fileUnchanged(u, rows'[u.id])
      <4>1. u.id \in DOMAIN rows
        BY <3>2
      <4>2. rows'[u.id].ord = rows[u.id].ord /\ rows'[u.id].status = rows[u.id].status
            /\ rows'[u.id].size = rows[u.id].size /\ rows'[u.id].mtime = rows[u.id].mtime
            /\ rows'[u.id].fp = rows[u.id].fp
        BY <1>7, <4>1
      <4> QED  BY <3>2, <4>2 DEF fileUnchanged
    <3> QED  BY <1>6, <3>2, <3>3, <3>4, <3>5 DEF CurrentInv
  <2> QED  BY <2>1, <2>2
<1> QED  BY <1>3, <1>5, <1>8, <1>9 DEF ScanInv

LEMMA ScanInvInit == scanInit => ScanInv
<1> SUFFICES ASSUME scanInit
             PROVE  ScanInv
  OBVIOUS
<1>1. PICK S \in SUBSET Places : tree = [p \in S |-> File(1, 1, 0, TRUE)]
  BY DEF scanInit
<1>2. dirTime = [d \in Directories |-> 1] /\ clock = 1 /\ edits = 0 /\ pdf = FALSE
      /\ rows = <<>> /\ last = "edit"
  BY DEF scanInit
<1>3. DiskInv
  <2>1. DOMAIN tree = S /\ S \subseteq Places
    BY <1>1
  <2>2. ASSUME NEW q \in DOMAIN tree
        PROVE  /\ tree[q] \in [size : 0..(edits + 1), mtime : 0..clock, body : Nat, good : BOOLEAN]
               /\ tree[q].good
    <3>1. tree[q] = [size |-> 1, mtime |-> 1, body |-> 0, good |-> TRUE]
      BY <1>1, <2>1, <2>2 DEF File
    <3>2. 1 \in 0..(edits + 1) /\ 1 \in 0..clock
      BY <1>2
    <3> QED  BY <3>1, <3>2
  <2>3. dirTime \in [Directories -> 0..clock]
    BY <1>2
  <2> QED  BY <1>2, <2>1, <2>2, <2>3 DEF DiskInv
<1>4. DOMAIN rows = {}
  BY <1>2
<1> QED  BY <1>2, <1>3, <1>4 DEF ScanInv, RowsInv, CurrentInv, IncrementalIsFull

LEMMA ScanInvNext ==
  ~ SameSecond /\ ScanInv /\ [scanNext]_scanVars => ScanInv'
<1> SUFFICES ASSUME ~ SameSecond, ScanInv, [scanNext]_scanVars
             PROVE  ScanInv'
  OBVIOUS
<1>1. DiskInv /\ RowsInv /\ CurrentInv /\ IncrementalIsFull
  BY DEF ScanInv
<1>2. CASE EditStep
  <2>1. last' = "edit" /\ DiskInv'
    BY <1>1, <1>2, EditIsSeen
  <2>2. RowsInv'
    BY <1>1, <1>2, EditKeepsRows
  <2> QED  BY <2>1, <2>2 DEF ScanInv, CurrentInv, IncrementalIsFull
<1>3. CASE \E full \in BOOLEAN : \E failing : Scan(full, failing)
  BY <1>1, <1>3, ScanKeeps
<1>4. CASE NewBuild \/ OldIndex \/ Measure
  BY <1>4, OthersKeep
<1>5. CASE UNCHANGED scanVars
  <2>1. DiskInv' /\ \A id, w : Right(id, w) => Right(id, w)'
    BY <1>1, <1>5, SameDiskRight DEF scanVars, DiskInv
  <2>2. RowsInv'
    BY <1>1, <1>5, <2>1 DEF scanVars, RowsInv
  <2>3. CurrentInv'
    <3>1. \A u, v, us : Ord(u, us)' = Ord(u, us) /\ (fileUnchanged(u, v)' <=> fileUnchanged(u, v))
      BY DEF Ord, Rel, Less, fileUnchanged
    <3> QED  BY <1>1, <1>5, <3>1, SameDisk DEF scanVars, CurrentInv
  <2>4. IncrementalIsFull'
    <3> DEFINE whole == [u \in collectBooks |-> Read(u, {})]
    <3>1. UNCHANGED <<tree, dirTime, pdf, rows, series, last>>
      BY <1>5 DEF scanVars
    <3>2. /\ collectBooks' = collectBooks
          /\ \A d : Shallow(d)' <=> Shallow(d)
          /\ \A u, failing : Read(u, failing)' = Read(u, failing)
          /\ \A units, results : SeriesRow(units, results)' = SeriesRow(units, results)
      BY <3>1, SameDisk
    <3>3. \A id, w : Seen(id, w)' = Seen(id, w)
      BY <3>2 DEF Seen
    <3>4. \A u, ord, r, pages : Row(u, r, ord, pages)' = Row(u, r, ord, pages)
      BY DEF Row
    <3>5. \A u, us : Ord(u, us)' = Ord(u, us)
      BY DEF Ord, Rel, Less
    <3>6. whole' = whole
      BY <3>2
    <3>7. SeriesRow(collectBooks, whole)' = SeriesRow(collectBooks, whole)
      BY <3>2, <3>6
    <3> QED  BY <1>1, <3>1, <3>2, <3>3, <3>4, <3>5, <3>6, <3>7 DEF IncrementalIsFull
  <2> QED  BY <2>1, <2>2, <2>3, <2>4 DEF ScanInv
<1> QED  BY <1>2, <1>3, <1>4, <1>5 DEF scanNext, EditStep

(* Every row is right, the rows are current after a scan until the next     *)
(* edit, and a scan that ended well left what one of everything would.     *)
THEOREM ScanIsInductive == ~ SameSecond => (scanSpec => []ScanInv)
<1> SUFFICES ASSUME ~ SameSecond
             PROVE  scanSpec => []ScanInv
  OBVIOUS
<1>1. scanInit => ScanInv
  BY ScanInvInit
<1>2. ScanInv /\ [scanNext]_scanVars => ScanInv'
  BY ScanInvNext
<1> QED  BY <1>1, <1>2, PTL DEF scanSpec

(* A scan that skips what it has read leaves the rows a scan of everything  *)
(* would, whatever the files, the edits, the scans that fail and their     *)
(* order: no row is kept that is not what is on the disk.                  *)
THEOREM IncrementalIsAlwaysFull == ~ SameSecond => (scanSpec => []IncrementalIsFull)
<1> SUFFICES ASSUME ~ SameSecond
             PROVE  scanSpec => []IncrementalIsFull
  OBVIOUS
<1>1. scanSpec => []ScanInv
  BY ScanIsInductive
<1>2. ScanInv => IncrementalIsFull
  BY DEF ScanInv
<1> QED  BY <1>1, <1>2, PTL

LEMMA UnchangedStep ==
  ASSUME ScanInv, scanNext
  PROVE  KeptIfUnchanged
<1> SUFFICES ASSUME last' = "scan", last \in {"scan", "full", "upgrade", "measure"}, NEW id \in DOMAIN rows,
                    rows[id].status = "ok"
             PROVE  /\ id \in DOMAIN rows'
                    /\ rows'[id] = [rows[id] EXCEPT !.label = "utf-8"]
                    /\ rows[id].label # "" => id \notin opened'
  BY DEF KeptIfUnchanged, Kept
<1>1. DiskInv /\ RowsInv /\ CurrentInv
  BY DEF ScanInv
<1>2. Scan(FALSE, {})
  <2>1. ~ EditStep /\ ~ NewBuild /\ ~ OldIndex /\ ~ Measure
    BY DEF EditStep, Delete, Rewrite, Put, Edited, NewBuild, OldIndex, Measure
  <2>2. ~ Scan(TRUE, {}) /\ \A u \in collectBooks : ~ Scan(FALSE, {u.id})
    BY DEF Scan
  <2> QED  BY <2>1, <2>2 DEF scanNext, EditStep
<1> DEFINE units == collectBooks
           results == [u \in units |-> indexUnit(u, FALSE, {})]
<1>3. PICK u \in units : u.id = id
  BY <1>1 DEF CurrentInv
<1>4. rows[id].ord = Ord(u, units) /\ fileUnchanged(u, rows[id])
  BY <1>1, <1>3 DEF CurrentInv
<1>5. Listing(u, {}).status = "ok"
  BY <1>1, <1>3, <1>4, KeptIsRight DEF RowsInv
<1>6. results[u] = Keep(rows[id], "utf-8", rows[id].label = "")
  BY <1>1, <1>3, <1>4, <1>5, IndexedIs
<1>7. rows' = Written(units, results) /\ opened' = {v.id : v \in {x \in units : results[x].opened}}
  BY <1>2 DEF Scan
<1>8. id \in DOMAIN rows' /\ rows'[id] = WriteBook(u, results[u], Ord(u, units))
  BY <1>1, <1>3, <1>7, WrittenIs
<1>9. results[u].skipped = TRUE /\ results[u].label = "utf-8" /\ results[u].opened = (rows[id].label = "")
  <2> DEFINE r == results[u]
             w == rows[id]
  <2>1. r = [status |-> w.status, pages |-> w.pages, version |-> w.version, label |-> "utf-8",
             dims |-> w.dims, skipped |-> TRUE, opened |-> (w.label = "")]
    BY <1>6 DEF Keep
  <2> HIDE DEF r, w
  <2>2. r.skipped = TRUE /\ r.label = "utf-8" /\ r.opened = (w.label = "")
    BY <2>1
  <2> QED  BY <2>2 DEF r, w
<1>10. rows'[id] = [rows[id] EXCEPT !.label = "utf-8"]
  BY <1>3, <1>4, <1>8, <1>9 DEF WriteBook
<1>11. ASSUME rows[id].label # "", id \in opened'
       PROVE  FALSE
  <2>1. PICK v \in units : v.id = id /\ results[v].opened
    BY <1>7, <1>11
  <2>2. v = u
    BY <1>1, <1>3, <2>1, UnitIsOne
  <2> QED  BY <1>9, <1>11, <2>1, <2>2
<1> QED  BY <1>8, <1>10, <1>11

(* Nothing changed and nothing failed: a scan opens no book it has read and *)
(* labelled, and rewrites nothing of what it knows of it.                  *)
THEOREM UnchangedIsAlwaysKept == ~ SameSecond => (scanSpec => UnchangedIsKept)
<1> SUFFICES ASSUME ~ SameSecond
             PROVE  scanSpec => UnchangedIsKept
  OBVIOUS
<1>1. scanSpec => []ScanInv
  BY ScanIsInductive
<1>2. ScanInv /\ [scanNext]_scanVars => [KeptIfUnchanged]_scanVars
  BY UnchangedStep
<1> QED  BY <1>1, <1>2, PTL DEF scanSpec, UnchangedIsKept

------------------------------------------------------------------------------
(***************************************************************************)
(* The order of names.  What a recursive function computes is proved with  *)
(* sets instead of predicates: a set of naturals that has every number     *)
(* whose smaller ones it has is all of them.                               *)
(***************************************************************************)
------------------------------------------------------------------------------
LEMMA Division ==
  ASSUME NEW m \in Nat, NEW n \in Nat
  PROVE  /\ n \div CountBase \in Nat /\ n % CountBase \in 0..(CountBase - 1)
         /\ n >= CountBase => n \div CountBase < n
         /\ m < n => m \div CountBase <= n \div CountBase
         /\ m < n /\ m \div CountBase = n \div CountBase => m % CountBase < n % CountBase
BY NameAssumption

LEMMA DivMod ==
  ASSUME NEW n \in Nat
  PROVE  /\ n \div CountBase \in Nat /\ n % CountBase \in Nat /\ 48 + (n % CountBase) \in Nat
         /\ n % CountBase < CountBase
         /\ ~ (n < CountBase) => n \div CountBase \in 0..(n - 1)
BY NameAssumption

LEMMA DigitsIs ==
  /\ Digits \in [Nat -> Seq(Nat)]
  /\ \A n \in Nat : Digits[n] = IF n < CountBase THEN <<48 + n>>
                                ELSE Append(Digits[n \div CountBase], 48 + (n % CountBase))
<1> DEFINE Body(f) == [n \in Nat |-> IF n < CountBase THEN <<48 + n>>
                                     ELSE Append(f[n \div CountBase], 48 + (n % CountBase))]
           Stop == {n \in Nat : n < CountBase}
           size == [n \in Nat |-> n]
           base == [n \in Nat |-> <<48 + n>>]
           g == [n \in Nat |-> n \div CountBase]
           h == [p \in Nat \X Seq(Nat) |-> Append(p[2], 48 + (p[1] % CountBase))]
<1>1. \E f \in [Nat -> Seq(Nat)] : \A n \in Nat : f[n] = IF n \in Stop THEN base[n] ELSE h[<<n, f[g[n]]>>]
  <2>1. size \in [Nat -> Nat]
    OBVIOUS
  <2>2. \A n \in Nat \cap Stop : base[n] \in Seq(Nat)
    <3>1. \A n \in Nat : <<48 + n>> \in Seq(Nat)
      OBVIOUS
    <3> QED  BY <3>1
  <2>3. \A n \in Nat \ Stop : g[n] \in Nat /\ size[g[n]] < size[n]
    <3>1. \A n \in Nat : n \div CountBase \in Nat /\ (n >= CountBase => n \div CountBase < n)
      BY Division
    <3>2. \A n \in Nat \ Stop : n >= CountBase
      BY NameAssumption
    <3> QED  BY <3>1, <3>2
  <2>4. \A n \in Nat \ Stop : \A v \in Seq(Nat) : h[<<n, v>>] \in Seq(Nat)
    <3>1. \A n \in Nat : 48 + (n % CountBase) \in Nat
      BY DivMod
    <3>2. ASSUME NEW n \in Nat, NEW v \in Seq(Nat)
          PROVE  h[<<n, v>>] \in Seq(Nat)
      <4> DEFINE c == 48 + (n % CountBase)
      <4>1. c \in Nat
        BY <3>1
      <4>2. h[<<n, v>>] = Append(v, c)
        OBVIOUS
      <4> HIDE DEF c, h
      <4> QED  BY <4>1, <4>2
    <3> HIDE DEF h
    <3> QED  BY <3>2
  <2>5. <<>> \in Seq(Nat)
    OBVIOUS
  <2> HIDE DEF Stop, size, base, g, h
  <2>6. WellDefined(Nat, Seq(Nat), size, Stop, base, g, h)
    BY <2>1, <2>2, <2>3, <2>4, <2>5 DEF WellDefined
  <2>7. \E f : Solves(f, Nat, Seq(Nat), Stop, base, g, h)
    BY <2>6, Recursion
  <2> QED  BY <2>7 DEF Solves
<1>2. PICK f \in [Nat -> Seq(Nat)] : f = Body(f)
  <2>1. PICK f \in [Nat -> Seq(Nat)] : \A n \in Nat : f[n] = IF n \in Stop THEN base[n] ELSE h[<<n, f[g[n]]>>]
    BY <1>1
  <2>2. ASSUME NEW n \in Nat
        PROVE  f[n] = IF n < CountBase THEN <<48 + n>>
                      ELSE Append(f[n \div CountBase], 48 + (n % CountBase))
    <3>1. n \div CountBase \in Nat
      BY Division
    <3>2. f[n \div CountBase] \in Seq(Nat)
      BY <3>1
    <3> QED  BY <2>1, <3>1, <3>2
  <2>3. f = Body(f)
    BY <2>2
  <2> HIDE DEF Body
  <2> QED  BY <2>3
<1>3. Digits = CHOOSE e : e = Body(e)
  BY DEF Digits
<1>4. Digits = Body(Digits)
  <2> HIDE DEF Body
  <2> QED  BY <1>2, <1>3
<1>5. \A n \in Nat : Digits[n] = IF n < CountBase THEN <<48 + n>>
                                ELSE Append(Digits[n \div CountBase], 48 + (n % CountBase))
  BY <1>4
<1>6. Digits = [n \in Nat |-> Digits[n]]
  BY <1>4
<1> DEFINE P == {n \in Nat : Digits[n] \in Seq(Nat)}
<1>7. ASSUME NEW n \in Nat, \A m \in 0..(n - 1) : m \in P
      PROVE  n \in P
  <2>1. CASE n < CountBase
    <3>1. <<48 + n>> \in Seq(Nat)
      OBVIOUS
    <3> QED  BY <1>5, <2>1, <3>1
  <2>2. CASE ~ (n < CountBase)
    <3>1. n \div CountBase \in 0..(n - 1) /\ n % CountBase \in Nat
      BY <2>2, DivMod
    <3>2. Digits[n \div CountBase] \in Seq(Nat) /\ 48 + (n % CountBase) \in Nat
      BY <1>7, <3>1, DivMod
    <3> DEFINE d == Digits[n \div CountBase]
               c == 48 + (n % CountBase)
    <3>3. Append(d, c) \in Seq(Nat)
      <4> HIDE DEF d, c
      <4>1. d \in Seq(Nat) /\ c \in Nat
        BY <3>2 DEF d, c
      <4> QED  BY <4>1
    <3>4. Digits[n] = Append(d, c)
      BY <1>5, <2>2
    <3> QED  BY <3>3, <3>4
  <2> QED  BY <2>1, <2>2
<1>8. P = Nat
  <2> HIDE DEF P
  <2>1. P \in SUBSET Nat
    BY DEF P
  <2> QED  BY <1>7, <2>1, NatSet
<1> QED  BY <1>5, <1>6, <1>8

------------------------------------------------------------------------------
(* The order of sequences.                                                 *)

(* The first place where two sequences differ is in both.                  *)
Decides(u, v, c) ==
  \E k \in DOMAIN u \cap DOMAIN v : /\ u[k] # v[k] /\ c = Cmp(u[k], v[k])
                                    /\ \A m \in 1..(k - 1) : u[m] = v[m]

LEMMA CmpIs ==
  ASSUME NEW m \in Nat, NEW n \in Nat
  PROVE  /\ Cmp(m, n) \in {-1, 0, 1} /\ (Cmp(m, n) = 0 <=> m = n) /\ Cmp(n, m) = - Cmp(m, n)
         /\ Cmp(m, n) = -1 <=> m < n
BY DEF Cmp

LEMMA LexIs ==
  ASSUME NEW u \in Seq(Nat), NEW v \in Seq(Nat)
  PROVE  \/ Decides(u, v, Lexicographic(u, v))
         \/ /\ \A k \in DOMAIN u \cap DOMAIN v : u[k] = v[k]
            /\ Lexicographic(u, v) = Cmp(Len(u), Len(v))
<1> DEFINE n == IF Len(u) < Len(v) THEN Len(u) ELSE Len(v)
           differ == {i \in 1..n : u[i] # v[i]}
           least == CHOOSE i \in differ : \A j \in differ : i <= j
<1>1. 1..n = DOMAIN u \cap DOMAIN v
  OBVIOUS
<1>2. Lexicographic(u, v) = IF differ = {} THEN Cmp(Len(u), Len(v)) ELSE Cmp(u[least], v[least])
  BY DEF Lexicographic
<1>3. CASE differ = {}
  BY <1>1, <1>2, <1>3
<1>4. CASE differ # {}
  <2>1. differ \in SUBSET Nat
    OBVIOUS
  <2>2. least \in differ /\ \A j \in differ : least <= j
    <3> HIDE DEF differ
    <3> QED  BY <1>4, <2>1, Least
  <2> HIDE DEF least
  <2>3. ASSUME NEW m \in 1..(least - 1)
        PROVE  m \in 1..n /\ m \notin differ
    <3>1. least \in 1..n /\ n \in Nat
      BY <2>2
    <3>2. \A j \in differ : least <= j
      BY <2>2
    <3> HIDE DEF n, differ
    <3>3. m \in 1..n /\ ~ (least <= m)
      BY <3>1
    <3> QED  BY <3>2, <3>3
  <2> QED  BY <1>1, <1>2, <1>4, <2>2, <2>3 DEF Decides
<1> QED  BY <1>3, <1>4

LEMMA LexDecides ==
  ASSUME NEW u \in Seq(Nat), NEW v \in Seq(Nat), NEW c, Decides(u, v, c)
  PROVE  Lexicographic(u, v) = c
<1>1. PICK k \in DOMAIN u \cap DOMAIN v : /\ u[k] # v[k] /\ c = Cmp(u[k], v[k])
                                         /\ \A m \in 1..(k - 1) : u[m] = v[m]
  BY DEF Decides
<1>2. Decides(u, v, Lexicographic(u, v))
  BY <1>1, LexIs
<1>3. PICK l \in DOMAIN u \cap DOMAIN v : /\ u[l] # v[l] /\ Lexicographic(u, v) = Cmp(u[l], v[l])
                                         /\ \A m \in 1..(l - 1) : u[m] = v[m]
  BY <1>2 DEF Decides
<1>4. k = l
  <2>1. k \in Nat \ {0} /\ l \in Nat \ {0}
    OBVIOUS
  <2>2. ~ (k < l) /\ ~ (l < k)
    BY <1>1, <1>3, <2>1
  <2> QED  BY <2>1, <2>2
<1> QED  BY <1>1, <1>3, <1>4

LEMMA LexSame ==
  ASSUME NEW u \in Seq(Nat), NEW v \in Seq(Nat)
  PROVE  /\ Lexicographic(u, v) \in {-1, 0, 1}
         /\ Lexicographic(u, v) = 0 <=> u = v
         /\ Lexicographic(v, u) = - Lexicographic(u, v)
         /\ Len(u) = Len(v) /\ u # v => Decides(u, v, Lexicographic(u, v))
<1>1. CASE Decides(u, v, Lexicographic(u, v))
  <2>1. PICK k \in DOMAIN u \cap DOMAIN v : /\ u[k] # v[k] /\ Lexicographic(u, v) = Cmp(u[k], v[k])
                                           /\ \A m \in 1..(k - 1) : u[m] = v[m]
    BY <1>1 DEF Decides
  <2>2. u[k] \in Nat /\ v[k] \in Nat
    OBVIOUS
  <2>3. Decides(v, u, Cmp(v[k], u[k]))
    BY <2>1 DEF Decides
  <2>4. Lexicographic(v, u) = Cmp(v[k], u[k])
    BY <2>3, LexDecides
  <2> QED  BY <1>1, <2>1, <2>2, <2>4, CmpIs
<1>2. CASE /\ \A k \in DOMAIN u \cap DOMAIN v : u[k] = v[k]
           /\ Lexicographic(u, v) = Cmp(Len(u), Len(v))
  <2>1. Len(u) = Len(v) => u = v
    <3>1. ASSUME Len(u) = Len(v), NEW k \in 1..Len(u)
          PROVE  u[k] = v[k]
      <4>1. k \in DOMAIN u /\ k \in DOMAIN v
        BY <3>1
      <4> QED  BY <1>2, <4>1
    <3> QED  BY <3>1, SeqEqual
  <2>2. ~ Decides(v, u, Lexicographic(v, u))
    BY <1>2 DEF Decides
  <2>3. Lexicographic(v, u) = Cmp(Len(v), Len(u))
    BY <2>2, LexIs
  <2>4. Len(u) \in Nat /\ Len(v) \in Nat
    OBVIOUS
  <2> QED  BY <1>2, <2>1, <2>3, <2>4, CmpIs
<1> QED  BY <1>1, <1>2, LexIs

LEMMA DecidesMore ==
  ASSUME NEW u \in Seq(Nat), NEW v \in Seq(Nat), NEW x \in Seq(Nat), NEW y \in Seq(Nat), NEW c,
         Decides(u, v, c)
  PROVE  Decides(u \o x, v \o y, c) /\ Decides(x \o u, x \o v, c)
<1>1. PICK k \in DOMAIN u \cap DOMAIN v : /\ u[k] # v[k] /\ c = Cmp(u[k], v[k])
                                         /\ \A m \in 1..(k - 1) : u[m] = v[m]
  BY DEF Decides
<1>2. Decides(u \o x, v \o y, c)
  <2>1. \A m \in 1..k : (u \o x)[m] = u[m] /\ (v \o y)[m] = v[m]
    OBVIOUS
  <2>2. k \in DOMAIN (u \o x) \cap DOMAIN (v \o y)
    OBVIOUS
  <2>3. (u \o x)[k] = u[k] /\ (v \o y)[k] = v[k]
    BY <2>1
  <2>4. \A m \in 1..(k - 1) : (u \o x)[m] = (v \o y)[m]
    <3>1. \A m \in 1..(k - 1) : m \in 1..k
      OBVIOUS
    <3> QED  BY <1>1, <2>1, <3>1
  <2> QED  BY <1>1, <2>2, <2>3, <2>4 DEF Decides
<1>3. Decides(x \o u, x \o v, c)
  <2> DEFINE l == Len(x) + k
  <2>1. l \in DOMAIN (x \o u) \cap DOMAIN (x \o v) /\ (x \o u)[l] = u[k] /\ (x \o v)[l] = v[k]
    OBVIOUS
  <2>2. ASSUME NEW m \in 1..(l - 1)
        PROVE  (x \o u)[m] = (x \o v)[m]
    <3>1. CASE m <= Len(x)
      BY <3>1
    <3>2. CASE ~ (m <= Len(x))
      <4>1. /\ m \in Nat /\ m - Len(x) \in 1..(k - 1)
            /\ m \in 1..(Len(x) + Len(u)) /\ m \in 1..(Len(x) + Len(v))
        <5> DEFINE n == Len(x)
                   nu == Len(u)
                   nv == Len(v)
        <5>1. n \in Nat /\ nu \in Nat /\ nv \in Nat /\ DOMAIN u = 1..nu /\ DOMAIN v = 1..nv
          OBVIOUS
        <5> HIDE DEF n, nu, nv
        <5>4. k \in 1..nu /\ k \in 1..nv
          BY <5>1
        <5>5. l = n + k
          BY DEF n
        <5> HIDE DEF l
        <5>2. ~ (m <= n)
          BY <3>2 DEF n
        <5>3. m \in Nat /\ m - n \in 1..(k - 1) /\ m \in 1..(n + nu) /\ m \in 1..(n + nv)
          <6>1. n \in Nat /\ nu \in Nat /\ nv \in Nat
            BY <5>1
          <6> QED  BY <6>1, <5>2, <5>4, <5>5
        <5> QED  BY <5>3 DEF n, nu, nv
      <4>2. (x \o u)[m] = u[m - Len(x)]
        BY <3>2, <4>1, ConcatProperties
      <4>3. (x \o v)[m] = v[m - Len(x)]
        BY <3>2, <4>1, ConcatProperties
      <4>4. u[m - Len(x)] = v[m - Len(x)]
        BY <1>1, <4>1
      <4> QED  BY <4>2, <4>3, <4>4
    <3> QED  BY <3>1, <3>2
  <2> HIDE DEF l
  <2> QED  BY <1>1, <2>1, <2>2 DEF Decides
<1> QED  BY <1>2, <1>3

LEMMA LexPrefix ==
  ASSUME NEW w \in Seq(Nat), NEW x \in Seq(Nat), NEW y \in Seq(Nat)
  PROVE  Lexicographic(w \o x, w \o y) = Lexicographic(x, y)
<1>1. w \o x \in Seq(Nat) /\ w \o y \in Seq(Nat)
  OBVIOUS
<1>2. CASE Decides(x, y, Lexicographic(x, y))
  <2>1. Decides(w \o x, w \o y, Lexicographic(x, y))
    BY <1>2, DecidesMore
  <2> QED  BY <1>1, <2>1, LexDecides
<1>3. CASE /\ \A k \in DOMAIN x \cap DOMAIN y : x[k] = y[k]
           /\ Lexicographic(x, y) = Cmp(Len(x), Len(y))
  <2>1. ASSUME NEW k \in DOMAIN (w \o x) \cap DOMAIN (w \o y)
        PROVE  (w \o x)[k] = (w \o y)[k]
    <3>1. CASE k <= Len(w)
      BY <3>1
    <3>2. CASE ~ (k <= Len(w))
      <4>1. k - Len(w) \in DOMAIN x \cap DOMAIN y
        BY <3>2
      <4> QED  BY <1>3, <3>2, <4>1
    <3> QED  BY <3>1, <3>2
  <2>2. ~ Decides(w \o x, w \o y, Lexicographic(w \o x, w \o y))
    BY <2>1 DEF Decides
  <2>3. Lexicographic(w \o x, w \o y) = Cmp(Len(w \o x), Len(w \o y))
    BY <1>1, <2>2, LexIs
  <2> QED  BY <1>3, <2>3 DEF Cmp
<1> QED  BY <1>2, <1>3, LexIs

------------------------------------------------------------------------------
(* Counts are ordered as numbers.                                          *)
LEMMA DigitsAreSome ==
  ASSUME NEW n \in Nat
  PROVE  Digits[n] \in Seq(Nat) /\ Len(Digits[n]) \in Nat \ {0}
<1> DEFINE a == Digits[n \div CountBase]
           c == 48 + (n % CountBase)
<1>1. Digits[n] \in Seq(Nat) /\ a \in Seq(Nat) /\ c \in Nat
  BY DigitsIs, DivMod
<1>2. Digits[n] = IF n < CountBase THEN <<48 + n>> ELSE Append(a, c)
  BY DigitsIs
<1> HIDE DEF a, c
<1>3. Len(<<48 + n>>) = 1 /\ Len(Append(a, c)) = Len(a) + 1 /\ Len(a) \in Nat
  BY <1>1
<1> QED  BY <1>1, <1>2, <1>3

LEMMA DigitsGrow ==
  ASSUME NEW n \in Nat, NEW m \in Nat, m < n
  PROVE  /\ Len(Digits[m]) <= Len(Digits[n])
         /\ Len(Digits[m]) = Len(Digits[n]) => Decides(Digits[m], Digits[n], -1)
<1> DEFINE Goal(l, k) == /\ Len(Digits[l]) <= Len(Digits[k])
                         /\ Len(Digits[l]) = Len(Digits[k]) => Decides(Digits[l], Digits[k], -1)
           P == {k \in Nat : \A l \in 0..(k - 1) : Goal(l, k)}
<1>1. ASSUME NEW k \in Nat, \A j \in 0..(k - 1) : j \in P
      PROVE  k \in P
  <2> SUFFICES ASSUME NEW l \in 0..(k - 1)
               PROVE  Goal(l, k)
    OBVIOUS
  <2>1. l \in Nat /\ l < k
    OBVIOUS
  <2> DEFINE a == Digits[l \div CountBase]
             b == Digits[k \div CountBase]
             c == 48 + (l % CountBase)
             d == 48 + (k % CountBase)
  <2>2. a \in Seq(Nat) /\ b \in Seq(Nat) /\ c \in Nat /\ d \in Nat
    BY <2>1, DigitsIs, DivMod
  <2>3. CASE k < CountBase
    <3>1. Digits[l] = <<48 + l>> /\ Digits[k] = <<48 + k>>
      <4>1. l < CountBase
        BY <2>1, <2>3, NameAssumption
      <4> QED  BY <2>1, <2>3, <4>1, DigitsIs
    <3>2. Decides(<<48 + l>>, <<48 + k>>, -1)
      <4>1. 1 \in DOMAIN <<48 + l>> \cap DOMAIN <<48 + k>>
        OBVIOUS
      <4>2. <<48 + l>>[1] # <<48 + k>>[1] /\ -1 = Cmp(<<48 + l>>[1], <<48 + k>>[1])
        BY <2>1 DEF Cmp
      <4> QED  BY <4>1, <4>2 DEF Decides
    <3> QED  BY <3>1, <3>2
  <2>4. CASE ~ (k < CountBase) /\ l < CountBase
    <3>1. Digits[l] = <<48 + l>> /\ Digits[k] = Append(b, d)
      BY <2>1, <2>4, DigitsIs
    <3>2. Len(b) \in Nat \ {0}
      BY DivMod, DigitsAreSome
    <3>3. Len(<<48 + l>>) = 1 /\ Len(Append(b, d)) = Len(b) + 1
      <4> HIDE DEF b, d
      <4> QED  BY <2>2
    <3>4. 1 < Len(b) + 1
      BY <3>2
    <3> HIDE DEF b, d
    <3>5. Len(Digits[l]) = 1 /\ Len(Digits[k]) = Len(b) + 1
      BY <3>1, <3>3
    <3> QED  BY <3>2, <3>4, <3>5
  <2>5. CASE ~ (k < CountBase) /\ ~ (l < CountBase)
    <3>1. Digits[l] = Append(a, c) /\ Digits[k] = Append(b, d)
      BY <2>1, <2>5, DigitsIs
    <3>2. Len(Append(a, c)) = Len(a) + 1 /\ Len(Append(b, d)) = Len(b) + 1
      <4> HIDE DEF a, b, c, d
      <4> QED  BY <2>2
    <3>3. l \div CountBase <= k \div CountBase
          /\ (l \div CountBase = k \div CountBase => l % CountBase < k % CountBase)
      BY <2>1, Division
    <3>4. CASE l \div CountBase = k \div CountBase
      <4>1. a = b /\ c < d
        <5>1. l % CountBase \in Nat /\ k % CountBase \in Nat
          BY <2>1, DivMod
        <5> QED  BY <3>3, <3>4, <5>1
      <4>2. Decides(Append(a, c), Append(a, d), -1)
        <5> HIDE DEF a, b, c, d
        <5> DEFINE i == Len(a) + 1
        <5>1. i \in DOMAIN Append(a, c) \cap DOMAIN Append(a, d)
              /\ Append(a, c)[i] = c /\ Append(a, d)[i] = d
              /\ \A j \in 1..(i - 1) : Append(a, c)[j] = Append(a, d)[j]
          BY <2>2
        <5>2. -1 = Cmp(c, d) /\ c # d
          BY <2>2, <4>1 DEF Cmp
        <5> HIDE DEF i
        <5> QED  BY <5>1, <5>2 DEF Decides
      <4> HIDE DEF a, b, c, d
      <4> QED  BY <3>1, <3>2, <4>1, <4>2, <2>2
    <3>5. CASE l \div CountBase # k \div CountBase
      <4>1. k \div CountBase \in 0..(k - 1) /\ l \div CountBase \in 0..(k \div CountBase - 1)
        <5>1. k \div CountBase \in 0..(k - 1)
          BY <2>5, DivMod
        <5>2. k \div CountBase \in Nat /\ l \div CountBase \in Nat
          BY <2>1, DivMod
        <5>3. l \div CountBase < k \div CountBase
          BY <3>3, <3>5, <5>2
        <5> DEFINE x == l \div CountBase
                   y == k \div CountBase
        <5> HIDE DEF x, y
        <5>4. x \in 0..(y - 1)
          BY <5>2, <5>3 DEF x, y
        <5> QED  BY <5>1, <5>4 DEF x, y
      <4>2. Goal(l \div CountBase, k \div CountBase)
        BY <1>1, <4>1
      <4>3. Len(a) <= Len(b) /\ (Len(a) = Len(b) => Decides(a, b, -1))
        BY <4>2
      <4> HIDE DEF a, b, c, d
      <4>4. ASSUME Len(a) = Len(b)
            PROVE  Decides(Append(a, c), Append(b, d), -1)
        <5>1. Append(a, c) = a \o <<c>> /\ Append(b, d) = b \o <<d>>
          BY <2>2, AppendIsConcat
        <5>2. <<c>> \in Seq(Nat) /\ <<d>> \in Seq(Nat)
          BY <2>2
        <5> QED  BY <2>2, <4>3, <4>4, <5>1, <5>2, DecidesMore
      <4> QED  BY <2>2, <3>1, <3>2, <4>3, <4>4
    <3> QED  BY <3>4, <3>5
  <2> QED  BY <2>3, <2>4, <2>5
<1>2. P = Nat
  <2>1. P \in SUBSET Nat
    OBVIOUS
  <2> HIDE DEF P
  <2> QED  BY <1>1, <2>1, NatSet
<1>3. n \in P /\ m \in 0..(n - 1)
  BY <1>2
<1> QED  BY <1>3

LEMMA CountDecides ==
  ASSUME NEW m \in Nat, NEW n \in Nat, m # n
  PROVE  Decides(appendCount(m), appendCount(n), Cmp(m, n))
<1>1. ASSUME NEW k \in Nat, NEW l \in Nat, k < l
      PROVE  Decides(appendCount(k), appendCount(l), -1)
  <2> DEFINE a == Digits[k]
             b == Digits[l]
             u == <<48 + Len(a)>>
             v == <<48 + Len(b)>>
  <2>1. a \in Seq(Nat) /\ b \in Seq(Nat) /\ Len(a) \in Nat /\ Len(b) \in Nat
    BY DigitsIs
  <2>2. Len(a) <= Len(b) /\ (Len(a) = Len(b) => Decides(a, b, -1))
    BY <1>1, DigitsGrow
  <2>3. appendCount(k) = u \o a /\ appendCount(l) = v \o b
    BY DEF appendCount
  <2> HIDE DEF a, b
  <2>4. u \in Seq(Nat) /\ v \in Seq(Nat) /\ u[1] = 48 + Len(a) /\ v[1] = 48 + Len(b)
        /\ 1 \in DOMAIN u \cap DOMAIN v
    BY <2>1
  <2>5. CASE Len(a) = Len(b)
    <3>1. u = v
      BY <2>5
    <3> HIDE DEF u, v
    <3> QED  BY <2>1, <2>2, <2>3, <2>4, <2>5, <3>1, DecidesMore
  <2>6. CASE Len(a) # Len(b)
    <3>1. 48 + Len(a) # 48 + Len(b) /\ -1 = Cmp(48 + Len(a), 48 + Len(b))
      BY <2>1, <2>2, <2>6 DEF Cmp
    <3> HIDE DEF u, v
    <3>2. Decides(u, v, -1)
      BY <2>4, <3>1 DEF Decides
    <3> QED  BY <2>1, <2>3, <2>4, <3>2, DecidesMore
  <2> QED  BY <2>5, <2>6
<1>2. CASE m < n
  BY <1>1, <1>2 DEF Cmp
<1>3. CASE n < m
  <2> DEFINE u == appendCount(n)
             v == appendCount(m)
  <2>1. Decides(u, v, -1)
    BY <1>1, <1>3
  <2>2. u \in Seq(Nat) /\ v \in Seq(Nat)
    <3>1. ASSUME NEW k \in Nat
          PROVE  appendCount(k) \in Seq(Nat)
      <4> DEFINE a == Digits[k]
      <4>1. a \in Seq(Nat)
        BY DigitsIs
      <4> HIDE DEF a
      <4>2. <<48 + Len(a)>> \in Seq(Nat)
        BY <4>1
      <4>3. appendCount(k) = <<48 + Len(a)>> \o a
        BY DEF appendCount, a
      <4> QED  BY <4>1, <4>2, <4>3
    <3> QED  BY <3>1
  <2> HIDE DEF u, v
  <2>3. PICK k \in DOMAIN u \cap DOMAIN v : /\ u[k] # v[k] /\ -1 = Cmp(u[k], v[k])
                                           /\ \A j \in 1..(k - 1) : u[j] = v[j]
    BY <2>1 DEF Decides
  <2>4. 1 = Cmp(v[k], u[k])
    BY <2>2, <2>3 DEF Cmp
  <2>5. Decides(v, u, 1)
    BY <2>3, <2>4 DEF Decides
  <2> QED  BY <1>3, <2>5 DEF Cmp, u, v
<1> QED  BY <1>2, <1>3

------------------------------------------------------------------------------
(* The chunks of a name, and what is kept of a run of digits.              *)
LEMMA NextIs ==
  ASSUME NEW s \in Seq(Nat), NEW i \in 1..Len(s)
  PROVE  /\ next(s, i) \in (i + 1)..(Len(s) + 1)
         /\ IsDigit(s[i]) => \A k \in i..(next(s, i) - 1) : IsDigit(s[k])
         /\ ~ IsDigit(s[i]) => next(s, i) = i + 1
<1> DEFINE T == {n \in (i + 1)..(Len(s) + 1) : n = Len(s) + 1 \/ ~ IsDigit(s[n])}
<1>1. T \in SUBSET Nat /\ T # {}
  <2>1. Len(s) + 1 \in T
    OBVIOUS
  <2> QED  BY <2>1
<1>2. PICK n \in T : \A m \in T : n <= m
  <2> HIDE DEF T
  <2> QED  BY <1>1, Least
<1>3. CASE IsDigit(s[i])
  <2>1. ASSUME NEW k \in i..(n - 1)
        PROVE  IsDigit(s[k])
    <3>1. k = i \/ (k \in (i + 1)..(Len(s) + 1) /\ k \notin T)
      BY <1>2
    <3> QED  BY <1>3, <3>1
  <2>2. \E m \in (i + 1)..(Len(s) + 1) : /\ \A k \in i..(m - 1) : IsDigit(s[k])
                                         /\ m <= Len(s) => ~ IsDigit(s[m])
    BY <1>2, <2>1
  <2> HIDE DEF T
  <2> QED  BY <1>3, <2>2 DEF next
<1>4. CASE ~ IsDigit(s[i])
  BY <1>4 DEF next
<1> QED  BY <1>3, <1>4

(* A chunk is not empty, and more than one character are digits.           *)
IsChunk(c) ==
  /\ c \in Seq(Nat) /\ Len(c) \in Nat \ {0}
  /\ ~ IsDigit(c[1]) => Len(c) = 1

LEMMA ChunkIs ==
  ASSUME NEW s \in Seq(Nat), NEW i \in 1..Len(s)
  PROVE  /\ IsChunk(Chunk(s, i)) /\ Len(Chunk(s, i)) = next(s, i) - i
         /\ \A k \in 1..(next(s, i) - i) : Chunk(s, i)[k] = s[i + k - 1]
<1> DEFINE n == next(s, i)
           c == Chunk(s, i)
<1>1. n \in (i + 1)..(Len(s) + 1) /\ (~ IsDigit(s[i]) => n = i + 1)
  BY NextIs
<1>2. \A k \in i..(n - 1) : s[k] \in Nat
  BY <1>1
<1>3. c = SubSeq(s, i, n - 1)
  BY DEF Chunk
<1> HIDE DEF n, c
<1>4. i \in Nat /\ n - 1 \in Nat /\ i <= n - 1
  BY <1>1
<1>5. /\ c \in Seq(Nat) /\ Len(c) = n - 1 - i + 1
      /\ \A k \in 1..(n - 1 - i + 1) : c[k] = s[i + k - 1]
  <2> DEFINE m == n - 1
  <2>1. i \in Nat /\ m \in Nat /\ i <= m /\ c = SubSeq(s, i, m) /\ \A k \in i..m : s[k] \in Nat
    BY <1>2, <1>3, <1>4
  <2> HIDE DEF m
  <2>2. /\ SubSeq(s, i, m) \in Seq(Nat)
        /\ Len(SubSeq(s, i, m)) = IF i <= m THEN m - i + 1 ELSE 0
        /\ \A k \in 1..(m - i + 1) : SubSeq(s, i, m)[k] = s[i + k - 1]
    BY <2>1, SubSeqProperties
  <2> QED  BY <2>1, <2>2 DEF m
<1>6. n - 1 - i + 1 = n - i /\ n - i \in Nat \ {0}
  BY <1>1
<1>7. c[1] = s[i]
  BY <1>5, <1>6
<1>8. IsChunk(c)
  BY <1>1, <1>5, <1>6, <1>7 DEF IsChunk
<1> QED  BY <1>5, <1>6, <1>8 DEF n, c

LEMMA StrippedIs ==
  ASSUME NEW c \in Seq(Nat)
  PROVE  /\ Zeros(c) \in 0..Len(c) /\ Stripped(c) \in Seq(Nat)
         /\ Len(Stripped(c)) = Len(c) - Zeros(c)
         /\ \A k \in 1..Len(c) : c[k] = IF k <= Zeros(c) THEN 48 ELSE Stripped(c)[k - Zeros(c)]
<1> DEFINE T == {n \in 0..Len(c) : n = Len(c) \/ c[n + 1] # 48}
           z == Zeros(c)
<1>1. T \in SUBSET Nat /\ T # {}
  <2>1. Len(c) \in T
    OBVIOUS
  <2> QED  BY <2>1
<1>2. PICK n \in T : \A m \in T : n <= m
  <2> HIDE DEF T
  <2> QED  BY <1>1, Least
<1>3. ASSUME NEW k \in 1..n
      PROVE  c[k] = 48
  <2>1. n \in 0..Len(c) /\ k - 1 \in 0..Len(c) /\ ~ (n <= k - 1)
    OBVIOUS
  <2>2. k - 1 \notin T
    <3> HIDE DEF T
    <3> QED  BY <1>2, <2>1
  <2> QED  BY <2>1, <2>2
<1>4. z \in 0..Len(c) /\ \A k \in 1..z : c[k] = 48
  <2>1. \E m \in 0..Len(c) : /\ \A k \in 1..m : c[k] = 48
                             /\ m < Len(c) => c[m + 1] # 48
    BY <1>2, <1>3
  <2> HIDE DEF T
  <2> QED  BY <2>1 DEF Zeros
<1> HIDE DEF z, T
<1>5. /\ SubSeq(c, z + 1, Len(c)) \in Seq(Nat)
      /\ Len(SubSeq(c, z + 1, Len(c))) = Len(c) - z
      /\ \A k \in 1..(Len(c) - z) : SubSeq(c, z + 1, Len(c))[k] = c[z + k]
  <2> DEFINE m == z + 1
             l == Len(c)
  <2>1. m \in Nat /\ l \in Nat /\ \A k \in m..l : c[k] \in Nat
    BY <1>4
  <2>2. m <= l + 1
    BY <1>4
  <2> HIDE DEF m, l
  <2>3. /\ SubSeq(c, m, l) \in Seq(Nat)
        /\ Len(SubSeq(c, m, l)) = IF m <= l THEN l - m + 1 ELSE 0
        /\ \A k \in 1..(l - m + 1) : SubSeq(c, m, l)[k] = c[m + k - 1]
    BY <2>1, SubSeqProperties
  <2>4. l - m + 1 = l - z /\ (~ (m <= l) => l - z = 0) /\ \A k \in 1..(l - z) : m + k - 1 = z + k
    BY <1>4, <2>1, <2>2 DEF m, l
  <2> QED  BY <2>3, <2>4 DEF m, l
<1>6. Stripped(c) = SubSeq(c, z + 1, Len(c))
  BY DEF Stripped, z
<1>7. ASSUME NEW k \in 1..Len(c)
      PROVE  c[k] = IF k <= z THEN 48 ELSE Stripped(c)[k - z]
  <2>1. CASE k <= z
    BY <1>4, <2>1
  <2>2. CASE ~ (k <= z)
    <3>1. k - z \in 1..(Len(c) - z) /\ z + (k - z) = k
      BY <1>4, <2>2
    <3> QED  BY <1>5, <1>6, <2>2, <3>1
  <2> QED  BY <2>1, <2>2
<1> QED  BY <1>4, <1>5, <1>6, <1>7 DEF z

LEMMA StrippedOnce ==
  ASSUME NEW c \in Seq(Nat), NEW d \in Seq(Nat), Zeros(c) = Zeros(d), Stripped(c) = Stripped(d)
  PROVE  c = d
<1>1. Len(c) - Zeros(c) = Len(d) - Zeros(d)
  BY StrippedIs
<1>2. Len(c) = Len(d)
  <2>1. Zeros(c) \in 0..Len(c) /\ Zeros(d) \in 0..Len(d)
    BY StrippedIs
  <2> QED  BY <1>1, <2>1
<1>3. ASSUME NEW k \in 1..Len(c)
      PROVE  c[k] = d[k]
  <2>1. c[k] = IF k <= Zeros(c) THEN 48 ELSE Stripped(c)[k - Zeros(c)]
    BY StrippedIs
  <2>2. d[k] = IF k <= Zeros(d) THEN 48 ELSE Stripped(d)[k - Zeros(d)]
    BY <1>2, StrippedIs
  <2> QED  BY <2>1, <2>2
<1> QED  BY <1>2, <1>3

------------------------------------------------------------------------------
(* A record is ordered as its chunk, and decides wherever the chunk does.   *)
LEMMA CountIs ==
  ASSUME NEW n \in Nat
  PROVE  appendCount(n) \in Seq(Nat)
<1> DEFINE a == Digits[n]
<1>1. a \in Seq(Nat)
  BY DigitsIs
<1>2. appendCount(n) = <<48 + Len(a)>> \o a
  BY DEF appendCount
<1> HIDE DEF a
<1>3. <<48 + Len(a)>> \in Seq(Nat)
  BY <1>1
<1> QED  BY <1>1, <1>2, <1>3

LEMMA FoldIs ==
  ASSUME NEW r \in Nat
  PROVE  fold(r) \in Nat
BY DEF fold, RuneError

LEMMA Associative ==
  ASSUME NEW u \in Seq(Nat), NEW v \in Seq(Nat), NEW w \in Seq(Nat)
  PROVE  (u \o v) \o w = u \o (v \o w)
BY ConcatAssociative, SMTT(20)

LEMMA RecordIs ==
  ASSUME NEW c, IsChunk(c)
  PROVE  /\ Record(c) \in Seq(Nat) /\ 1 \in DOMAIN Record(c)
         /\ Record(c)[1] = IF IsDigit(c[1]) THEN 1 ELSE 2
         /\ IsDigit(c[1]) =>
              Record(c) = <<1>> \o (appendCount(Len(Stripped(c))) \o (Stripped(c) \o appendCount(Zeros(c))))
         /\ ~ IsDigit(c[1]) => Record(c) = <<2, fold(c[1]), c[1]>> /\ c = <<c[1]>>
<1>1. c \in Seq(Nat) /\ c # <<>> /\ Head(c) = c[1] /\ c[1] \in Nat
  BY DEF IsChunk
<1>2. CASE IsDigit(c[1])
  <2> DEFINE a == appendCount(Len(Stripped(c)))
             b == appendCount(Zeros(c))
             t == Stripped(c)
  <2>1. t \in Seq(Nat) /\ Len(t) \in Nat /\ Zeros(c) \in Nat
    BY <1>1, StrippedIs
  <2>2. a \in Seq(Nat) /\ b \in Seq(Nat)
    BY <2>1, CountIs
  <2>3. Record(c) = <<1>> \o a \o t \o b
    BY <1>1, <1>2 DEF Record, markDigits
  <2> HIDE DEF a, b, t
  <2>4. <<1>> \in Seq(Nat)
    OBVIOUS
  <2>5. <<1>> \o a \o t \o b = <<1>> \o (a \o (t \o b))
    <3> DEFINE w == <<1>>
    <3>1. w \in Seq(Nat)
      BY <2>4
    <3> HIDE DEF w
    <3>2. w \o a \o t \o b = w \o (a \o (t \o b))
      <4> DEFINE u == t \o b
                 v == w \o a
      <4>1. u \in Seq(Nat) /\ v \in Seq(Nat)
        BY <2>1, <2>2, <3>1
      <4>2. (v \o t) \o b = v \o (t \o b)
        <5> HIDE DEF v
        <5> QED  BY <2>1, <2>2, <4>1, Associative, SMTT(20)
      <4>3. (w \o a) \o u = w \o (a \o u)
        <5> HIDE DEF u
        <5> QED  BY <2>2, <3>1, <4>1, Associative
      <4> QED  BY <4>2, <4>3
    <3> QED  BY <3>2 DEF w
  <2>6. a \o (t \o b) \in Seq(Nat)
    BY <2>1, <2>2
  <2>7. /\ <<1>> \o (a \o (t \o b)) \in Seq(Nat) /\ 1 \in DOMAIN (<<1>> \o (a \o (t \o b)))
        /\ (<<1>> \o (a \o (t \o b)))[1] = 1
    <3> DEFINE e == a \o (t \o b)
    <3> HIDE DEF e
    <3>1. e \in Seq(Nat)
      BY <2>6 DEF e
    <3>2. <<1>> \o e \in Seq(Nat) /\ 1 \in DOMAIN (<<1>> \o e) /\ (<<1>> \o e)[1] = 1
      BY <3>1
    <3> QED  BY <3>2 DEF e
  <2> QED  BY <1>2, <2>3, <2>5, <2>7 DEF a, b, t
<1>3. CASE ~ IsDigit(c[1])
  <2>1. Record(c) = <<2, fold(c[1]), c[1]>>
    BY <1>1, <1>3 DEF Record, markRune
  <2>2. fold(c[1]) \in Nat
    BY <1>1, FoldIs
  <2>3. c = <<c[1]>>
    BY <1>1, <1>3 DEF IsChunk
  <2> QED  BY <1>1, <1>3, <2>1, <2>2, <2>3
<1> QED  BY <1>2, <1>3

LEMMA RecordOrder ==
  ASSUME NEW c, NEW d, IsChunk(c), IsChunk(d)
  PROVE  /\ CompareChunk(c, d) \in {-1, 0, 1}
         /\ CompareChunk(c, d) = 0 <=> c = d
         /\ c # d => Decides(Record(c), Record(d), CompareChunk(c, d))
<1> DEFINE r == CompareChunk(c, d)
<1>1. /\ c \in Seq(Nat) /\ d \in Seq(Nat) /\ Head(c) = c[1] /\ Head(d) = d[1]
      /\ c[1] \in Nat /\ d[1] \in Nat
  BY DEF IsChunk
<1>2. CASE IsDigit(c[1]) /\ IsDigit(d[1])
  <2> DEFINE s == Stripped(c)
             t == Stripped(d)
             y == Zeros(c)
             z == Zeros(d)
  <2>1. s \in Seq(Nat) /\ t \in Seq(Nat) /\ Len(s) \in Nat /\ Len(t) \in Nat /\ y \in Nat /\ z \in Nat
    BY <1>1, StrippedIs
  <2>2. r = Then(Cmp(Len(s), Len(t)), Then(Lexicographic(s, t), Cmp(y, z)))
    BY <1>1, <1>2 DEF CompareChunk
  <2>3. /\ Record(c) = <<1>> \o (appendCount(Len(s)) \o (s \o appendCount(y)))
        /\ Record(d) = <<1>> \o (appendCount(Len(t)) \o (t \o appendCount(z)))
    BY <1>2, RecordIs
  <2>4. /\ appendCount(Len(s)) \in Seq(Nat) /\ appendCount(Len(t)) \in Seq(Nat)
        /\ appendCount(y) \in Seq(Nat) /\ appendCount(z) \in Seq(Nat)
    BY <2>1, CountIs
  <2>5. c = d => s = t /\ y = z
    OBVIOUS
  <2>6. s = t /\ y = z => c = d
    BY <1>1, StrippedOnce
  <2> HIDE DEF s, t, y, z
  <2>7. <<1>> \in Seq(Nat) /\ s \o appendCount(y) \in Seq(Nat) /\ t \o appendCount(z) \in Seq(Nat)
    BY <2>1, <2>4
  <2> DEFINE u == appendCount(Len(s)) \o (s \o appendCount(y))
             v == appendCount(Len(t)) \o (t \o appendCount(z))
  <2>8. u \in Seq(Nat) /\ v \in Seq(Nat)
    BY <2>4, <2>7
  <2>9. ASSUME Decides(u, v, r)
         PROVE  Decides(Record(c), Record(d), r)
    <3> HIDE DEF u, v
    <3>1. <<1>> \in Seq(Nat)
      OBVIOUS
    <3>2. Decides(<<1>> \o u, <<1>> \o v, r)
      BY <2>8, <2>9, <3>1, DecidesMore
    <3> QED  BY <2>3, <3>2 DEF u, v
  <2>10. CASE Len(s) # Len(t)
    <3>1. r = Cmp(Len(s), Len(t)) /\ r \in {-1, 1} /\ c # d
      BY <2>1, <2>2, <2>5, <2>10, CmpIs DEF Then
    <3>2. Decides(appendCount(Len(s)), appendCount(Len(t)), r)
      BY <2>1, <2>10, <3>1, CountDecides
    <3>3. Decides(appendCount(Len(s)) \o (s \o appendCount(y)), appendCount(Len(t)) \o (t \o appendCount(z)), r)
      BY <2>4, <2>7, <3>2, DecidesMore
    <3>4. Decides(Record(c), Record(d), r)
      BY <2>9, <3>3
    <3> QED  BY <3>1, <3>4
  <2>11. CASE Len(s) = Len(t) /\ s # t
    <3>1. Lexicographic(s, t) \in {-1, 1} /\ Decides(s, t, Lexicographic(s, t))
      BY <2>1, <2>11, LexSame
    <3>2. r = Lexicographic(s, t) /\ c # d
      BY <2>1, <2>2, <2>5, <2>11, <3>1, CmpIs DEF Then
    <3>3. Decides(s \o appendCount(y), t \o appendCount(z), r)
      BY <2>1, <2>4, <3>1, <3>2, DecidesMore
    <3>4. Decides(appendCount(Len(s)) \o (s \o appendCount(y)), appendCount(Len(t)) \o (t \o appendCount(z)), r)
      BY <2>4, <2>7, <2>11, <3>3, DecidesMore
    <3>5. Decides(Record(c), Record(d), r)
      BY <2>9, <3>4
    <3> QED  BY <3>1, <3>2, <3>5
  <2>12. CASE s = t /\ y # z
    <3>1. Lexicographic(s, t) = 0 /\ Cmp(Len(s), Len(t)) = 0
      BY <2>1, <2>12, LexSame, CmpIs
    <3>2. r = Cmp(y, z) /\ r \in {-1, 1} /\ c # d
      BY <2>1, <2>2, <2>5, <2>12, <3>1, CmpIs DEF Then
    <3>3. Decides(appendCount(y), appendCount(z), r)
      BY <2>1, <2>12, <3>2, CountDecides
    <3>4. Decides(s \o appendCount(y), t \o appendCount(z), r)
      BY <2>1, <2>4, <2>12, <3>3, DecidesMore
    <3>5. Decides(appendCount(Len(s)) \o (s \o appendCount(y)), appendCount(Len(t)) \o (t \o appendCount(z)), r)
      BY <2>4, <2>7, <2>12, <3>4, DecidesMore
    <3>6. Decides(Record(c), Record(d), r)
      BY <2>9, <3>5
    <3> QED  BY <3>2, <3>6
  <2>13. CASE s = t /\ y = z
    <3>1. Lexicographic(s, t) = 0 /\ Cmp(Len(s), Len(t)) = 0 /\ Cmp(y, z) = 0
      BY <2>1, <2>13, LexSame, CmpIs
    <3> QED  BY <2>2, <2>6, <2>13, <3>1 DEF Then
  <2> QED  BY <2>10, <2>11, <2>12, <2>13
<1>3. CASE IsDigit(c[1]) /\ ~ IsDigit(d[1])
  <2>1. r = -1 /\ c # d
    BY <1>1, <1>3 DEF CompareChunk
  <2>2. Record(c)[1] = 1 /\ Record(d)[1] = 2 /\ 1 \in DOMAIN Record(c) \cap DOMAIN Record(d)
    BY <1>3, RecordIs
  <2> QED  BY <2>1, <2>2 DEF Decides, Cmp
<1>4. CASE ~ IsDigit(c[1]) /\ IsDigit(d[1])
  <2>1. r = 1 /\ c # d
    BY <1>1, <1>4 DEF CompareChunk
  <2>2. Record(c)[1] = 2 /\ Record(d)[1] = 1 /\ 1 \in DOMAIN Record(c) \cap DOMAIN Record(d)
    BY <1>4, RecordIs
  <2> QED  BY <2>1, <2>2 DEF Decides, Cmp
<1>5. CASE ~ IsDigit(c[1]) /\ ~ IsDigit(d[1])
  <2> DEFINE a == fold(c[1])
             b == fold(d[1])
             x == c[1]
             z == d[1]
  <2>1. r = Then(Cmp(a, b), Cmp(x, z))
    BY <1>1, <1>5 DEF CompareChunk
  <2>2. Record(c) = <<2, a, x>> /\ Record(d) = <<2, b, z>> /\ c = <<x>> /\ d = <<z>>
    BY <1>5, RecordIs
  <2>3. a \in Nat /\ b \in Nat /\ x \in Nat /\ z \in Nat
    BY <1>1, FoldIs
  <2>4. x = z => a = b
    OBVIOUS
  <2> HIDE DEF a, b, x, z
  <2>5. (x = z) <=> (c = d)
    BY <2>2
  <2>6. CASE a # b
    <3>1. r = Cmp(a, b) /\ r \in {-1, 1} /\ x # z
      BY <2>1, <2>3, <2>4, <2>6, CmpIs DEF Then
    <3>2. Decides(<<2, a, x>>, <<2, b, z>>, r)
      <4>1. 2 \in DOMAIN <<2, a, x>> \cap DOMAIN <<2, b, z>>
        OBVIOUS
      <4>2. \A m \in 1..(2 - 1) : <<2, a, x>>[m] = <<2, b, z>>[m]
        OBVIOUS
      <4> QED  BY <2>6, <3>1, <4>1, <4>2 DEF Decides
    <3> QED  BY <2>2, <2>5, <3>1, <3>2
  <2>7. CASE a = b /\ x # z
    <3>1. r = Cmp(x, z) /\ r \in {-1, 1}
      BY <2>1, <2>3, <2>7, CmpIs DEF Then
    <3>2. Decides(<<2, a, x>>, <<2, b, z>>, r)
      <4>1. 3 \in DOMAIN <<2, a, x>> \cap DOMAIN <<2, b, z>>
        OBVIOUS
      <4>2. \A m \in 1..(3 - 1) : <<2, a, x>>[m] = <<2, b, z>>[m]
        BY <2>7
      <4> QED  BY <2>7, <3>1, <4>1, <4>2 DEF Decides
    <3> QED  BY <2>2, <2>5, <2>7, <3>1, <3>2
  <2>8. CASE x = z
    <3>1. r = 0
      BY <2>1, <2>3, <2>4, <2>8, CmpIs DEF Then
    <3> QED  BY <2>5, <2>8, <3>1
  <2> QED  BY <2>6, <2>7, <2>8
<1> QED  BY <1>2, <1>3, <1>4, <1>5

------------------------------------------------------------------------------
(* The key from a position on, and the comparison from two positions on.    *)
Tails(s, from) ==
  /\ from \in [1..(Len(s) + 1) -> Seq(Nat)]
  /\ from[Len(s) + 1] = <<0>>
  /\ \A i \in 1..Len(s) : from[i] = Record(Chunk(s, i)) \o from[next(s, i)]

LEMMA KeyIs ==
  ASSUME NEW s \in Seq(Nat)
  PROVE  \E from : Tails(s, from) /\ Key(s) = from[1]
<1> DEFINE S == 1..(Len(s) + 1)
           V == Seq(Nat)
           Body(f) == [i \in S |-> IF i > Len(s) THEN <<terminator>>
                                   ELSE Record(Chunk(s, i)) \o f[next(s, i)]]
           from == CHOOSE f : f = Body(f)
           size == [i \in S |-> Len(s) + 1 - i]
           Stop == {Len(s) + 1}
           base == [i \in S |-> <<0>>]
           g == [i \in S |-> next(s, i)]
           h == [p \in S \X V |-> Record(Chunk(s, p[1])) \o p[2]]
<1>1. Key(s) = from[1]
  BY DEF Key
<1>2. Len(s) \in Nat /\ S \subseteq Nat
  OBVIOUS
<1>3. \A i \in S : /\ i \in Stop <=> i > Len(s)
                   /\ i \in Stop <=> i = Len(s) + 1
                   /\ i \notin Stop => i \in 1..Len(s)
  BY <1>2
<1>4. ASSUME NEW i \in S, i \notin Stop
      PROVE  /\ next(s, i) \in S /\ next(s, i) \in Nat /\ next(s, i) > i
             /\ Record(Chunk(s, i)) \in V
  <2>1. i \in 1..Len(s)
    BY <1>3, <1>4
  <2>2. next(s, i) \in (i + 1)..(Len(s) + 1)
    BY <2>1, NextIs
  <2>3. Record(Chunk(s, i)) \in V
    BY <2>1, ChunkIs, RecordIs
  <2> QED  BY <2>1, <2>2, <2>3
<1>5. /\ \A i \in S : base[i] = <<terminator>> /\ g[i] = next(s, i) /\ size[i] = Len(s) + 1 - i
      /\ \A i \in S : \A v \in V : h[<<i, v>>] = Record(Chunk(s, i)) \o v
      /\ size \in [S -> Nat] /\ <<terminator>> \in V
  <2>1. \A i \in S : base[i] = <<terminator>> /\ g[i] = next(s, i) /\ size[i] = Len(s) + 1 - i
    BY DEF terminator
  <2>2. \A i \in S : \A v \in V : h[<<i, v>>] = Record(Chunk(s, i)) \o v
    <3> HIDE DEF V
    <3> QED  OBVIOUS
  <2>3. size \in [S -> Nat]
    BY <1>2
  <2>4. <<terminator>> \in V
    BY DEF terminator
  <2> QED  BY <2>1, <2>2, <2>3, <2>4
<1>6. \A f : f = Body(f) <=> /\ f = [i \in S |-> f[i]]
                             /\ \A i \in S : f[i] = IF i > Len(s) THEN <<terminator>>
                                                    ELSE Record(Chunk(s, i)) \o f[next(s, i)]
  OBVIOUS
<1>7. \A r \in V, v \in V : r \o v \in V
  OBVIOUS
<1> HIDE DEF S, V, Body, size, Stop, base, g, h
<1>8. WellDefined(S, V, size, Stop, base, g, h)
  <2>1. ASSUME NEW i \in S \ Stop
        PROVE  g[i] \in S /\ size[g[i]] < size[i]
    <3>1. g[i] = next(s, i) /\ next(s, i) \in S /\ next(s, i) \in Nat /\ next(s, i) > i
      BY <1>4, <1>5
    <3>2. size[i] = Len(s) + 1 - i /\ size[g[i]] = Len(s) + 1 - next(s, i)
      BY <1>5, <3>1
    <3> QED  BY <1>2, <3>1, <3>2
  <2>2. ASSUME NEW i \in S \ Stop, NEW v \in V
        PROVE  h[<<i, v>>] \in V
    BY <1>4, <1>5, <1>7
  <2>3. V # {} /\ \A i \in S \cap Stop : base[i] \in V
    BY <1>5
  <2> QED  BY <1>5, <2>1, <2>2, <2>3 DEF WellDefined
<1>9. from = Body(from)
  <2>1. PICK f : Solves(f, S, V, Stop, base, g, h)
    BY <1>8, Recursion
  <2>2. f \in [S -> V] /\ \A i \in S : f[i] = IF i \in Stop THEN base[i] ELSE h[<<i, f[g[i]]>>]
    BY <2>1 DEF Solves
  <2>3. ASSUME NEW i \in S
        PROVE  f[i] = IF i > Len(s) THEN <<terminator>> ELSE Record(Chunk(s, i)) \o f[next(s, i)]
    <3>1. CASE i \in Stop
      <4>1. f[i] = base[i] /\ i > Len(s)
        BY <1>3, <2>2, <3>1
      <4> QED  BY <1>5, <4>1
    <3>2. CASE i \notin Stop
      <4>1. f[i] = h[<<i, f[g[i]]>>] /\ ~ (i > Len(s)) /\ g[i] = next(s, i) /\ next(s, i) \in S
        BY <1>3, <1>4, <1>5, <2>2, <3>2
      <4>2. f[next(s, i)] \in V
        BY <2>2, <4>1
      <4> QED  BY <1>5, <4>1, <4>2
    <3> QED  BY <3>1, <3>2
  <2>4. f = Body(f)
    BY <1>6, <2>2, <2>3
  <2> QED  BY <2>4
<1> HIDE DEF from
<1>10. /\ from = [i \in S |-> from[i]]
       /\ \A i \in S : from[i] = IF i > Len(s) THEN <<terminator>>
                                 ELSE Record(Chunk(s, i)) \o from[next(s, i)]
  BY <1>6, <1>9
<1>11. Solves(from, S, V, Stop, base, g, h)
  <2>1. ASSUME NEW i \in S
        PROVE  /\ i \in Stop => from[i] = base[i]
               /\ i \notin Stop /\ from[g[i]] \in V => from[i] = h[<<i, from[g[i]]>>]
    <3>1. CASE i \in Stop
      <4>1. from[i] = <<terminator>>
        BY <1>3, <1>10, <3>1
      <4> QED  BY <1>5, <3>1, <4>1
    <3>2. CASE i \notin Stop
      <4>1. from[i] = Record(Chunk(s, i)) \o from[next(s, i)] /\ g[i] = next(s, i)
        BY <1>3, <1>5, <1>10, <3>2
      <4> QED  BY <1>5, <3>2, <4>1
    <3> QED  BY <3>1, <3>2
  <2> QED  BY <1>8, <1>10, <2>1, RecursionType
<1>12. from \in [S -> V]
  BY <1>11 DEF Solves
<1>13. from[Len(s) + 1] = <<0>>
  <2>1. Len(s) + 1 \in S /\ Len(s) + 1 > Len(s)
    BY <1>2 DEF S
  <2> QED  BY <1>10, <2>1 DEF terminator
<1>14. ASSUME NEW i \in 1..Len(s)
       PROVE  from[i] = Record(Chunk(s, i)) \o from[next(s, i)]
  <2>1. i \in S /\ ~ (i > Len(s))
    BY <1>2 DEF S
  <2> QED  BY <1>10, <2>1
<1> QED  BY <1>1, <1>12, <1>13, <1>14 DEF Tails, S, V

Walks(a, b, walk) ==
  /\ walk \in [(1..(Len(a) + 1)) \X (1..(Len(b) + 1)) -> {-1, 0, 1}]
  /\ \A j \in 1..(Len(b) + 1) : walk[<<Len(a) + 1, j>>] = Cmp(j, Len(b) + 1)
  /\ \A i \in 1..Len(a) : walk[<<i, Len(b) + 1>>] = 1
  /\ \A i \in 1..Len(a) : \A j \in 1..Len(b) :
       walk[<<i, j>>] = Then(CompareChunk(Chunk(a, i), Chunk(b, j)), walk[<<next(a, i), next(b, j)>>])

LEMMA WalkIs ==
  ASSUME NEW a \in Seq(Nat), NEW b \in Seq(Nat)
  PROVE  \E walk : Walks(a, b, walk) /\ Compare(a, b) = walk[<<1, 1>>]
<1> DEFINE I == 1..(Len(a) + 1)
           J == 1..(Len(b) + 1)
           S == I \X J
           V == {-1, 0, 1}
           One(p) == CompareChunk(Chunk(a, p[1]), Chunk(b, p[2]))
           Follow(p) == <<next(a, p[1]), next(b, p[2])>>
           End(p) == IF p[1] > Len(a) THEN Cmp(p[2], Len(b) + 1) ELSE 1
           Body(f) == [p \in S |-> CASE p[1] > Len(a) -> Cmp(p[2], Len(b) + 1)
                                     [] p[1] <= Len(a) /\ p[2] > Len(b) -> 1
                                     [] OTHER -> Then(One(p), f[Follow(p)])]
           walk == CHOOSE f : f = Body(f)
           Stop == {p \in S : p[1] > Len(a) \/ p[2] > Len(b)}
           size == [p \in S |-> Len(a) + 1 - p[1]]
           base == [p \in S |-> End(p)]
           g == [p \in S |-> Follow(p)]
           h == [q \in S \X V |-> Then(One(q[1]), q[2])]
<1>1. Compare(a, b) = walk[<<1, 1>>]
  BY DEF Compare
<1>2. /\ Len(a) \in Nat /\ Len(b) \in Nat
      /\ \A p \in S : p[1] \in I /\ p[2] \in J /\ p[1] \in Nat /\ p[2] \in Nat
      /\ \A p \in S : p \notin Stop => p[1] \in 1..Len(a) /\ p[2] \in 1..Len(b)
      /\ \A p \in S : p \in Stop <=> p[1] > Len(a) \/ p[2] > Len(b)
  OBVIOUS
<1>3. ASSUME NEW p \in S, p \notin Stop
      PROVE  /\ Follow(p) \in S /\ next(a, p[1]) \in Nat /\ next(a, p[1]) > p[1]
             /\ One(p) \in V
  <2>1. p[1] \in 1..Len(a) /\ p[2] \in 1..Len(b)
    BY <1>2, <1>3
  <2>2. next(a, p[1]) \in (p[1] + 1)..(Len(a) + 1) /\ next(b, p[2]) \in (p[2] + 1)..(Len(b) + 1)
    BY <2>1, NextIs
  <2>3. One(p) \in V
    <3>1. IsChunk(Chunk(a, p[1])) /\ IsChunk(Chunk(b, p[2]))
      BY <2>1, ChunkIs
    <3> QED  BY <3>1, RecordOrder
  <2>4. next(a, p[1]) \in I /\ next(b, p[2]) \in J /\ next(a, p[1]) \in Nat /\ next(a, p[1]) > p[1]
    <3> DEFINE i == p[1]
               j == p[2]
               k == next(a, p[1])
               l == next(b, p[2])
               m == Len(a)
               n == Len(b)
    <3>1. m \in Nat /\ n \in Nat /\ i \in 1..m /\ j \in 1..n /\ k \in (i + 1)..(m + 1) /\ l \in (j + 1)..(n + 1)
      BY <1>2, <2>1, <2>2
    <3> HIDE DEF i, j, k, l, m, n
    <3>2. k \in 1..(m + 1) /\ l \in 1..(n + 1) /\ k \in Nat /\ k > i
      BY <3>1
    <3> QED  BY <3>2 DEF i, k, l, m, n
  <2> QED  BY <2>3, <2>4
<1>4. /\ \A p \in S : base[p] = End(p) /\ g[p] = Follow(p) /\ size[p] = Len(a) + 1 - p[1]
      /\ \A p \in S : End(p) \in V
      /\ \A p \in S : \A v \in V : h[<<p, v>>] = Then(One(p), v)
      /\ size \in [S -> Nat] /\ V # {}
  <2>1. \A p \in S : base[p] = End(p) /\ g[p] = Follow(p) /\ size[p] = Len(a) + 1 - p[1]
    OBVIOUS
  <2>2. \A p \in S : \A v \in V : h[<<p, v>>] = Then(One(p), v)
    <3> HIDE DEF V, S, One
    <3> QED  OBVIOUS
  <2>3. size \in [S -> Nat]
    <3>1. ASSUME NEW p \in S
          PROVE  Len(a) + 1 - p[1] \in Nat
      BY <1>2
    <3> HIDE DEF S
    <3> QED  BY <3>1
  <2>4. ASSUME NEW p \in S
        PROVE  End(p) \in V
    <3>1. Cmp(p[2], Len(b) + 1) \in V
      BY <1>2, CmpIs
    <3> QED  BY <3>1
  <2> HIDE DEF S, base, g, size, h, End
  <2> QED  BY <2>1, <2>2, <2>3, <2>4
<1>5. \A f : f = Body(f) <=> /\ f = [p \in S |-> f[p]]
                             /\ \A p \in S : f[p] = IF p \in Stop THEN End(p) ELSE Then(One(p), f[Follow(p)])
  <2>1. ASSUME NEW f, NEW p \in S
        PROVE  Body(f)[p] = IF p \in Stop THEN End(p) ELSE Then(One(p), f[Follow(p)])
    <3>1. Body(f)[p] = CASE p[1] > Len(a) -> Cmp(p[2], Len(b) + 1)
                         [] p[1] <= Len(a) /\ p[2] > Len(b) -> 1
                         [] OTHER -> Then(One(p), f[Follow(p)])
      <4> HIDE DEF S, One, Follow
      <4> QED  OBVIOUS
    <3> HIDE DEF S, One, Follow, Stop, Body
    <3> QED  BY <1>2, <3>1
  <2>2. \A f : Body(f) = [p \in S |-> Body(f)[p]]
    <3> HIDE DEF S, One, Follow
    <3> QED  OBVIOUS
  <2> HIDE DEF S, One, Follow, Stop, End, Body
  <2> QED  BY <2>1, <2>2
<1>6. \A r \in V, v \in V : Then(r, v) \in V
  BY DEF Then
<1> HIDE DEF S, V, One, Follow, End, Body, Stop, size, base, g, h
<1>7. WellDefined(S, V, size, Stop, base, g, h)
  <2>1. ASSUME NEW p \in S \ Stop
        PROVE  g[p] \in S /\ size[g[p]] < size[p]
    <3>1. g[p] = Follow(p) /\ Follow(p) \in S /\ size[p] = Len(a) + 1 - p[1]
      BY <1>3, <1>4
    <3>2. size[g[p]] = Len(a) + 1 - next(a, p[1])
      BY <1>4, <3>1 DEF Follow
    <3>3. p[1] \in Nat /\ next(a, p[1]) \in Nat /\ next(a, p[1]) > p[1] /\ Len(a) \in Nat
      BY <1>2, <1>3
    <3> QED  BY <3>1, <3>2, <3>3
  <2>2. ASSUME NEW p \in S \ Stop, NEW v \in V
        PROVE  h[<<p, v>>] \in V
    BY <1>3, <1>4, <1>6
  <2>3. \A p \in S \cap Stop : base[p] \in V
    BY <1>4
  <2> QED  BY <1>4, <2>1, <2>2, <2>3 DEF WellDefined
<1>8. walk = Body(walk)
  <2>1. PICK f : Solves(f, S, V, Stop, base, g, h)
    BY <1>7, Recursion
  <2>2. f \in [S -> V] /\ \A p \in S : f[p] = IF p \in Stop THEN base[p] ELSE h[<<p, f[g[p]]>>]
    BY <2>1 DEF Solves
  <2>3. ASSUME NEW p \in S
        PROVE  f[p] = IF p \in Stop THEN End(p) ELSE Then(One(p), f[Follow(p)])
    <3>1. CASE p \in Stop
      BY <1>4, <2>2, <3>1
    <3>2. CASE p \notin Stop
      <4>1. f[p] = h[<<p, f[g[p]]>>] /\ g[p] = Follow(p) /\ Follow(p) \in S
        BY <1>3, <1>4, <2>2, <3>2
      <4>2. f[Follow(p)] \in V
        BY <2>2, <4>1
      <4> QED  BY <1>4, <3>2, <4>1, <4>2
    <3> QED  BY <3>1, <3>2
  <2>4. f = Body(f)
    BY <1>5, <2>2, <2>3
  <2> QED  BY <2>4
<1> HIDE DEF walk
<1>9. /\ walk = [p \in S |-> walk[p]]
      /\ \A p \in S : walk[p] = IF p \in Stop THEN End(p) ELSE Then(One(p), walk[Follow(p)])
  BY <1>5, <1>8
<1>10. Solves(walk, S, V, Stop, base, g, h)
  <2>1. ASSUME NEW p \in S
        PROVE  /\ p \in Stop => walk[p] = base[p]
               /\ p \notin Stop /\ walk[g[p]] \in V => walk[p] = h[<<p, walk[g[p]]>>]
    <3>1. CASE p \in Stop
      BY <1>4, <1>9, <3>1
    <3>2. CASE p \notin Stop /\ walk[g[p]] \in V
      <4>1. walk[p] = Then(One(p), walk[Follow(p)]) /\ g[p] = Follow(p)
        BY <1>4, <1>9, <3>2
      <4> QED  BY <1>4, <3>2, <4>1
    <3> QED  BY <3>1, <3>2
  <2> QED  BY <1>7, <1>9, <2>1, RecursionType
<1>11. walk \in [S -> V]
  BY <1>10 DEF Solves
<1>12. ASSUME NEW j \in 1..(Len(b) + 1)
       PROVE  walk[<<Len(a) + 1, j>>] = Cmp(j, Len(b) + 1)
  <2> DEFINE p == <<Len(a) + 1, j>>
  <2>1. p \in S /\ p[1] > Len(a) /\ p[2] = j
    BY <1>2 DEF S
  <2> HIDE DEF p
  <2>2. p \in Stop
    BY <1>2, <2>1
  <2>3. walk[p] = End(p) /\ End(p) = Cmp(j, Len(b) + 1)
    BY <1>9, <2>1, <2>2 DEF End
  <2> QED  BY <2>3 DEF p
<1>13. ASSUME NEW i \in 1..Len(a)
       PROVE  walk[<<i, Len(b) + 1>>] = 1
  <2> DEFINE p == <<i, Len(b) + 1>>
  <2>1. p \in S /\ ~ (p[1] > Len(a)) /\ p[2] > Len(b)
    BY <1>2 DEF S
  <2> HIDE DEF p
  <2>2. p \in Stop
    BY <1>2, <2>1
  <2>3. walk[p] = End(p) /\ End(p) = 1
    BY <1>9, <2>1, <2>2 DEF End
  <2> QED  BY <2>3 DEF p
<1>14. ASSUME NEW i \in 1..Len(a), NEW j \in 1..Len(b)
       PROVE  walk[<<i, j>>] = Then(CompareChunk(Chunk(a, i), Chunk(b, j)), walk[<<next(a, i), next(b, j)>>])
  <2> DEFINE p == <<i, j>>
  <2>1. p \in S /\ ~ (p[1] > Len(a)) /\ ~ (p[2] > Len(b)) /\ p[1] = i /\ p[2] = j
    BY <1>2 DEF S
  <2> HIDE DEF p
  <2>2. p \notin Stop
    BY <1>2, <2>1
  <2>3. walk[p] = Then(One(p), walk[Follow(p)])
    BY <1>9, <2>1, <2>2
  <2>4. One(p) = CompareChunk(Chunk(a, i), Chunk(b, j)) /\ Follow(p) = <<next(a, i), next(b, j)>>
    BY <2>1 DEF One, Follow
  <2> QED  BY <2>3, <2>4 DEF p
<1> QED  BY <1>1, <1>11, <1>12, <1>13, <1>14 DEF Walks, S, V

(* The keys decide as the comparison does, from every pair of positions on. *)
Decided(a, b, ka, kb, walk) ==
  \A i \in 1..(Len(a) + 1) : \A j \in 1..(Len(b) + 1) : Lexicographic(ka[i], kb[j]) = walk[<<i, j>>]

LEMMA TailsAgree ==
  ASSUME NEW a \in Seq(Nat), NEW b \in Seq(Nat), NEW ka, NEW kb, NEW walk,
         Tails(a, ka), Tails(b, kb), Walks(a, b, walk)
  PROVE  Decided(a, b, ka, kb, walk)
<1> SUFFICES \A i \in 1..(Len(a) + 1) : \A j \in 1..(Len(b) + 1) : Lexicographic(ka[i], kb[j]) = walk[<<i, j>>]
  BY DEF Decided
<1> DEFINE Goal(i, j) == Lexicographic(ka[i], kb[j]) = walk[<<i, j>>]
           P == {n \in Nat : \A i \in 1..(Len(a) + 1) : \A j \in 1..(Len(b) + 1) :
                               n = Len(a) + 1 - i => Goal(i, j)}
<1>1. /\ Len(a) \in Nat /\ Len(b) \in Nat
      /\ \A i \in 1..(Len(a) + 1) : ka[i] \in Seq(Nat)
      /\ \A j \in 1..(Len(b) + 1) : kb[j] \in Seq(Nat)
      /\ ka[Len(a) + 1] = <<0>> /\ kb[Len(b) + 1] = <<0>>
  <2>1. ASSUME NEW s \in Seq(Nat), NEW ks, Tails(s, ks)
        PROVE  ks[Len(s) + 1] = <<0>> /\ \A i \in 1..(Len(s) + 1) : ks[i] \in Seq(Nat)
    <3> DEFINE V == Seq(Nat)
    <3>1. ks \in [1..(Len(s) + 1) -> V] /\ ks[Len(s) + 1] = <<0>>
      BY <2>1 DEF Tails
    <3> HIDE DEF V
    <3>2. ks[Len(s) + 1] = <<0>> /\ \A i \in 1..(Len(s) + 1) : ks[i] \in V
      BY <3>1
    <3> QED  BY <3>2 DEF V
  <2>2. Len(a) \in Nat /\ Len(b) \in Nat
    OBVIOUS
  <2> QED  BY <2>1, <2>2
<1>2. ASSUME NEW s \in Seq(Nat), NEW ks, Tails(s, ks), NEW i \in 1..Len(s)
      PROVE  /\ ks[i] \in Seq(Nat) /\ 1 \in DOMAIN ks[i] /\ ks[i][1] \in {1, 2}
             /\ ks[i] = Record(Chunk(s, i)) \o ks[next(s, i)]
             /\ Record(Chunk(s, i)) \in Seq(Nat) /\ ks[next(s, i)] \in Seq(Nat)
  <2> DEFINE r == Record(Chunk(s, i))
             e == ks[next(s, i)]
  <2>1. r \in Seq(Nat) /\ 1 \in DOMAIN r /\ r[1] \in {1, 2}
    BY ChunkIs, RecordIs
  <2>2. next(s, i) \in 1..(Len(s) + 1) /\ i \in 1..(Len(s) + 1)
    <3>1. next(s, i) \in (i + 1)..(Len(s) + 1)
      BY NextIs
    <3> QED  BY <3>1
  <2>3. e \in Seq(Nat) /\ ks[i] \in Seq(Nat) /\ ks[i] = r \o e
    BY <1>2, <2>2 DEF Tails
  <2> HIDE DEF r, e
  <2>4. 1 \in DOMAIN (r \o e) /\ (r \o e)[1] = r[1]
    BY <2>1, <2>3
  <2> QED  BY <2>1, <2>3, <2>4 DEF r, e
<1>3. ASSUME NEW n \in Nat, \A m \in 0..(n - 1) : m \in P
      PROVE  n \in P
  <2> SUFFICES ASSUME NEW i \in 1..(Len(a) + 1), NEW j \in 1..(Len(b) + 1), n = Len(a) + 1 - i
               PROVE  Goal(i, j)
    OBVIOUS
  <2>1. CASE i = Len(a) + 1 /\ j = Len(b) + 1
    <3>1. <<0>> \in Seq(Nat)
      OBVIOUS
    <3>2. Lexicographic(<<0>>, <<0>>) = 0
      BY <3>1, LexSame
    <3>3. walk[<<i, j>>] = Cmp(j, Len(b) + 1)
      BY <2>1 DEF Walks
    <3>4. Cmp(j, Len(b) + 1) = 0
      BY <1>1, <2>1 DEF Cmp
    <3> QED  BY <1>1, <2>1, <3>2, <3>3, <3>4
  <2>2. CASE i = Len(a) + 1 /\ j # Len(b) + 1
    <3>1. j \in 1..Len(b)
      BY <1>1, <2>2
    <3>2. kb[j] \in Seq(Nat) /\ 1 \in DOMAIN kb[j] /\ kb[j][1] \in {1, 2}
      BY <1>2, <3>1
    <3>3. walk[<<i, j>>] = -1
      <4>1. walk[<<i, j>>] = Cmp(j, Len(b) + 1)
        BY <2>2 DEF Walks
      <4> QED  BY <1>1, <3>1, <4>1 DEF Cmp
    <3> DEFINE z == <<0>>
    <3>4. z \in Seq(Nat) /\ 1 \in DOMAIN z /\ z[1] = 0 /\ ka[i] = z
      BY <1>1, <2>2
    <3> HIDE DEF z
    <3>5. z[1] # kb[j][1] /\ -1 = Cmp(z[1], kb[j][1])
      <4>1. \A y \in {1, 2} : 0 # y /\ -1 = Cmp(0, y)
        BY DEF Cmp
      <4>2. z[1] = 0 /\ kb[j][1] \in {1, 2}
        BY <3>2, <3>4
      <4> QED  BY <4>1, <4>2
    <3>6. Decides(z, kb[j], -1)
      BY <3>2, <3>4, <3>5 DEF Decides
    <3> QED  BY <3>2, <3>3, <3>4, <3>6, LexDecides
  <2>3. CASE i # Len(a) + 1 /\ j = Len(b) + 1
    <3>1. i \in 1..Len(a)
      BY <1>1, <2>3
    <3>2. ka[i] \in Seq(Nat) /\ 1 \in DOMAIN ka[i] /\ ka[i][1] \in {1, 2}
      BY <1>2, <3>1
    <3>3. walk[<<i, j>>] = 1
      BY <2>3, <3>1 DEF Walks
    <3> DEFINE z == <<0>>
    <3>4. z \in Seq(Nat) /\ 1 \in DOMAIN z /\ z[1] = 0 /\ kb[j] = z
      BY <1>1, <2>3
    <3> HIDE DEF z
    <3> DEFINE y == ka[i]
    <3>5. y \in Seq(Nat) /\ 1 \in DOMAIN y /\ y[1] \in {1, 2}
      BY <3>2
    <3> HIDE DEF y
    <3>6. Decides(y, z, 1)
      <4>1. 1 = Cmp(y[1], z[1]) /\ y[1] # z[1]
        BY <3>4, <3>5 DEF Cmp
      <4>2. \A m \in 1..(1 - 1) : y[m] = z[m]
        OBVIOUS
      <4> QED  BY <3>4, <3>5, <4>1, <4>2 DEF Decides
    <3>7. Lexicographic(y, z) = 1
      BY <3>4, <3>5, <3>6, LexDecides
    <3> QED  BY <3>3, <3>4, <3>7 DEF y
  <2>4. CASE i # Len(a) + 1 /\ j # Len(b) + 1
    <3> DEFINE c == Chunk(a, i)
               d == Chunk(b, j)
               x == ka[next(a, i)]
               y == kb[next(b, j)]
    <3>1. i \in 1..Len(a) /\ j \in 1..Len(b)
      BY <1>1, <2>4, SMTT(20)
    <3>2. /\ ka[i] = Record(c) \o x /\ Record(c) \in Seq(Nat) /\ x \in Seq(Nat)
          /\ kb[j] = Record(d) \o y /\ Record(d) \in Seq(Nat) /\ y \in Seq(Nat)
      BY <1>2, <3>1
    <3>3. IsChunk(c) /\ IsChunk(d)
      BY <3>1, ChunkIs
    <3>4. walk[<<i, j>>] = Then(CompareChunk(c, d), walk[<<next(a, i), next(b, j)>>])
      BY <3>1 DEF Walks
    <3>5. Lexicographic(x, y) = walk[<<next(a, i), next(b, j)>>]
      <4>1. next(a, i) \in (i + 1)..(Len(a) + 1) /\ next(b, j) \in (j + 1)..(Len(b) + 1)
        BY <3>1, NextIs
      <4>2. /\ next(a, i) \in 1..(Len(a) + 1) /\ next(b, j) \in 1..(Len(b) + 1)
            /\ Len(a) + 1 - next(a, i) \in 0..(n - 1)
        <5> DEFINE p == next(a, i)
                   q == next(b, j)
        <5>1. p \in (i + 1)..(Len(a) + 1) /\ q \in (j + 1)..(Len(b) + 1)
          BY <4>1
        <5> HIDE DEF p, q
        <5>2. /\ p \in 1..(Len(a) + 1) /\ q \in 1..(Len(b) + 1)
              /\ Len(a) + 1 - p \in 0..(n - 1)
          BY <1>1, <3>1, <5>1
        <5> QED  BY <5>2 DEF p, q
      <4>3. Len(a) + 1 - next(a, i) \in P
        BY <1>3, <4>2
      <4> QED  BY <4>2, <4>3
    <3> HIDE DEF c, d, x, y
    <3>6. CASE c = d
      <4>1. CompareChunk(c, d) = 0
        BY <3>3, <3>6, RecordOrder
      <4>2. Lexicographic(Record(c) \o x, Record(d) \o y) = Lexicographic(x, y)
        BY <3>2, <3>6, LexPrefix
      <4> QED  BY <3>2, <3>4, <3>5, <4>1, <4>2 DEF Then
    <3>7. CASE c # d
      <4>1. CompareChunk(c, d) # 0 /\ Decides(Record(c), Record(d), CompareChunk(c, d))
        BY <3>3, <3>7, RecordOrder
      <4>2. Decides(Record(c) \o x, Record(d) \o y, CompareChunk(c, d))
        BY <3>2, <4>1, DecidesMore
      <4>3. ka[i] \in Seq(Nat) /\ kb[j] \in Seq(Nat)
        BY <1>1
      <4>4. Lexicographic(ka[i], kb[j]) = CompareChunk(c, d)
        BY <3>2, <4>2, <4>3, LexDecides
      <4> QED  BY <3>4, <4>1, <4>4 DEF Then
    <3> QED  BY <3>6, <3>7
  <2> QED  BY <2>1, <2>2, <2>3, <2>4
<1>4. P = Nat
  <2>1. P \in SUBSET Nat
    OBVIOUS
  <2> HIDE DEF P
  <2> QED  BY <1>3, <2>1, NatSet
<1> SUFFICES ASSUME NEW i \in 1..(Len(a) + 1), NEW j \in 1..(Len(b) + 1)
             PROVE  Goal(i, j)
  OBVIOUS
<1>5. Len(a) + 1 - i \in P
  <2>1. Len(a) + 1 - i \in Nat
    BY <1>1
  <2> QED  BY <1>4, <2>1
<1> QED  BY <1>5

(* A comparison that nothing decides has compared the same names.           *)
LEMMA SameTails ==
  ASSUME NEW a \in Seq(Nat), NEW b \in Seq(Nat), NEW walk, Walks(a, b, walk), walk[<<1, 1>>] = 0
  PROVE  a = b
<1> DEFINE Goal(i, j) == /\ Len(a) - i = Len(b) - j
                         /\ \A k \in 0..(Len(a) - i) : a[i + k] = b[j + k]
           P == {n \in Nat : \A i \in 1..(Len(a) + 1) : \A j \in 1..(Len(b) + 1) :
                               n = Len(a) + 1 - i /\ walk[<<i, j>>] = 0 => Goal(i, j)}
<1>1. Len(a) \in Nat /\ Len(b) \in Nat
  OBVIOUS
<1>2. ASSUME NEW n \in Nat, \A m \in 0..(n - 1) : m \in P
      PROVE  n \in P
  <2> SUFFICES ASSUME NEW i \in 1..(Len(a) + 1), NEW j \in 1..(Len(b) + 1), n = Len(a) + 1 - i,
                      walk[<<i, j>>] = 0
               PROVE  Goal(i, j)
    OBVIOUS
  <2>1. CASE i = Len(a) + 1
    <3>1. Cmp(j, Len(b) + 1) = 0
      BY <2>1 DEF Walks
    <3>2. j = Len(b) + 1
      BY <1>1, <3>1 DEF Cmp
    <3> QED  BY <1>1, <2>1, <3>2
  <2>2. CASE i # Len(a) + 1 /\ j = Len(b) + 1
    <3>1. i \in 1..Len(a)
      BY <1>1, <2>2
    <3>2. walk[<<i, j>>] = 1
      BY <2>2, <3>1 DEF Walks
    <3> QED  BY <3>2
  <2>3. CASE i # Len(a) + 1 /\ j # Len(b) + 1
    <3> DEFINE c == Chunk(a, i)
               d == Chunk(b, j)
               p == next(a, i)
               q == next(b, j)
    <3>1. i \in 1..Len(a) /\ j \in 1..Len(b)
      <4> DEFINE la == Len(a)
                 lb == Len(b)
      <4>1. la \in Nat /\ lb \in Nat /\ i \in 1..(la + 1) /\ j \in 1..(lb + 1) /\ i # la + 1 /\ j # lb + 1
        BY <1>1, <2>3
      <4> HIDE DEF la, lb
      <4>2. i \in 1..la /\ j \in 1..lb
        BY <4>1
      <4> QED  BY <4>2 DEF la, lb
    <3>2. /\ IsChunk(c) /\ Len(c) = p - i /\ \A k \in 1..(p - i) : c[k] = a[i + k - 1]
          /\ IsChunk(d) /\ Len(d) = q - j /\ \A k \in 1..(q - j) : d[k] = b[j + k - 1]
      BY <3>1, ChunkIs
    <3>3. p \in (i + 1)..(Len(a) + 1) /\ q \in (j + 1)..(Len(b) + 1)
      BY <3>1, NextIs
    <3>4. walk[<<i, j>>] = Then(CompareChunk(c, d), walk[<<p, q>>])
      BY <3>1 DEF Walks
    <3> HIDE DEF c, d, p, q
    <3>5. CompareChunk(c, d) = 0 /\ walk[<<p, q>>] = 0
      BY <3>4 DEF Then
    <3>6. c = d
      BY <3>2, <3>5, RecordOrder
    <3>7. p - i = q - j
      BY <3>2, <3>6
    <3>8. Goal(p, q)
      <4>1. p \in 1..(Len(a) + 1) /\ q \in 1..(Len(b) + 1) /\ Len(a) + 1 - p \in 0..(n - 1)
        <5> DEFINE la == Len(a)
                   lb == Len(b)
        <5>1. la \in Nat /\ lb \in Nat /\ n = la + 1 - i /\ i \in 1..la /\ j \in 1..lb
              /\ p \in (i + 1)..(la + 1) /\ q \in (j + 1)..(lb + 1)
          BY <1>1, <3>1, <3>3
        <5> HIDE DEF la, lb
        <5>2. p \in 1..(la + 1) /\ q \in 1..(lb + 1) /\ la + 1 - p \in 0..(n - 1)
          BY <5>1
        <5> QED  BY <5>2 DEF la, lb
      <4>2. Len(a) + 1 - p \in P
        BY <1>2, <4>1
      <4> QED  BY <3>5, <4>1, <4>2
    <3>9. Len(a) - i = Len(b) - j
      <4>1. Len(a) - p = Len(b) - q
        BY <3>8
      <4>2. i \in Nat /\ j \in Nat /\ p \in Nat /\ q \in Nat
        BY <1>1, <3>1, <3>3
      <4> DEFINE l == Len(a)
                 m == Len(b)
      <4>3. l \in Nat /\ m \in Nat /\ l - p = m - q
        BY <1>1, <4>1
      <4> HIDE DEF l, m
      <4>4. l - i = m - j
        BY <3>7, <4>2, <4>3
      <4> QED  BY <4>4 DEF l, m
    <3>10. ASSUME NEW k \in 0..(Len(a) - i)
           PROVE  a[i + k] = b[j + k]
      <4>1. CASE k < p - i
        <5>1. k + 1 \in 1..(p - i) /\ k + 1 \in 1..(q - j) /\ i + (k + 1) - 1 = i + k /\ j + (k + 1) - 1 = j + k
          BY <3>1, <3>3, <3>7, <4>1
        <5>2. c[k + 1] = a[i + (k + 1) - 1] /\ d[k + 1] = b[j + (k + 1) - 1]
          BY <3>2, <5>1
        <5> QED  BY <3>6, <5>1, <5>2
      <4>2. CASE ~ (k < p - i)
        <5> DEFINE l == k - (p - i)
        <5>1. l \in 0..(Len(a) - p) /\ p + l = i + k /\ q + l = j + k
          BY <1>1, <3>1, <3>3, <3>7, <4>2
        <5> HIDE DEF l
        <5>2. a[p + l] = b[q + l]
          BY <3>8, <5>1
        <5> QED  BY <5>1, <5>2
      <4> QED  BY <4>1, <4>2
    <3> QED  BY <3>9, <3>10
  <2> QED  BY <2>1, <2>2, <2>3
<1>3. P = Nat
  <2>1. P \in SUBSET Nat
    OBVIOUS
  <2> HIDE DEF P
  <2> QED  BY <1>2, <2>1, NatSet
<1>4. Goal(1, 1)
  <2>1. Len(a) + 1 - 1 \in Nat /\ 1 \in 1..(Len(a) + 1) /\ 1 \in 1..(Len(b) + 1)
    BY <1>1
  <2>2. Len(a) + 1 - 1 \in P
    BY <1>3, <2>1
  <2> QED  BY <2>1, <2>2
<1>5. ASSUME NEW k \in 1..Len(a)
      PROVE  a[k] = b[k]
  <2>1. k - 1 \in 0..(Len(a) - 1) /\ 1 + (k - 1) = k
    BY <1>1
  <2>2. a[1 + (k - 1)] = b[1 + (k - 1)]
    BY <1>4, <2>1
  <2> QED  BY <2>1, <2>2
<1>6. Len(a) = Len(b)
  <2>1. Len(a) - 1 = Len(b) - 1
    BY <1>4
  <2> DEFINE l == Len(a)
             m == Len(b)
  <2>2. l \in Nat /\ m \in Nat /\ l - 1 = m - 1
    BY <1>1, <2>1
  <2> HIDE DEF l, m
  <2>3. l = m
    BY <2>2
  <2> QED  BY <2>3 DEF l, m
<1>7. a = [k \in 1..Len(a) |-> a[k]] /\ b = [k \in 1..Len(b) |-> b[k]]
  OBVIOUS
<1> HIDE DEF P, Goal
<1> QED  BY <1>5, <1>6, <1>7

LEMMA KeysAgree ==
  ASSUME NEW a \in Seq(Nat), NEW b \in Seq(Nat)
  PROVE  /\ Lexicographic(Key(a), Key(b)) = Compare(a, b)
         /\ Compare(a, b) = 0 <=> a = b
         /\ Compare(b, a) = - Compare(a, b)
<1>1. ASSUME NEW s \in Seq(Nat), NEW t \in Seq(Nat)
      PROVE  /\ Lexicographic(Key(s), Key(t)) = Compare(s, t)
             /\ Compare(s, t) = 0 => s = t
             /\ Key(s) \in Seq(Nat) /\ Key(t) \in Seq(Nat)
  <2>1. PICK ks : Tails(s, ks) /\ Key(s) = ks[1]
    BY KeyIs
  <2>2. PICK kt : Tails(t, kt) /\ Key(t) = kt[1]
    BY KeyIs
  <2>3. PICK walk : Walks(s, t, walk) /\ Compare(s, t) = walk[<<1, 1>>]
    BY WalkIs
  <2>4. 1 \in 1..(Len(s) + 1) /\ 1 \in 1..(Len(t) + 1)
    OBVIOUS
  <2>5. Lexicographic(ks[1], kt[1]) = walk[<<1, 1>>]
    <3>1. Decided(s, t, ks, kt, walk)
      BY <2>1, <2>2, <2>3, TailsAgree
    <3> QED  BY <2>4, <3>1 DEF Decided
  <2>6. walk[<<1, 1>>] = 0 => s = t
    BY <2>3, SameTails
  <2>7. ks[1] \in Seq(Nat)
    BY <2>1, <2>4 DEF Tails
  <2>8. kt[1] \in Seq(Nat)
    BY <2>2, <2>4 DEF Tails
  <2>9. Lexicographic(Key(s), Key(t)) = Compare(s, t)
    BY <2>1, <2>2, <2>3, <2>5
  <2>10. Compare(s, t) = 0 => s = t
    BY <2>3, <2>6
  <2>11. Key(s) \in Seq(Nat) /\ Key(t) \in Seq(Nat)
    BY <2>1, <2>2, <2>7, <2>8
  <2> QED  BY <2>9, <2>10, <2>11
<1>2. a = b => Compare(a, b) = 0
  <2> SUFFICES ASSUME a = b
               PROVE  Compare(a, b) = 0
    OBVIOUS
  <2>1. Lexicographic(Key(a), Key(b)) = 0
    <3>1. Key(a) \in Seq(Nat) /\ Key(a) = Key(b)
      BY <1>1
    <3> QED  BY <3>1, LexSame
  <2> QED  BY <1>1, <2>1
<1>3. Compare(b, a) = - Compare(a, b)
  <2>1. Lexicographic(Key(b), Key(a)) = - Lexicographic(Key(a), Key(b))
    BY <1>1, LexSame
  <2>2. Lexicographic(Key(a), Key(b)) = Compare(a, b) /\ Lexicographic(Key(b), Key(a)) = Compare(b, a)
    BY <1>1
  <2> QED  BY <2>1, <2>2
<1> QED  BY <1>1, <1>2, <1>3

(* For names of any length over any alphabet: the database orders the keys  *)
(* as the program orders the names, and no two names are equal.             *)
THEOREM SortKeyAlwaysAgrees == noSpec => []SortKeyAgrees
<1> DEFINE Typed == left \in Seq(Alphabet) /\ right \in Seq(Alphabet)
<1>1. noInit => Typed
  BY DEF noInit
<1>2. Typed /\ [Type]_<<left, right>> => Typed'
  <2>1. ASSUME NEW s \in Seq(Alphabet), NEW r \in Alphabet
        PROVE  Append(s, r) \in Seq(Alphabet)
    OBVIOUS
  <2>2. CASE UNCHANGED <<left, right>>
    BY <2>2
  <2>3. CASE Type
    BY <2>1, <2>3 DEF Type
  <2> QED  BY <2>2, <2>3
<1>3. Typed => SortKeyAgrees
  <2> SUFFICES ASSUME Typed
               PROVE  SortKeyAgrees
    OBVIOUS
  <2>1. left \in Seq(Nat) /\ right \in Seq(Nat)
    <3>1. ASSUME NEW s \in Seq(Alphabet)
          PROVE  s \in Seq(Nat)
      <4>1. s \in [1..Len(s) -> Alphabet] /\ Len(s) \in Nat
        OBVIOUS
      <4>2. s \in [1..Len(s) -> Nat]
        BY <4>1, NameAssumption
      <4> QED  BY <4>1, <4>2
    <3> QED  BY <3>1
  <2>2. /\ Lexicographic(Key(left), Key(right)) = Compare(left, right)
        /\ Compare(left, right) = 0 <=> left = right
        /\ Compare(right, left) = - Compare(left, right)
    BY <2>1, KeysAgree
  <2> QED  BY <2>2 DEF SortKeyAgrees
<1> QED  BY <1>1, <1>2, <1>3, PTL DEF noSpec

------------------------------------------------------------------------------
(* A strict order of all members of a set, and the list it makes.           *)
Orders(R, S) ==
  /\ \A d \in S : <<d, d>> \notin R
  /\ \A d, e \in S : d # e => <<d, e>> \in R \/ <<e, d>> \in R
  /\ \A d, e, f \in S : <<d, e>> \in R /\ <<e, f>> \in R => <<d, f>> \in R
Lists(s, S, R) ==
  /\ Len(s) \in Nat /\ s \in [1..Len(s) -> S] /\ DOMAIN s = 1..Len(s)
  /\ \A e \in S : \E k \in 1..Len(s) : s[k] = e
  /\ \A j, k \in 1..Len(s) : j < k => <<s[j], s[k]>> \in R
  /\ \A j, k \in 1..Len(s) : s[j] = s[k] => j = k

LEMMA InOrderIs ==
  ASSUME NEW S, IsFiniteSet(S), NEW R, Orders(R, S)
  PROVE  Lists(InOrder(S, R), S, R) /\ Len(InOrder(S, R)) = Cardinality(S)
<1> DEFINE n == Cardinality(S)
           Below(e) == {d \in S : <<d, e>> \in R}
           s == InOrder(S, R)
<1>1. n \in Nat
  BY FS_CardinalityType
<1>2. ASSUME NEW e \in S
      PROVE  /\ IsFiniteSet(Below(e)) /\ Cardinality(Below(e)) \in Nat
             /\ Cardinality(Below(e)) < n
  <2>1. Below(e) \subseteq S \ {e}
    BY DEF Orders
  <2>2. IsFiniteSet(S \ {e}) /\ Cardinality(S \ {e}) = n - 1
    BY FS_RemoveElement
  <2> HIDE DEF Below, n
  <2>3. IsFiniteSet(Below(e)) /\ Cardinality(Below(e)) <= n - 1
    BY <2>1, <2>2, FS_Subset
  <2>4. Cardinality(Below(e)) \in Nat
    BY <2>3, FS_CardinalityType
  <2> QED  BY <1>1, <2>3, <2>4
<1>3. ASSUME NEW d \in S, NEW e \in S, <<d, e>> \in R
      PROVE  Cardinality(Below(d)) < Cardinality(Below(e))
  <2>1. Below(d) \subseteq Below(e) /\ d \in Below(e) /\ d \notin Below(d)
    BY <1>3 DEF Orders
  <2> HIDE DEF Below
  <2>2. Cardinality(Below(d)) <= Cardinality(Below(e)) /\ Cardinality(Below(d)) # Cardinality(Below(e))
    BY <1>2, <2>1, FS_Subset
  <2>3. Cardinality(Below(d)) \in Nat /\ Cardinality(Below(e)) \in Nat
    BY <1>2
  <2> QED  BY <2>2, <2>3
<1> DEFINE rank == [e \in S |-> Cardinality(Below(e))]
<1>4. \A e \in S : rank[e] = Rank(S, R, e) /\ rank[e] = Cardinality(Below(e))
  BY DEF Rank
<1> HIDE DEF Below, n
<1>5. rank \in [S -> 0..(n - 1)]
  BY <1>1, <1>2
<1>6. \A d, e \in S : rank[d] = rank[e] => d = e
  <2> SUFFICES ASSUME NEW d \in S, NEW e \in S, rank[d] = rank[e], d # e
               PROVE  FALSE
    OBVIOUS
  <2>1. rank[d] < rank[e] \/ rank[e] < rank[d]
    BY <1>3, <1>4 DEF Orders
  <2>2. rank[d] \in Nat
    BY <1>2, <1>4
  <2> QED  BY <2>1, <2>2
<1> HIDE DEF rank
<1>7. \A k \in 0..(n - 1) : \E e \in S : rank[e] = k
  <2>1. rank \in Injection(S, 0..(n - 1))
    BY <1>5, <1>6 DEF Injection, IsInjective
  <2>2. IsFiniteSet(0..(n - 1)) /\ Cardinality(0..(n - 1)) = n
    <3>1. IsFiniteSet(0..(n - 1)) /\ Cardinality(0..(n - 1)) = IF 0 > n - 1 THEN 0 ELSE n - 1 - 0 + 1
      BY <1>1, FS_Interval
    <3> QED  BY <1>1, <3>1
  <2>3. rank \in Surjection(S, 0..(n - 1))
    BY <2>1, <2>2, FS_Injection DEF n
  <2> QED  BY <2>3 DEF Surjection
<1>8. s = [k \in 1..n |-> CHOOSE e \in S : rank[e] = k - 1]
  BY <1>4 DEF InOrder, n
<1>9. \A k \in 1..n : s[k] \in S /\ rank[s[k]] = k - 1
  <2> SUFFICES ASSUME NEW k \in 1..n
               PROVE  s[k] \in S /\ rank[s[k]] = k - 1
    OBVIOUS
  <2>1. k - 1 \in 0..(n - 1)
    BY <1>1
  <2>2. \E e \in S : rank[e] = k - 1
    BY <1>7, <2>1
  <2> QED  BY <1>8, <2>2
<1>10. s \in [1..n -> S] /\ Len(s) = n /\ DOMAIN s = 1..n
  BY <1>1, <1>8, <1>9
<1>11. ASSUME NEW e \in S
       PROVE  \E k \in 1..n : s[k] = e
  <2>1. rank[e] + 1 \in 1..n /\ (rank[e] + 1) - 1 = rank[e]
    BY <1>1, <1>5
  <2>2. s[rank[e] + 1] \in S /\ rank[s[rank[e] + 1]] = rank[e]
    BY <1>9, <2>1
  <2> QED  BY <1>6, <2>1, <2>2
<1>12. ASSUME NEW j \in 1..n, NEW k \in 1..n, j < k
       PROVE  <<s[j], s[k]>> \in R
  <2>1. rank[s[j]] = j - 1 /\ rank[s[k]] = k - 1 /\ s[j] \in S /\ s[k] \in S
    BY <1>9
  <2>2. ~ (rank[s[k]] < rank[s[j]]) /\ rank[s[k]] # rank[s[j]]
    BY <1>1, <1>12, <2>1
  <2>3. s[j] # s[k] /\ <<s[k], s[j]>> \notin R
    BY <1>3, <1>4, <2>1, <2>2
  <2> QED  BY <2>1, <2>3 DEF Orders
<1>13. ASSUME NEW j \in 1..n, NEW k \in 1..n, s[j] = s[k]
       PROVE  j = k
  <2>1. j - 1 = k - 1
    BY <1>9, <1>13
  <2> QED  BY <1>1, <2>1
<1> HIDE DEF s
<1>14. Lists(s, S, R) /\ Len(s) = n
  BY <1>1, <1>10, <1>11, <1>12, <1>13 DEF Lists
<1> QED  BY <1>14 DEF s, n

(* A part of a list keeps the order of the list.                            *)
Picks(u, s, S, T) ==
  /\ Len(u) \in Nat /\ u \in [1..Len(u) -> S \cap T] /\ DOMAIN u = 1..Len(u)
  /\ \E at \in [1..Len(u) -> 1..Len(s)] :
       /\ \A k \in 1..Len(u) : u[k] = s[at[k]]
       /\ \A j, k \in 1..Len(u) : j < k => at[j] < at[k]
  /\ \A i \in 1..Len(s) : s[i] \in T => \E k \in 1..Len(u) : u[k] = s[i]

LEMMA SelectedIs ==
  ASSUME NEW S, NEW s, Len(s) \in Nat, s \in [1..Len(s) -> S], DOMAIN s = 1..Len(s), NEW T
  PROVE  Picks(Selected(s, T), s, S, T)
<1> DEFINE at == {i \in DOMAIN s : s[i] \in T}
           R == {p \in at \X at : p[1] < p[2]}
           order == InOrder(at, R)
           u == Selected(s, T)
<1>1. u = [k \in DOMAIN order |-> s[order[k]]]
  BY DEF Selected
<1>2. at \subseteq 1..Len(s)
  OBVIOUS
<1>3. IsFiniteSet(at)
  <2>1. IsFiniteSet(1..Len(s))
    BY FS_Interval
  <2> HIDE DEF at
  <2> QED  BY <1>2, <2>1, FS_Subset
<1>4. \A i, j \in at : <<i, j>> \in R <=> i < j
  OBVIOUS
<1>5. Orders(R, at)
  <2> HIDE DEF R
  <2>1. \A i, j \in at : i \in Nat /\ j \in Nat
    BY <1>2
  <2> HIDE DEF at
  <2>2. \A i \in at : <<i, i>> \notin R
    BY <1>4, <2>1
  <2>3. \A i, j \in at : i # j => <<i, j>> \in R \/ <<j, i>> \in R
    BY <1>4, <2>1
  <2>4. \A i, j, k \in at : <<i, j>> \in R /\ <<j, k>> \in R => <<i, k>> \in R
    BY <1>4, <2>1
  <2> QED  BY <2>2, <2>3, <2>4 DEF Orders
<1>6. Lists(order, at, R)
  <2> HIDE DEF at, R
  <2> QED  BY <1>3, <1>5, InOrderIs
<1> DEFINE n == Len(order)
<1>7. /\ n \in Nat /\ DOMAIN order = 1..n
      /\ \A k \in 1..n : order[k] \in at
      /\ \A i \in at : \E k \in 1..n : order[k] = i
      /\ \A j, k \in 1..n : j < k => order[j] < order[k]
  <2> HIDE DEF at, R, order
  <2>1. /\ n \in Nat /\ DOMAIN order = 1..n /\ \A k \in 1..n : order[k] \in at
        /\ \A i \in at : \E k \in 1..n : order[k] = i
    BY <1>6 DEF Lists
  <2>2. \A j, k \in 1..n : j < k => <<order[j], order[k]>> \in R
    BY <1>6 DEF Lists
  <2> QED  BY <1>4, <2>1, <2>2
<1>8. \A i \in at : i \in 1..Len(s) /\ s[i] \in S \cap T
  OBVIOUS
<1>9. \A i \in 1..Len(s) : s[i] \in T => i \in at
  OBVIOUS
<1> HIDE DEF at, R, order, n
<1>10. u = [k \in 1..n |-> s[order[k]]]
  BY <1>1, <1>7
<1> HIDE DEF u
<1>11. Len(u) = n /\ DOMAIN u = 1..n /\ u \in [1..n -> S \cap T]
  BY <1>7, <1>8, <1>10
<1>12. \E a \in [1..n -> 1..Len(s)] :
         /\ \A k \in 1..n : u[k] = s[a[k]]
         /\ \A j, k \in 1..n : j < k => a[j] < a[k]
  <2> DEFINE a == [k \in 1..n |-> order[k]]
  <2>1. a \in [1..n -> 1..Len(s)]
    BY <1>7, <1>8
  <2>2. \A k \in 1..n : u[k] = s[a[k]]
    BY <1>10
  <2>3. \A j, k \in 1..n : j < k => a[j] < a[k]
    BY <1>7
  <2> HIDE DEF a
  <2> QED  BY <2>1, <2>2, <2>3
<1>13. ASSUME NEW i \in 1..Len(s), s[i] \in T
       PROVE  \E k \in 1..n : u[k] = s[i]
  <2>1. PICK k \in 1..n : order[k] = i
    BY <1>7, <1>9, <1>13
  <2>2. u[k] = s[i]
    BY <1>10, <2>1
  <2> QED  BY <2>2
<1> QED  BY <1>7, <1>11, <1>12, <1>13 DEF u, Picks

------------------------------------------------------------------------------
(* Paths.                                                                  *)
LEMMA PartIs ==
  ASSUME NEW s \in Seq(Int), NEW n \in 0..Len(s)
  PROVE  SubSeq(s, 1, n) \in Seq(Int) /\ Len(SubSeq(s, 1, n)) = n /\ \A i \in 1..n : SubSeq(s, 1, n)[i] = s[i]
<1>1. n \in Nat /\ \A i \in 1..n : s[i] \in Int
  OBVIOUS
<1>2. /\ SubSeq(s, 1, n) \in Seq(Int)
      /\ Len(SubSeq(s, 1, n)) = IF 1 <= n THEN n - 1 + 1 ELSE 0
      /\ \A i \in 1..(n - 1 + 1) : SubSeq(s, 1, n)[i] = s[1 + i - 1]
  BY <1>1, SubSeqProperties
<1>3. n - 1 + 1 = n /\ (~ (1 <= n) => n = 0) /\ \A i \in 1..n : 1 + i - 1 = i
  BY <1>1
<1> QED  BY <1>2, <1>3

LEMMA PrefixIs ==
  ASSUME NEW s \in Seq(Int), NEW t \in Seq(Int)
  PROVE  IsPrefix(s, t) <=> Len(s) <= Len(t) /\ \A i \in 1..Len(s) : s[i] = t[i]
<1>1. SubSeq(s, 1, Len(s)) \in Seq(Int) /\ Len(SubSeq(s, 1, Len(s))) = Len(s)
      /\ \A i \in 1..Len(s) : SubSeq(s, 1, Len(s))[i] = s[i]
  <2>1. Len(s) \in 0..Len(s)
    OBVIOUS
  <2> QED  BY <2>1, PartIs
<1>2. ASSUME Len(s) <= Len(t)
      PROVE  /\ SubSeq(t, 1, Len(s)) \in Seq(Int) /\ Len(SubSeq(t, 1, Len(s))) = Len(s)
             /\ \A i \in 1..Len(s) : SubSeq(t, 1, Len(s))[i] = t[i]
  <2>1. Len(s) \in 0..Len(t)
    BY <1>2
  <2> QED  BY <2>1, PartIs
<1> DEFINE u == SubSeq(s, 1, Len(s))
           v == SubSeq(t, 1, Len(s))
<1>3. IsPrefix(s, t) <=> Len(s) <= Len(t) /\ u = v
  BY DEF IsPrefix
<1> HIDE DEF u, v
<1>4. ASSUME Len(s) <= Len(t)
      PROVE  u = v <=> \A i \in 1..Len(s) : s[i] = t[i]
  <2>1. u \in Seq(Int) /\ v \in Seq(Int) /\ Len(u) = Len(s) /\ Len(v) = Len(s)
    BY <1>1, <1>2, <1>4 DEF u, v
  <2>2. \A i \in 1..Len(s) : u[i] = s[i] /\ v[i] = t[i]
    BY <1>1, <1>2, <1>4 DEF u, v
  <2>3. ASSUME \A i \in 1..Len(s) : u[i] = v[i]
        PROVE  u = v
    <3>1. u = [i \in 1..Len(u) |-> u[i]] /\ v = [i \in 1..Len(v) |-> v[i]]
      BY <2>1
    <3> QED  BY <2>1, <2>3, <3>1
  <2> QED  BY <2>2, <2>3
<1> QED  BY <1>3, <1>4

(* The first place where two paths differ, if they do in what both have.     *)
LEMMA LessIs ==
  ASSUME NEW a \in Seq(Int), NEW b \in Seq(Int)
  PROVE  Less(a, b) <=>
           \E n \in Nat : /\ n <= Len(a) /\ n < Len(b) /\ \A j \in 1..n : a[j] = b[j]
                          /\ n = Len(a) \/ (n < Len(a) /\ a[n + 1] < b[n + 1])
<1>1. Len(a) \in Nat /\ Len(b) \in Nat /\ DOMAIN a = 1..Len(a) /\ DOMAIN b = 1..Len(b)
  OBVIOUS
<1>2. IsStrictPrefix(a, b) <=> Len(a) < Len(b) /\ \A j \in 1..Len(a) : a[j] = b[j]
  <2>1. IsPrefix(a, b) <=> Len(a) <= Len(b) /\ \A j \in 1..Len(a) : a[j] = b[j]
    BY PrefixIs
  <2>2. ASSUME Len(a) <= Len(b), \A j \in 1..Len(a) : a[j] = b[j]
        PROVE  a # b <=> Len(a) < Len(b)
    BY <1>1, <2>2
  <2> QED  BY <1>1, <2>1, <2>2 DEF IsStrictPrefix
<1>3. ASSUME Less(a, b)
      PROVE  \E n \in Nat : /\ n <= Len(a) /\ n < Len(b) /\ \A j \in 1..n : a[j] = b[j]
                            /\ n = Len(a) \/ (n < Len(a) /\ a[n + 1] < b[n + 1])
  <2>1. CASE IsStrictPrefix(a, b)
    <3> DEFINE n == Len(a)
    <3>1. n \in Nat /\ n < Len(b) /\ n <= Len(a) /\ n = Len(a) /\ \A j \in 1..n : a[j] = b[j]
      BY <1>1, <1>2, <2>1
    <3> HIDE DEF n
    <3> QED  BY <3>1
  <2>2. CASE \E i \in DOMAIN a \cap DOMAIN b : a[i] < b[i] /\ \A j \in 1..(i - 1) : a[j] = b[j]
    <3>1. PICK i \in 1..Len(a) : i <= Len(b) /\ a[i] < b[i] /\ \A j \in 1..(i - 1) : a[j] = b[j]
      <4>1. PICK i \in DOMAIN a \cap DOMAIN b : a[i] < b[i] /\ \A j \in 1..(i - 1) : a[j] = b[j]
        BY <2>2
      <4>2. i \in 1..Len(a) /\ i <= Len(b)
        BY <1>1, <4>1
      <4> QED  BY <4>1, <4>2
    <3> DEFINE n == i - 1
    <3>2. n \in Nat /\ n + 1 = i /\ n < Len(a) /\ n < Len(b) /\ n <= Len(a)
      BY <1>1, <3>1
    <3>3. \A j \in 1..n : a[j] = b[j]
      BY <3>1
    <3> HIDE DEF n
    <3> QED  BY <3>1, <3>2, <3>3
  <2> QED  BY <1>3, <2>1, <2>2 DEF Less
<1>4. ASSUME NEW n \in Nat, n <= Len(a), n < Len(b), \A j \in 1..n : a[j] = b[j],
             n = Len(a) \/ (n < Len(a) /\ a[n + 1] < b[n + 1])
      PROVE  Less(a, b)
  <2>1. CASE n = Len(a)
    BY <1>2, <1>4, <2>1 DEF Less
  <2>2. CASE n < Len(a) /\ a[n + 1] < b[n + 1]
    <3> DEFINE i == n + 1
    <3>1. i \in DOMAIN a \cap DOMAIN b /\ i - 1 = n
      <4>1. i \in 1..Len(a) /\ i \in 1..Len(b) /\ i - 1 = n
        <5> DEFINE x == Len(a)
                   y == Len(b)
        <5>1. x \in Nat /\ y \in Nat /\ n < x /\ n < y
          BY <1>1, <1>4, <2>2
        <5> HIDE DEF x, y
        <5>2. n + 1 \in 1..x /\ n + 1 \in 1..y /\ (n + 1) - 1 = n
          BY <5>1
        <5> QED  BY <5>2 DEF x, y
      <4> HIDE DEF i
      <4> QED  BY <1>1, <4>1
    <3>2. \A j \in 1..(i - 1) : a[j] = b[j]
      BY <1>4, <3>1
    <3> HIDE DEF i
    <3>3. a[i] < b[i]
      BY <2>2 DEF i
    <3> QED  BY <3>1, <3>2, <3>3 DEF Less
  <2> QED  BY <1>4, <2>1, <2>2
<1> QED  BY <1>3, <1>4

LEMMA LessOrders ==
  ASSUME NEW a \in Seq(Int), NEW b \in Seq(Int), NEW c \in Seq(Int)
  PROVE  /\ ~ Less(a, a)
         /\ a # b => Less(a, b) \/ Less(b, a)
         /\ Less(a, b) /\ Less(b, c) => Less(a, c)
<1>1. Len(a) \in Nat /\ Len(b) \in Nat /\ Len(c) \in Nat
  OBVIOUS
<1>2. ~ Less(a, a)
  <2> SUFFICES ASSUME Less(a, a)
               PROVE  FALSE
    OBVIOUS
  <2>1. PICK n \in Nat : /\ n < Len(a)
                         /\ n = Len(a) \/ (n < Len(a) /\ a[n + 1] < a[n + 1])
    BY LessIs
  <2>2. a[n + 1] \in Int
    BY <2>1
  <2> QED  BY <1>1, <2>1, <2>2
<1>3. ASSUME a # b
      PROVE  Less(a, b) \/ Less(b, a)
  <2> DEFINE T == {n \in Nat : n = Len(a) \/ n = Len(b) \/ (n < Len(a) /\ n < Len(b) /\ a[n + 1] # b[n + 1])}
  <2>1. T \in SUBSET Nat /\ T # {}
    BY <1>1
  <2>2. PICK n \in T : \A m \in T : n <= m
    <3> HIDE DEF T
    <3> QED  BY <2>1, Least
  <2>3. n \in Nat /\ n <= Len(a) /\ n <= Len(b)
    BY <1>1, <2>2
  <2>4. \A j \in 1..n : a[j] = b[j]
    <3> SUFFICES ASSUME NEW j \in 1..n
                 PROVE  a[j] = b[j]
      OBVIOUS
    <3>1. j - 1 \in Nat /\ j - 1 < n /\ (j - 1) + 1 = j /\ j - 1 < Len(a) /\ j - 1 < Len(b)
      <4> DEFINE m == Len(a)
                 l == Len(b)
      <4>1. m \in Nat /\ l \in Nat /\ n \in Nat /\ n <= m /\ n <= l
        BY <1>1, <2>3
      <4> HIDE DEF m, l
      <4>2. j - 1 \in Nat /\ j - 1 < n /\ (j - 1) + 1 = j /\ j - 1 < m /\ j - 1 < l
        BY <4>1
      <4> QED  BY <4>2 DEF m, l
    <3>2. j - 1 \notin T
      <4> HIDE DEF T
      <4> QED  BY <2>2, <2>3, <3>1
    <3> QED  BY <3>1, <3>2
  <2>5. CASE n = Len(a) /\ n = Len(b)
    <3>1. a = [j \in 1..Len(a) |-> a[j]] /\ b = [j \in 1..Len(b) |-> b[j]]
      OBVIOUS
    <3>2. a = b
      BY <2>4, <2>5, <3>1
    <3> QED  BY <1>3, <3>2
  <2>6. CASE n = Len(a) /\ n # Len(b)
    <3>1. n < Len(b)
      BY <1>1, <2>3, <2>6
    <3>2. Less(a, b)
      BY <2>3, <2>4, <2>6, <3>1, LessIs
    <3> QED  BY <3>2
  <2>7. CASE n # Len(a) /\ n = Len(b)
    <3>1. n < Len(a) /\ \A j \in 1..n : b[j] = a[j]
      BY <1>1, <2>3, <2>4, <2>7
    <3>2. Less(b, a)
      BY <2>3, <2>7, <3>1, LessIs
    <3> QED  BY <3>2
  <2>8. CASE n # Len(a) /\ n # Len(b)
    <3>1. n < Len(a) /\ n < Len(b) /\ a[n + 1] # b[n + 1]
      BY <1>1, <2>2, <2>3, <2>8
    <3>2. a[n + 1] \in Int /\ b[n + 1] \in Int
      BY <2>3, <3>1
    <3>3. CASE a[n + 1] < b[n + 1]
      <4>1. Less(a, b)
        BY <2>3, <2>4, <3>1, <3>3, LessIs
      <4> QED  BY <4>1
    <3>4. CASE b[n + 1] < a[n + 1]
      <4>1. \A j \in 1..n : b[j] = a[j]
        BY <2>4
      <4>2. Less(b, a)
        BY <2>3, <3>1, <3>4, <4>1, LessIs
      <4> QED  BY <4>2
    <3> QED  BY <3>1, <3>2, <3>3, <3>4
  <2> QED  BY <2>5, <2>6, <2>7, <2>8
<1>4. ASSUME Less(a, b), Less(b, c)
      PROVE  Less(a, c)
  <2>1. PICK m \in Nat : /\ m <= Len(a) /\ m < Len(b) /\ \A j \in 1..m : a[j] = b[j]
                         /\ m = Len(a) \/ (m < Len(a) /\ a[m + 1] < b[m + 1])
    BY <1>4, LessIs
  <2>2. PICK n \in Nat : /\ n <= Len(b) /\ n < Len(c) /\ \A j \in 1..n : b[j] = c[j]
                         /\ n = Len(b) \/ (n < Len(b) /\ b[n + 1] < c[n + 1])
    BY <1>4, LessIs
  <2>3. CASE m < n
    <3>1. \A j \in 1..m : a[j] = c[j]
      BY <2>1, <2>2, <2>3
    <3>2. b[m + 1] = c[m + 1] /\ m < Len(c)
      BY <1>1, <2>2, <2>3
    <3>3. m = Len(a) \/ (m < Len(a) /\ a[m + 1] < c[m + 1])
      BY <2>1, <3>2
    <3> QED  BY <2>1, <3>1, <3>2, <3>3, LessIs
  <2>4. CASE n < m
    <3>1. \A j \in 1..n : a[j] = c[j]
      BY <2>1, <2>2, <2>4
    <3>2. a[n + 1] = b[n + 1] /\ n < Len(a) /\ n <= Len(a) /\ n # Len(b)
      <4>1. n + 1 \in 1..m /\ n < Len(a) /\ n <= Len(a) /\ n # Len(b)
        <5> DEFINE x == Len(a)
                   y == Len(b)
        <5>1. x \in Nat /\ y \in Nat /\ m <= x /\ m < y
          BY <1>1, <2>1
        <5> HIDE DEF x, y
        <5>2. n + 1 \in 1..m /\ n < x /\ n <= x /\ n # y
          BY <2>4, <5>1
        <5> QED  BY <5>2 DEF x, y
      <4> QED  BY <2>1, <4>1
    <3>3. a[n + 1] < c[n + 1]
      BY <2>2, <3>2
    <3> QED  BY <2>2, <3>1, <3>2, <3>3, LessIs
  <2>5. CASE m = n
    <3>1. \A j \in 1..n : a[j] = c[j]
      BY <2>1, <2>2, <2>5
    <3>2. n <= Len(a) /\ n < Len(c)
      BY <2>1, <2>2, <2>5
    <3>3. n = Len(a) \/ (n < Len(a) /\ a[n + 1] < c[n + 1])
      <4>1. CASE m = Len(a)
        BY <2>5, <4>1
      <4>2. CASE m < Len(a) /\ a[m + 1] < b[m + 1]
        <5>1. n < Len(b) /\ n < Len(a) /\ a[n + 1] < b[n + 1]
          BY <2>1, <2>5, <4>2
        <5>2. b[n + 1] < c[n + 1]
          BY <1>1, <2>2, <5>1
        <5>3. a[n + 1] \in Int /\ b[n + 1] \in Int /\ c[n + 1] \in Int
          <6>1. n + 1 \in 1..Len(a) /\ n + 1 \in 1..Len(b) /\ n + 1 \in 1..Len(c)
            <7>1. \A i, len \in Nat : i < len => i + 1 \in 1..len
              OBVIOUS
            <7>2. n \in Nat /\ n < Len(a) /\ n < Len(b) /\ n < Len(c)
              BY <2>2, <5>1
            <7> QED  BY <1>1, <7>1, <7>2
          <6> QED  BY <6>1, ElementOfSeq
        <5>4. \A x, y, z \in Int : x < y /\ y < z => x < z
          OBVIOUS
        <5>5. a[n + 1] < c[n + 1]
          BY <5>1, <5>2, <5>3, <5>4
        <5> QED  BY <5>1, <5>5
      <4> QED  BY <2>1, <4>1, <4>2
    <3> QED  BY <3>1, <3>2, <3>3, LessIs
  <2> QED  BY <2>3, <2>4, <2>5
<1> QED  BY <1>2, <1>3, <1>4

------------------------------------------------------------------------------
(* The entries of a container, no two at one path.                          *)
EntrySet == [dir : Dirs, file : FileNames, kind : OddKinds \cup {"page"}]
Boxed(ix) ==
  /\ ix \in Seq(EntrySet)
  /\ \A i, j \in DOMAIN ix : Path(ix[i]) = Path(ix[j]) => i = j

(* A list of the entries of a set, in the order of their paths.              *)
Pages(s, P) ==
  /\ Len(s) \in Nat /\ s \in [1..Len(s) -> P] /\ DOMAIN s = 1..Len(s)
  /\ \A e \in P : \E k \in 1..Len(s) : s[k] = e
  /\ \A j, k \in 1..Len(s) : j < k => PathLess(s[j], s[k])
  /\ \A j, k \in 1..Len(s) : s[j] = s[k] => j = k

LEMMA EntryIs ==
  ASSUME NEW e \in EntrySet
  PROVE  /\ e.dir \in Seq(Int) /\ e.dir \in Dirs /\ e.file \in FileNames
         /\ Path(e) \in Seq(Int) /\ Path(e) # <<>>
<1>1. e.dir \in Dirs /\ e.file \in FileNames
  BY DEF EntrySet
<1>2. e.dir \in Seq(Int) /\ e.file \in Int
  BY <1>1, ContentsAssumption
<1> DEFINE d == e.dir
           n == e.file
<1>3. Path(e) = Append(d, n)
  BY DEF Path
<1> HIDE DEF d, n
<1>4. Append(d, n) \in Seq(Int) /\ Append(d, n) # <<>>
  <2>1. d \in Seq(Int) /\ n \in Int
    BY <1>2 DEF d, n
  <2> QED  BY <2>1, AppendProperties
<1> QED  BY <1>1, <1>2, <1>3, <1>4

LEMMA BoxedIs ==
  ASSUME NEW ix, Boxed(ix)
  PROVE  /\ Len(ix) \in Nat /\ ix \in [1..Len(ix) -> EntrySet] /\ DOMAIN ix = 1..Len(ix)
         /\ ToSet(ix) \subseteq EntrySet /\ IsFiniteSet(ToSet(ix))
         /\ \A d, e \in ToSet(ix) : Path(d) = Path(e) => d = e
         /\ \A e : e \in ToSet(ix) <=> \E i \in DOMAIN ix : ix[i] = e
<1>1. Len(ix) \in Nat /\ ix \in [1..Len(ix) -> EntrySet] /\ DOMAIN ix = 1..Len(ix)
  BY DEF Boxed
<1>2. ToSet(ix) = {ix[i] : i \in 1..Len(ix)}
  BY <1>1 DEF ToSet
<1>3. IsFiniteSet(ToSet(ix))
  <2>1. IsFiniteSet(1..Len(ix))
    BY <1>1, FS_Interval
  <2>2. ix \in Surjection(1..Len(ix), ToSet(ix))
    BY <1>1, <1>2 DEF Surjection
  <2> QED  BY <2>1, <2>2, FS_Surjection
<1>4. \A d, e \in ToSet(ix) : Path(d) = Path(e) => d = e
  BY <1>1, <1>2 DEF Boxed
<1> QED  BY <1>1, <1>2, <1>3, <1>4

LEMMA FinishIs ==
  ASSUME NEW ix, Boxed(ix), NEW P \in SUBSET ToSet(ix)
  PROVE  Pages(finish(P), P)
<1> DEFINE R == {p \in P \X P : PathLess(p[1], p[2])}
<1>1. IsFiniteSet(P)
  BY BoxedIs, FS_Subset
<1>2. \A d, e \in P : <<d, e>> \in R <=> Less(Path(d), Path(e))
  BY DEF PathLess
<1> HIDE DEF R
<1>3. \A e \in P : Path(e) \in Seq(Int)
  <2>1. P \subseteq EntrySet
    BY BoxedIs
  <2> QED  BY <2>1, EntryIs
<1>4. Orders(R, P)
  <2>1. \A d \in P : <<d, d>> \notin R
    BY <1>2, <1>3, LessOrders
  <2>2. \A d, e \in P : d # e => <<d, e>> \in R \/ <<e, d>> \in R
    <3>1. \A d, e \in P : d # e => Path(d) # Path(e)
      BY BoxedIs
    <3> QED  BY <1>2, <1>3, <3>1, LessOrders
  <2>3. \A d, e, f \in P : <<d, e>> \in R /\ <<e, f>> \in R => <<d, f>> \in R
    BY <1>2, <1>3, LessOrders
  <2> QED  BY <2>1, <2>2, <2>3 DEF Orders
<1>5. finish(P) = InOrder(P, R)
  BY DEF finish, R
<1>6. Lists(finish(P), P, R)
  BY <1>1, <1>4, <1>5, InOrderIs
<1> QED  BY <1>2, <1>6 DEF Lists, Pages, PathLess

LEMMA KeptIs ==
  ASSUME NEW s, NEW P, Pages(s, P), NEW T
  PROVE  Pages(Selected(s, T), P \cap T)
<1> DEFINE u == Selected(s, T)
<1>1. Len(s) \in Nat /\ s \in [1..Len(s) -> P] /\ DOMAIN s = 1..Len(s)
  BY DEF Pages
<1>2. /\ Len(u) \in Nat /\ u \in [1..Len(u) -> P \cap T] /\ DOMAIN u = 1..Len(u)
      /\ \E at \in [1..Len(u) -> 1..Len(s)] :
           /\ \A k \in 1..Len(u) : u[k] = s[at[k]]
           /\ \A j, k \in 1..Len(u) : j < k => at[j] < at[k]
      /\ \A i \in 1..Len(s) : s[i] \in T => \E k \in 1..Len(u) : u[k] = s[i]
  <2>1. Picks(u, s, P, T)
    BY <1>1, SelectedIs
  <2> HIDE DEF u
  <2> QED  BY <2>1 DEF Picks
<1> HIDE DEF u
<1>3. PICK at \in [1..Len(u) -> 1..Len(s)] :
           /\ \A k \in 1..Len(u) : u[k] = s[at[k]]
           /\ \A j, k \in 1..Len(u) : j < k => at[j] < at[k]
  BY <1>2
<1>4. ASSUME NEW e \in P \cap T
      PROVE  \E k \in 1..Len(u) : u[k] = e
  <2>1. PICK i \in 1..Len(s) : s[i] = e
    BY DEF Pages
  <2> QED  BY <1>2, <2>1
<1>5. ASSUME NEW j \in 1..Len(u), NEW k \in 1..Len(u)
      PROVE  (j < k => PathLess(u[j], u[k])) /\ (u[j] = u[k] => j = k)
  <2>1. u[j] = s[at[j]] /\ u[k] = s[at[k]] /\ at[j] \in 1..Len(s) /\ at[k] \in 1..Len(s)
    BY <1>3
  <2>2. (j < k => at[j] < at[k]) /\ (k < j => at[k] < at[j])
    BY <1>3
  <2>3. u[j] = u[k] => at[j] = at[k]
    BY <2>1 DEF Pages
  <2>4. at[j] = at[k] => j = k
    <3>1. at[j] \in Nat /\ at[k] \in Nat /\ j \in Nat /\ k \in Nat
      <4>1. 1..Len(s) \subseteq Nat /\ 1..Len(u) \subseteq Nat
        <5>1. \A n \in Nat : 1..n \subseteq Nat
          OBVIOUS
        <5> QED  BY <1>1, <1>2, <5>1
      <4> QED  BY <2>1, <4>1
    <3> QED  BY <2>2, <3>1
  <2> QED  BY <2>1, <2>2, <2>3, <2>4 DEF Pages
<1>6. Pages(u, P \cap T)
  BY <1>2, <1>4, <1>5 DEF Pages
<1> QED  BY <1>6 DEF u

------------------------------------------------------------------------------
(* One listing.                                                             *)
Clear(ix) == \A e \in ToSet(ix) : ~ Encrypted(e)
Shown(ix, chapter) == {e \in ToSet(ix) : inChapter(e, chapter) /\ ~ Excluded(e)}
Globbed(globs) == {e \in EntrySet : ~ (globs /\ e.file = GlobFile)}

LEMMA ListIs ==
  ASSUME NEW ix, Boxed(ix), NEW chapter, NEW how \in Ends
  PROVE  LET l == List(ix, chapter, how)
             foreign == /\ l.pages = <<>>
                        /\ ~ HasVolume({e \in ToSet(ix) : inChapter(e, chapter) /\ Excluded(e)})
                        /\ \E e \in ToSet(ix) : inChapter(e, chapter) /\ Excluded(e) /\ ForeignFormat(e) /\ ~ Dir(e)
         IN  /\ ~ Clear(ix) => l.pages = <<>> /\ l.err = "encrypted"
             /\ Clear(ix) => /\ Pages(l.pages, Shown(ix, chapter))
                             /\ l.err = IF how # "ok" THEN how
                                        ELSE IF l.pages = <<>> THEN IF foreign THEN "unsupported" ELSE "empty"
                                        ELSE "ok"
<1> DEFINE mine == {e \in ToSet(ix) : inChapter(e, chapter)}
           pages == finish({e \in mine : ~ Excluded(e)})
           dropped == {e \in mine : Excluded(e)}
           foreign == /\ pages = <<>> /\ ~ HasVolume(dropped)
                      /\ \E e \in dropped : ForeignFormat(e) /\ ~ Dir(e)
           err == CASE how # "ok" -> how
                    [] how = "ok" /\ pages = <<>> -> IF foreign THEN "unsupported" ELSE "empty"
                    [] OTHER -> "ok"
<1>1. {e \in mine : ~ Excluded(e)} = Shown(ix, chapter)
  BY DEF Shown
<1>2. Pages(pages, Shown(ix, chapter))
  <2>1. Shown(ix, chapter) \in SUBSET ToSet(ix)
    BY DEF Shown
  <2> QED  BY <1>1, <2>1, FinishIs
<1>3. List(ix, chapter, how) = IF ~ Clear(ix) THEN [pages |-> <<>>, err |-> "encrypted"]
                                 ELSE [pages |-> pages, err |-> err]
  <2> HIDE DEF pages, mine
  <2> QED  BY DEF List, Clear, pages, mine
<1>4. dropped = {e \in ToSet(ix) : inChapter(e, chapter) /\ Excluded(e)}
  OBVIOUS
<1>5. err = IF how # "ok" THEN how
            ELSE IF pages = <<>> THEN IF foreign THEN "unsupported" ELSE "empty" ELSE "ok"
  <2> HIDE DEF pages, foreign
  <2> QED  OBVIOUS
<1>6. (\E e \in dropped : ForeignFormat(e) /\ ~ Dir(e))
        <=> \E e \in ToSet(ix) : inChapter(e, chapter) /\ Excluded(e) /\ ForeignFormat(e) /\ ~ Dir(e)
  OBVIOUS
<1> HIDE DEF pages, dropped, err
<1> QED  BY <1>2, <1>3, <1>4, <1>5, <1>6

------------------------------------------------------------------------------
(* The chapters.                                                            *)
Shares(c, P) == c \in Seq(Int) /\ \A e \in P : IsPrefix(c, e.dir)

LEMMA CommonIs ==
  ASSUME NEW P \in SUBSET EntrySet, NEW pages, Pages(pages, P), P # {}
  PROVE  Shares(commonDir(pages), P)
<1> DEFINE D == {pages[i].dir : i \in DOMAIN pages}
           C == CommonPrefixes(D)
           c == commonDir(pages)
<1>1. D = {e.dir : e \in P}
  <2>1. \A i \in DOMAIN pages : pages[i] \in P
    BY DEF Pages
  <2>2. \A e \in P : \E i \in DOMAIN pages : pages[i] = e
    BY DEF Pages
  <2> QED  BY <2>1, <2>2
<1>2. \A d \in D : d \in Seq(Int)
  BY <1>1, EntryIs
<1>3. C = {p \in UNION {Prefixes(d) : d \in D} : \A d \in D : IsPrefix(p, d)}
  BY DEF CommonPrefixes
<1>4. PICK d0 \in D : TRUE
  BY <1>1
<1>5. c = CHOOSE p \in C : \A q \in C : Len(q) <= Len(p)
  BY DEF commonDir, LongestCommonPrefix
<1> HIDE DEF C, D, c
<1>6. ASSUME NEW d \in D, NEW p \in Prefixes(d)
      PROVE  p \in Seq(Int)
  <2>1. PICK n \in 0..Len(d) : p = SubSeq(d, 1, n)
    BY <1>6 DEF Prefixes
  <2> QED  BY <1>2, <2>1, PartIs
<1>7. \A p \in C : p \in Seq(Int) /\ Len(p) \in Nat /\ Len(p) <= Len(d0)
  <2> SUFFICES ASSUME NEW p \in C
               PROVE  p \in Seq(Int) /\ Len(p) \in Nat /\ Len(p) <= Len(d0)
    OBVIOUS
  <2>1. p \in Seq(Int)
    BY <1>3, <1>6
  <2>2. IsPrefix(p, d0)
    BY <1>3
  <2> QED  BY <1>2, <2>1, <2>2, PrefixIs
<1>8. C # {}
  <2> DEFINE p == SubSeq(d0, 1, 0)
  <2>1. Len(d0) \in Nat /\ 0 \in 0..Len(d0)
    BY <1>2
  <2>2. p \in Prefixes(d0)
    BY <2>1 DEF Prefixes
  <2>3. p \in Seq(Int) /\ Len(p) = 0
    BY <1>2, <2>1, PartIs
  <2> HIDE DEF p
  <2>4. ASSUME NEW d \in D
        PROVE  IsPrefix(p, d)
    <3>1. Len(d) \in Nat /\ d \in Seq(Int)
      BY <1>2
    <3>2. Len(p) <= Len(d) /\ \A i \in 1..Len(p) : p[i] = d[i]
      BY <2>3, <3>1
    <3> QED  BY <2>3, <3>1, <3>2, PrefixIs
  <2> QED  BY <1>3, <2>2, <2>4
<1>9. \E p \in C : \A q \in C : Len(q) <= Len(p)
  <2> DEFINE T == {Len(d0) - Len(p) : p \in C}
  <2>1. T \in SUBSET Nat /\ T # {}
    <3>1. Len(d0) \in Nat
      BY <1>2
    <3> QED  BY <1>7, <1>8, <3>1
  <2>2. PICK n \in T : \A m \in T : n <= m
    <3> HIDE DEF T
    <3> QED  BY <2>1, Least
  <2>3. PICK p \in C : n = Len(d0) - Len(p)
    OBVIOUS
  <2>4. ASSUME NEW q \in C
        PROVE  Len(q) <= Len(p)
    <3>1. Len(d0) - Len(p) <= Len(d0) - Len(q)
      BY <2>2, <2>3
    <3>2. Len(d0) \in Nat /\ Len(p) \in Nat /\ Len(q) \in Nat
      BY <1>2, <1>7
    <3> DEFINE x == Len(d0)
               y == Len(p)
               z == Len(q)
    <3>3. x \in Nat /\ y \in Nat /\ z \in Nat /\ x - y <= x - z
      BY <3>1, <3>2
    <3> HIDE DEF x, y, z
    <3>4. z <= y
      BY <3>3
    <3> QED  BY <3>4 DEF y, z
  <2> QED  BY <2>4
<1>10. c \in C
  BY <1>5, <1>9
<1>11. c \in Seq(Int) /\ \A d \in D : IsPrefix(c, d)
  BY <1>3, <1>7, <1>10
<1>12. \A e \in P : e.dir \in D
  BY <1>1
<1> QED  BY <1>11, <1>12 DEF Shares, c

(* The chapter of a page: the loose one, or the directory that is one       *)
(* longer than what all of them share.                                      *)
LEMMA ChapterIs ==
  ASSUME NEW c \in Seq(Int), NEW e \in EntrySet, IsPrefix(c, e.dir)
  PROVE  /\ e.dir = c => chapterOf(e, c) = ChapterRoot
         /\ e.dir # c => /\ chapterOf(e, c) \in Seq(Int) /\ Len(chapterOf(e, c)) = Len(c) + 1
                         /\ IsPrefix(chapterOf(e, c), e.dir)
                         /\ NoDotName => chapterOf(e, c) # ChapterRoot
<1>1. e.dir \in Seq(Int) /\ e.dir \in Dirs
  BY EntryIs
<1>2. Len(c) <= Len(e.dir) /\ \A i \in 1..Len(c) : c[i] = e.dir[i]
  BY <1>1, PrefixIs
<1>3. CASE e.dir = c
  BY <1>3 DEF chapterOf
<1>4. CASE e.dir # c
  <2> DEFINE d == e.dir
             n == Len(c) + 1
             ch == SubSeq(d, 1, n)
  <2>1. chapterOf(e, c) = ch
    BY <1>4 DEF chapterOf
  <2>2. Len(c) # Len(d)
    <3> SUFFICES ASSUME Len(c) = Len(d)
                 PROVE  FALSE
      OBVIOUS
    <3>1. c \in Seq(Int) /\ d \in Seq(Int) /\ \A i \in 1..Len(c) : c[i] = d[i]
      BY <1>1, <1>2
    <3>2. c # d
      BY <1>4
    <3> HIDE DEF d
    <3>3. c = [i \in 1..Len(c) |-> c[i]]
      BY <3>1
    <3>4. d = [i \in 1..Len(d) |-> d[i]]
      BY <3>1
    <3> QED  BY <3>1, <3>2, <3>3, <3>4
  <2>3. Len(c) \in Nat /\ Len(d) \in Nat /\ d \in Seq(Int)
    BY <1>1
  <2>4. n \in 0..Len(d) /\ n \in Nat \ {0}
    <3> DEFINE x == Len(c)
               y == Len(d)
    <3>1. x \in Nat /\ y \in Nat /\ x <= y /\ x # y
      BY <1>2, <2>2, <2>3
    <3> HIDE DEF x, y
    <3>2. x + 1 \in 0..y /\ x + 1 \in Nat \ {0}
      BY <3>1
    <3> QED  BY <3>2 DEF x, y
  <2> HIDE DEF n
  <2>5. ch \in Seq(Int) /\ Len(ch) = n /\ \A i \in 1..n : ch[i] = d[i]
    BY <2>3, <2>4, PartIs
  <2>6. IsPrefix(ch, d)
    <3> HIDE DEF ch
    <3>1. Len(ch) <= Len(d) /\ \A i \in 1..Len(ch) : ch[i] = d[i]
      BY <2>3, <2>4, <2>5
    <3> QED  BY <2>3, <2>5, <3>1, PrefixIs
  <2>7. ASSUME NoDotName
        PROVE  ch # ChapterRoot
    <3> SUFFICES ASSUME ch = <<Dot>>
                 PROVE  FALSE
      BY DEF ChapterRoot
    <3> HIDE DEF ch
    <3>1. Len(ch) = 1 /\ ch[1] = Dot
      OBVIOUS
    <3>2. d[1] = Dot /\ d # <<>>
      <4>1. 1 \in 1..n /\ Len(d) # 0
        BY <2>3, <2>4, <2>5, <3>1
      <4> QED  BY <2>5, <3>1, <4>1
    <3>3. Head(d) = d[1]
      BY <2>3, <3>2
    <3> QED  BY <1>1, <2>7, <3>2, <3>3 DEF NoDotName
  <2> QED  BY <1>4, <2>1, <2>5, <2>6, <2>7 DEF n
<1> QED  BY <1>3, <1>4

(* "The two rules are exact": an entry is in the chapter of a page only if  *)
(* it is its own chapter.                                                   *)
LEMMA Exact ==
  ASSUME NoDotName, NEW c \in Seq(Int), NEW e \in EntrySet, NEW x \in EntrySet,
         IsPrefix(c, e.dir), IsPrefix(c, x.dir), chapterOf(x, c) = ChapterRoot => c = <<>>
  PROVE  inChapter(e, chapterOf(x, c)) <=> chapterOf(e, c) = chapterOf(x, c)
<1>1. e.dir \in Seq(Int) /\ x.dir \in Seq(Int)
  BY EntryIs
<1>2. CASE x.dir = c
  <2>1. chapterOf(x, c) = ChapterRoot /\ c = <<>>
    BY <1>2, ChapterIs
  <2>2. inChapter(e, ChapterRoot) <=> e.dir = <<>>
    BY DEF inChapter, ChapterRoot
  <2>3. chapterOf(e, c) = ChapterRoot <=> e.dir = c
    BY ChapterIs
  <2> QED  BY <2>1, <2>2, <2>3
<1>3. CASE x.dir # c
  <2> DEFINE ch == chapterOf(x, c)
  <2>1. ch \in Seq(Int) /\ Len(ch) = Len(c) + 1 /\ ch # ChapterRoot /\ Len(c) \in Nat
    BY <1>3, ChapterIs
  <2> HIDE DEF ch
  <2>2. inChapter(e, ch) <=> IsPrefix(ch, e.dir)
    <3>1. ch # <<>>
      BY <2>1
    <3> QED  BY <2>1, <3>1 DEF inChapter
  <2>3. CASE e.dir = c
    <3>1. chapterOf(e, c) = ChapterRoot
      BY <2>3, ChapterIs
    <3>2. ~ IsPrefix(ch, e.dir)
      <4>1. ~ (Len(ch) <= Len(e.dir))
        BY <2>1, <2>3
      <4> QED  BY <1>1, <2>1, <4>1, PrefixIs
    <3> QED  BY <2>1, <2>2, <3>1, <3>2 DEF ch
  <2>4. CASE e.dir # c
    <3> DEFINE own == chapterOf(e, c)
    <3>1. own \in Seq(Int) /\ Len(own) = Len(c) + 1 /\ IsPrefix(own, e.dir)
      BY <2>4, ChapterIs
    <3> HIDE DEF own
    <3>2. Len(own) <= Len(e.dir) /\ \A i \in 1..Len(own) : own[i] = e.dir[i]
      BY <1>1, <3>1, PrefixIs
    <3>3. IsPrefix(ch, e.dir) <=> Len(ch) <= Len(e.dir) /\ \A i \in 1..Len(ch) : ch[i] = e.dir[i]
      BY <1>1, <2>1, PrefixIs
    <3>4. Len(own) = Len(ch)
      BY <2>1, <3>1
    <3>5. ASSUME IsPrefix(ch, e.dir)
          PROVE  own = ch
      <4>1. \A i \in 1..Len(ch) : own[i] = ch[i]
        BY <3>2, <3>3, <3>4, <3>5
      <4>2. own = [i \in 1..Len(own) |-> own[i]] /\ ch = [i \in 1..Len(ch) |-> ch[i]]
        BY <2>1, <3>1
      <4> QED  BY <3>4, <4>1, <4>2
    <3>6. own = ch => IsPrefix(ch, e.dir)
      BY <3>1
    <3> QED  BY <2>2, <3>5, <3>6 DEF own, ch
  <2> QED  BY <2>3, <2>4
<1> QED  BY <1>2, <1>3

(* A list that has each member of a set once.                               *)
Covers(t, S) ==
  /\ Len(t) \in Nat /\ DOMAIN t = 1..Len(t) /\ \A k \in 1..Len(t) : t[k] \in S
  /\ \A x \in S : \E k \in 1..Len(t) : t[k] = x
  /\ \A j, k \in 1..Len(t) : t[j] = t[k] => j = k

LEMMA Prepended ==
  ASSUME NEW S, NEW s, NEW R, Lists(s, S, R), NEW x, x \notin S
  PROVE  Covers(<<x>> \o s, S \cup {x}) /\ Covers(<<>> \o s, S)
<1>1. s \in Seq(S) /\ Len(s) \in Nat /\ DOMAIN s = 1..Len(s)
  BY DEF Lists
<1>2. Covers(<<>> \o s, S)
  <2>1. <<>> \o s = s
    BY <1>1
  <2> QED  BY <1>1, <2>1 DEF Lists, Covers
<1> DEFINE t == <<x>> \o s
<1>3. Len(t) = Len(s) + 1 /\ DOMAIN t = 1..(Len(s) + 1) /\ t[1] = x /\ \A k \in 1..Len(s) : t[k + 1] = s[k]
  <2>1. s \in Seq(S \cup {x}) /\ <<x>> \in Seq(S \cup {x}) /\ Len(<<x>>) = 1
    BY <1>1
  <2> DEFINE w == <<x>>
  <2>2. w[1] = x /\ Len(w) = 1
    OBVIOUS
  <2> HIDE DEF w
  <2>3. t = w \o s /\ w \in Seq(S \cup {x})
    BY <2>1 DEF w
  <2> HIDE DEF t
  <2> DEFINE X == S \cup {x}
  <2>4. w \in Seq(X) /\ s \in Seq(X) /\ Len(w) = 1 /\ w[1] = x
    BY <2>1, <2>2, <2>3
  <2> HIDE DEF X
  <2> DEFINE n == Len(s)
             v == w \o s
  <2>8. n \in Nat /\ Len(w) = 1
    BY <1>1, <2>4
  <2>9. v \in Seq(X) /\ Len(v) = Len(w) + Len(s)
    BY <2>4, ConcatProperties
  <2>10. \A i \in 1..(Len(w) + Len(s)) : v[i] = IF i <= Len(w) THEN w[i] ELSE s[i - Len(w)]
    BY <2>4, ConcatProperties
  <2>11. Len(v) = 1 + n /\ \A i \in 1..(1 + n) : v[i] = IF i <= 1 THEN w[i] ELSE s[i - 1]
    BY <2>8, <2>9, <2>10
  <2>12. DOMAIN v = 1..Len(v)
    BY <2>9
  <2> HIDE DEF n, v
  <2>5. Len(v) = 1 + n /\ DOMAIN v = 1..(1 + n) /\ v[1] = x
    <3>1. 1 \in 1..(1 + n)
      BY <2>8
    <3> QED  BY <2>4, <2>11, <2>12, <3>1
  <2>6. ASSUME NEW k \in 1..n
        PROVE  v[k + 1] = s[k]
    <3>1. k + 1 \in 1..(1 + n) /\ ~ (k + 1 <= 1) /\ (k + 1) - 1 = k
      BY <2>8
    <3> QED  BY <2>11, <3>1
  <2>7. 1 + n = n + 1
    BY <2>8
  <2>13. t = v
    BY <2>3 DEF v
  <2>14. Len(v) = n + 1 /\ DOMAIN v = 1..(n + 1) /\ v[1] = x /\ \A k \in 1..n : v[k + 1] = s[k]
    BY <2>5, <2>6, <2>7
  <2> QED  BY <2>13, <2>14 DEF n
<1> HIDE DEF t
<1>4. ASSUME NEW k \in 1..(Len(s) + 1)
      PROVE  k = 1 \/ (k - 1 \in 1..Len(s) /\ t[k] = s[k - 1])
  <2>1. k = 1 \/ k - 1 \in 1..Len(s)
    BY <1>1
  <2>2. (k - 1) + 1 = k
    BY <1>1
  <2> QED  BY <1>3, <2>1, <2>2
<1>5. \A k \in 1..Len(s) : s[k] \in S
  BY DEF Lists
<1>6. \A k \in 1..(Len(s) + 1) : t[k] \in S \cup {x}
  BY <1>3, <1>4, <1>5
<1>7. ASSUME NEW y \in S \cup {x}
      PROVE  \E k \in 1..(Len(s) + 1) : t[k] = y
  <2>1. CASE y = x
    <3>1. 1 \in 1..(Len(s) + 1)
      BY <1>1
    <3> QED  BY <1>3, <2>1, <3>1
  <2>2. CASE y \in S
    <3>1. PICK k \in 1..Len(s) : s[k] = y
      BY <2>2 DEF Lists
    <3>2. k + 1 \in 1..(Len(s) + 1)
      BY <1>1
    <3> QED  BY <1>3, <3>1, <3>2
  <2> QED  BY <2>1, <2>2
<1>8. ASSUME NEW j \in 1..(Len(s) + 1), NEW k \in 1..(Len(s) + 1), t[j] = t[k]
      PROVE  j = k
  <2>1. CASE j = 1 \/ k = 1
    BY <1>3, <1>4, <1>5, <1>8, <2>1
  <2>2. CASE j # 1 /\ k # 1
    <3>1. j - 1 \in 1..Len(s) /\ k - 1 \in 1..Len(s) /\ s[j - 1] = s[k - 1]
      BY <1>4, <1>8, <2>2
    <3>2. j - 1 = k - 1
      BY <3>1 DEF Lists
    <3>3. j \in Int /\ k \in Int
      BY <1>1
    <3> QED  BY <3>2, <3>3
  <2> QED  BY <2>1, <2>2
<1>9. Covers(t, S \cup {x})
  BY <1>1, <1>3, <1>6, <1>7, <1>8 DEF Covers
<1> QED  BY <1>2, <1>9 DEF t

LEMMA ChaptersAre ==
  ASSUME NEW P \in SUBSET EntrySet, NEW pages, Pages(pages, P), Chapters(pages) # <<>>
  PROVE  LET c == commonDir(pages)
         IN  /\ Shares(c, P) /\ P # {}
             /\ Covers(Chapters(pages), {chapterOf(e, c) : e \in P})
             /\ \A e \in P : chapterOf(e, c) = ChapterRoot => c = <<>>
<1> DEFINE c == commonDir(pages)
           all == {chapterOf(pages[i], c) : i \in DOMAIN pages}
           dirs == all \ {ChapterRoot}
           loose == ChapterRoot \in all
           R == {p \in dirs \X dirs : Less(p[1], p[2])}
           rest == InOrder(dirs, R)
<1>1. /\ ~ (Len(pages) < 2) /\ ~ (loose /\ c # <<>>)
      /\ Chapters(pages) = (IF loose THEN <<ChapterRoot>> ELSE <<>>) \o rest
  <2> HIDE DEF c
  <2> QED  BY DEF Chapters, c
<1>2. Len(pages) \in Nat /\ DOMAIN pages = 1..Len(pages) /\ \A i \in 1..Len(pages) : pages[i] \in P
  BY DEF Pages
<1>3. P # {}
  <2>1. 1 \in 1..Len(pages)
    BY <1>1, <1>2
  <2> QED  BY <1>2, <2>1
<1>4. Shares(c, P)
  BY <1>3, CommonIs
<1> HIDE DEF c
<1>5. all = {chapterOf(e, c) : e \in P}
  <2>1. \A e \in P : \E i \in DOMAIN pages : pages[i] = e
    BY <1>2 DEF Pages
  <2> QED  BY <1>2, <2>1
<1>6. IsFiniteSet(dirs)
  <2> DEFINE f == [i \in 1..Len(pages) |-> chapterOf(pages[i], c)]
  <2>1. f \in Surjection(1..Len(pages), all)
    BY <1>2 DEF Surjection
  <2>2. IsFiniteSet(1..Len(pages))
    BY <1>2, FS_Interval
  <2> HIDE DEF f, all
  <2>3. IsFiniteSet(all)
    BY <2>1, <2>2, FS_Surjection
  <2>4. dirs \in SUBSET all
    OBVIOUS
  <2> HIDE DEF dirs
  <2> QED  BY <2>3, <2>4, FS_Subset
<1>7. ASSUME NEW d \in dirs
      PROVE  d \in Seq(Int)
  <2>1. PICK e \in P : d = chapterOf(e, c)
    BY <1>5
  <2>2. e \in EntrySet /\ c \in Seq(Int) /\ IsPrefix(c, e.dir) /\ d # ChapterRoot
    BY <1>4 DEF Shares
  <2> HIDE DEF dirs, all
  <2> QED  BY <2>1, <2>2, ChapterIs
<1>8. Lists(rest, dirs, R)
  <2>1. \A d, e \in dirs : <<d, e>> \in R <=> Less(d, e)
    OBVIOUS
  <2> HIDE DEF R, dirs
  <2>2. \A d \in dirs : <<d, d>> \notin R
    BY <1>7, <2>1, LessOrders
  <2>3. \A d, e \in dirs : d # e => <<d, e>> \in R \/ <<e, d>> \in R
    BY <1>7, <2>1, LessOrders
  <2>4. \A d, e, f \in dirs : <<d, e>> \in R /\ <<e, f>> \in R => <<d, f>> \in R
    BY <1>7, <2>1, LessOrders
  <2>5. Orders(R, dirs)
    BY <2>2, <2>3, <2>4 DEF Orders
  <2> QED  BY <1>6, <2>5, InOrderIs
<1>9. Covers(Chapters(pages), all)
  <2> DEFINE r == ChapterRoot
  <2>1. r \notin dirs /\ (loose => dirs \cup {r} = all) /\ (~ loose => dirs = all)
    OBVIOUS
  <2> HIDE DEF dirs, rest, R, all, r
  <2>2. Covers(<<r>> \o rest, dirs \cup {r}) /\ Covers(<<>> \o rest, dirs)
    BY <1>8, <2>1, Prepended
  <2> QED  BY <1>1, <2>1, <2>2 DEF r
<1>10. \A e \in P : chapterOf(e, c) = ChapterRoot => c = <<>>
  BY <1>1, <1>5
<1> HIDE DEF all
<1> QED  BY <1>3, <1>4, <1>5, <1>9, <1>10 DEF c

------------------------------------------------------------------------------
(* The books of one container.                                              *)
Parted(got, D) ==
  /\ \A i \in DOMAIN got : \A j \in DOMAIN got[i].pages : got[i].pages[j] \in D
  /\ \A e \in D : \E i \in DOMAIN got : \E j \in DOMAIN got[i].pages : got[i].pages[j] = e
  /\ \A i, k \in DOMAIN got : \A j \in DOMAIN got[i].pages, l \in DOMAIN got[k].pages :
       got[i].pages[j] = got[k].pages[l] => i = k /\ j = l
  /\ \A i \in DOMAIN got : \A j, k \in DOMAIN got[i].pages :
       j < k => PathLess(got[i].pages[j], got[i].pages[k])
  /\ \A i, k \in DOMAIN got : got[i].inner = got[k].inner => i = k

DueOf(ix, globs) ==
  IF ~ Clear(ix) THEN {} ELSE {e \in ToSet(ix) : ~ Excluded(e) /\ ~ (globs /\ e.file = GlobFile)}

(* One listing with the globs: the pages that are kept.                     *)
LEMMA KeptPages ==
  ASSUME NEW ix, Boxed(ix), NEW P \in SUBSET ToSet(ix), NEW pages, Pages(pages, P), NEW globs \in BOOLEAN
  PROVE  Pages(convertPages(pages, globs), {e \in P : ~ (globs /\ e.file = GlobFile)})
<1> DEFINE T == {e \in ToSet(pages) : ~ (globs /\ e.file = GlobFile)}
<1>1. convertPages(pages, globs) = Selected(pages, T)
  BY DEF convertPages
<1>2. ToSet(pages) = P
  <2>1. DOMAIN pages = 1..Len(pages) /\ \A i \in 1..Len(pages) : pages[i] \in P
    BY DEF Pages
  <2>2. \A e \in P : \E i \in 1..Len(pages) : pages[i] = e
    BY DEF Pages
  <2> QED  BY <2>1, <2>2 DEF ToSet
<1>3. P \cap T = {e \in P : ~ (globs /\ e.file = GlobFile)}
  BY <1>2
<1>4. Pages(Selected(pages, T), P \cap T)
  <2> HIDE DEF T
  <2> QED  BY KeptIs
<1> QED  BY <1>1, <1>3, <1>4

(* One book of pages.                                                       *)
LEMMA OneBook ==
  ASSUME NEW D, NEW s, Pages(s, D), NEW b, b.pages = s
  PROVE  Parted(<<b>>, D)
<1> DEFINE got == <<b>>
<1>1. DOMAIN got = {1} /\ got[1].pages = s
  OBVIOUS
<1> HIDE DEF got
<1>2. DOMAIN s = 1..Len(s)
  BY DEF Pages
<1>3. \A i \in DOMAIN got : i = 1 /\ got[i].pages = s
  BY <1>1
<1>4. \A i \in DOMAIN got : \A j \in DOMAIN got[i].pages : got[i].pages[j] \in D
  BY <1>2, <1>3 DEF Pages
<1>5. \A e \in D : \E i \in DOMAIN got : \E j \in DOMAIN got[i].pages : got[i].pages[j] = e
  BY <1>1, <1>2 DEF Pages
<1>6. \A i, k \in DOMAIN got : \A j \in DOMAIN got[i].pages, l \in DOMAIN got[k].pages :
        got[i].pages[j] = got[k].pages[l] => i = k /\ j = l
  BY <1>2, <1>3 DEF Pages
<1>7. \A i \in DOMAIN got : \A j, k \in DOMAIN got[i].pages :
        j < k => PathLess(got[i].pages[j], got[i].pages[k])
  BY <1>2, <1>3 DEF Pages
<1>8. \A i, k \in DOMAIN got : got[i].inner = got[k].inner => i = k
  BY <1>3
<1>9. Parted(got, D)
  BY <1>4, <1>5, <1>6, <1>7, <1>8 DEF Parted
<1> QED  BY <1>9 DEF got

(* No chapter is every entry.                                               *)
LEMMA WholeIsAll ==
  ASSUME NEW e
  PROVE  inChapter(e, <<>>)
<1> DEFINE root == ChapterRoot
<1>1. inChapter(e, <<>>) = CASE <<>> = <<>> -> TRUE
                             [] <<>> = root -> e.dir = <<>>
                             [] OTHER -> IsPrefix(<<>>, e.dir)
  BY DEF inChapter
<1>2. root # <<>>
  BY DEF ChapterRoot
<1> HIDE DEF root
<1> QED  BY <1>1, <1>2

(* A book for each chapter of a listing.                                    *)
LEMMA ChapterBooks ==
  ASSUME NoDotName, NEW ix, Boxed(ix), Clear(ix), NEW globs \in BOOLEAN,
         NEW pages, Pages(pages, Shown(ix, <<>>)), Chapters(pages) # <<>>
  PROVE  /\ Parted(expandChapters(ix, pages, globs), DueOf(ix, globs))
         /\ \A i \in DOMAIN expandChapters(ix, pages, globs) : expandChapters(ix, pages, globs)[i].inner # <<>>
<1> DEFINE P == Shown(ix, <<>>)
           D == DueOf(ix, globs)
           c == commonDir(pages)
           chs == Chapters(pages)
           got == expandChapters(ix, pages, globs)
           Of(ch) == {e \in ToSet(ix) : inChapter(e, ch) /\ ~ Excluded(e) /\ ~ (globs /\ e.file = GlobFile)}
<1>1. P = {e \in ToSet(ix) : ~ Excluded(e)} /\ P \subseteq ToSet(ix) /\ P \subseteq EntrySet
  <2>1. \A e \in ToSet(ix) : inChapter(e, <<>>)
    BY WholeIsAll
  <2> QED  BY <2>1, BoxedIs DEF Shown
<1>2. D = {e \in P : ~ (globs /\ e.file = GlobFile)}
  BY <1>1 DEF DueOf
<1>3. /\ Shares(c, P) /\ Covers(chs, {chapterOf(e, c) : e \in P})
      /\ \A e \in P : chapterOf(e, c) = ChapterRoot => c = <<>>
  <2>1. P \in SUBSET EntrySet /\ Pages(pages, P)
    BY <1>1
  <2> HIDE DEF P
  <2> QED  BY <2>1, ChaptersAre
<1>4. DOMAIN got = DOMAIN chs /\ \A i \in DOMAIN chs : got[i] = indexChapter(ix, chs[i], globs)
  BY DEF expandChapters
<1>5. ASSUME NEW ch
      PROVE  indexChapter(ix, ch, globs).inner = ch /\ Pages(indexChapter(ix, ch, globs).pages, Of(ch))
  <2> DEFINE l == List(ix, ch, "ok")
             kept == convertPages(l.pages, globs)
             verdict == IF l.err = "ok" /\ kept = <<>> THEN "empty" ELSE l.err
  <2>1. Pages(l.pages, Shown(ix, ch))
    <3>1. "ok" \in Ends
      BY DEF Ends
    <3> QED  BY <3>1, ListIs
  <2>2. Shown(ix, ch) \in SUBSET ToSet(ix)
    BY DEF Shown
  <2>3. {e \in Shown(ix, ch) : ~ (globs /\ e.file = GlobFile)} = Of(ch)
    BY DEF Shown
  <2>4. indexChapter(ix, ch, globs) = Book(ch, "nesteddir", verdict, kept)
    BY DEF indexChapter
  <2> HIDE DEF l, verdict, Of
  <2>5. Pages(kept, Of(ch))
    BY <2>1, <2>2, <2>3, KeptPages
  <2> HIDE DEF kept
  <2> QED  BY <2>4, <2>5 DEF Book
<1>6. \A e, x \in P : inChapter(e, chapterOf(x, c)) <=> chapterOf(e, c) = chapterOf(x, c)
  <2> SUFFICES ASSUME NEW e \in P, NEW x \in P
               PROVE  inChapter(e, chapterOf(x, c)) <=> chapterOf(e, c) = chapterOf(x, c)
    OBVIOUS
  <2>1. e \in EntrySet /\ x \in EntrySet /\ c \in Seq(Int) /\ IsPrefix(c, e.dir) /\ IsPrefix(c, x.dir)
    BY <1>1, <1>3 DEF Shares
  <2>2. chapterOf(x, c) = ChapterRoot => c = <<>>
    BY <1>3
  <2> HIDE DEF P, c
  <2> QED  BY <2>1, <2>2, Exact
<1>7. \A x \in P : chapterOf(x, c) # <<>>
  <2> SUFFICES ASSUME NEW x \in P
               PROVE  chapterOf(x, c) # <<>>
    OBVIOUS
  <2>1. x \in EntrySet /\ c \in Seq(Int) /\ IsPrefix(c, x.dir)
    BY <1>1, <1>3 DEF Shares
  <2> HIDE DEF P, c
  <2>2. CASE x.dir = c
    <3>1. chapterOf(x, c) = ChapterRoot
      BY <2>1, <2>2, ChapterIs
    <3>2. ChapterRoot # <<>>
      BY DEF ChapterRoot
    <3> QED  BY <3>1, <3>2
  <2>3. CASE x.dir # c
    <3>1. Len(chapterOf(x, c)) = Len(c) + 1 /\ Len(c) \in Nat
      BY <2>1, <2>3, ChapterIs
    <3> QED  BY <3>1
  <2> QED  BY <2>2, <2>3
<1>8. \A i \in DOMAIN chs : Of(chs[i]) = {e \in D : chapterOf(e, c) = chs[i]}
  <2> SUFFICES ASSUME NEW i \in DOMAIN chs
               PROVE  Of(chs[i]) = {e \in D : chapterOf(e, c) = chs[i]}
    OBVIOUS
  <2>1. PICK x \in P : chs[i] = chapterOf(x, c)
    BY <1>3 DEF Covers
  <2> QED  BY <1>1, <1>2, <1>6, <2>1
<1> HIDE DEF P, D, c, chs, got, Of
<1>9. \A i \in DOMAIN chs : \E x \in P : chs[i] = chapterOf(x, c)
  BY <1>3 DEF Covers
<1>10. \A x \in P : \E i \in DOMAIN chs : chs[i] = chapterOf(x, c)
  BY <1>3 DEF Covers
<1>11. \A i, k \in DOMAIN chs : chs[i] = chs[k] => i = k
  BY <1>3 DEF Covers
<1>12. \A i \in DOMAIN got : got[i].inner = chs[i] /\ Pages(got[i].pages, Of(chs[i]))
  BY <1>4, <1>5
<1>13. ASSUME NEW i \in DOMAIN got, NEW j \in DOMAIN got[i].pages
       PROVE  got[i].pages[j] \in D /\ chapterOf(got[i].pages[j], c) = chs[i]
  <2> DEFINE s == got[i].pages
             S == Of(chs[i])
  <2>2. Pages(s, S) /\ j \in DOMAIN s
    BY <1>12, <1>13
  <2> HIDE DEF s, S
  <2>3. s[j] \in S
    BY <2>2 DEF Pages
  <2>1. got[i].pages[j] \in Of(chs[i])
    BY <2>3 DEF s, S
  <2> QED  BY <1>4, <1>8, <2>1
<1>14. ASSUME NEW e \in D
       PROVE  \E i \in DOMAIN got : \E j \in DOMAIN got[i].pages : got[i].pages[j] = e
  <2>1. PICK i \in DOMAIN chs : chs[i] = chapterOf(e, c)
    BY <1>2, <1>10
  <2>2. e \in Of(chs[i]) /\ i \in DOMAIN got
    BY <1>4, <1>8, <2>1
  <2> DEFINE s == got[i].pages
             S == Of(chs[i])
  <2>4. Pages(s, S) /\ e \in S
    BY <1>12, <2>2
  <2> HIDE DEF s, S
  <2>5. \E j \in DOMAIN s : s[j] = e
    BY <2>4 DEF Pages
  <2>3. \E j \in DOMAIN got[i].pages : got[i].pages[j] = e
    BY <2>5 DEF s
  <2> QED  BY <2>2, <2>3
<1>15. ASSUME NEW i \in DOMAIN got, NEW k \in DOMAIN got, NEW j \in DOMAIN got[i].pages, NEW l \in DOMAIN got[k].pages,
              got[i].pages[j] = got[k].pages[l]
       PROVE  i = k /\ j = l
  <2>1. chs[i] = chs[k]
    BY <1>13, <1>15
  <2>2. i = k
    BY <1>4, <1>11, <2>1
  <2> DEFINE s == got[i].pages
             S == Of(chs[i])
  <2>4. Pages(s, S) /\ j \in DOMAIN s /\ l \in DOMAIN s /\ s[j] = s[l]
    BY <1>12, <1>15, <2>2
  <2> HIDE DEF s, S
  <2>3. j = l
    BY <2>4 DEF Pages
  <2> QED  BY <2>2, <2>3
<1>16. ASSUME NEW i \in DOMAIN got
       PROVE  \A j, k \in DOMAIN got[i].pages : j < k => PathLess(got[i].pages[j], got[i].pages[k])
  <2> DEFINE s == got[i].pages
             S == Of(chs[i])
  <2>1. Pages(s, S)
    BY <1>12
  <2> HIDE DEF s, S
  <2>2. \A j, k \in DOMAIN s : j < k => PathLess(s[j], s[k])
    BY <2>1 DEF Pages
  <2> QED  BY <2>2 DEF s
<1>17. \A i, k \in DOMAIN got : got[i].inner = got[k].inner => i = k
  BY <1>4, <1>11, <1>12
<1>18. Parted(got, D)
  BY <1>13, <1>14, <1>15, <1>16, <1>17 DEF Parted
<1>19. \A i \in DOMAIN got : got[i].inner # <<>>
  BY <1>4, <1>7, <1>9, <1>12
<1> QED  BY <1>18, <1>19 DEF got, D

(* The volumes of a container, which no other book is of.                    *)
LEMMA VolumesAre ==
  ASSUME NEW ix, Boxed(ix)
  PROVE  /\ Len(Volumes(ix)) \in Nat /\ DOMAIN Volumes(ix) = 1..Len(Volumes(ix))
         /\ Volumes(ix) = <<>> <=> ~ HasVolume(ToSet(ix))
         /\ \A j \in DOMAIN Volumes(ix) : Volumes(ix)[j] \in EntrySet
         /\ \A j, k \in DOMAIN Volumes(ix) : Path(Volumes(ix)[j]) = Path(Volumes(ix)[k]) => j = k
<1> DEFINE V == {e \in ToSet(ix) : ~ Dir(e) /\ ~ Encrypted(e) /\ ~ Blank(e) /\ ContainerKind(e) # ""}
           u == Volumes(ix)
<1>1. u = Selected(ix, V)
  BY DEF Volumes
<1>2. Len(ix) \in Nat /\ ix \in [1..Len(ix) -> EntrySet] /\ DOMAIN ix = 1..Len(ix)
  BY BoxedIs
<1>3. Picks(u, ix, EntrySet, V)
  <2> HIDE DEF V, u
  <2> QED  BY <1>1, <1>2, SelectedIs
<1>4. V # {} <=> HasVolume(ToSet(ix))
  BY DEF HasVolume
<1>5. \A e \in V : \E i \in 1..Len(ix) : ix[i] = e
  BY <1>2, BoxedIs
<1> HIDE DEF V, u
<1>6. /\ Len(u) \in Nat /\ u \in [1..Len(u) -> EntrySet \cap V] /\ DOMAIN u = 1..Len(u)
      /\ \A i \in 1..Len(ix) : ix[i] \in V => \E k \in 1..Len(u) : u[k] = ix[i]
  BY <1>3 DEF Picks
<1>7. PICK at \in [1..Len(u) -> 1..Len(ix)] :
        /\ \A k \in 1..Len(u) : u[k] = ix[at[k]]
        /\ \A j, k \in 1..Len(u) : j < k => at[j] < at[k]
  BY <1>3 DEF Picks
<1>8. u = <<>> <=> V = {}
  <2>1. CASE Len(u) = 0
    <3>1. 1..Len(u) = {} /\ u = <<>>
      <4>1. u \in Seq(EntrySet)
        BY <1>6
      <4> QED  BY <2>1, <4>1
    <3>2. V = {}
      BY <1>5, <1>6, <3>1
    <3> QED  BY <3>1, <3>2
  <2>2. CASE Len(u) # 0
    <3>1. 1 \in 1..Len(u) /\ u # <<>>
      BY <1>6, <2>2
    <3>2. u[1] \in V
      BY <1>6, <3>1
    <3> QED  BY <3>1, <3>2
  <2> QED  BY <2>1, <2>2
<1>9. ASSUME NEW j \in 1..Len(u), NEW k \in 1..Len(u), Path(u[j]) = Path(u[k])
      PROVE  j = k
  <2>1. at[j] \in 1..Len(ix) /\ at[k] \in 1..Len(ix) /\ u[j] = ix[at[j]] /\ u[k] = ix[at[k]]
    BY <1>7
  <2>2. at[j] = at[k]
    BY <1>2, <1>9, <2>1 DEF Boxed
  <2>3. (j < k => at[j] < at[k]) /\ (k < j => at[k] < at[j])
    BY <1>7
  <2>4. at[j] \in Nat /\ j \in Nat /\ k \in Nat
    <3>1. \A n \in Nat : 1..n \subseteq Nat
      OBVIOUS
    <3> QED  BY <1>2, <1>6, <2>1, <3>1
  <2> QED  BY <2>2, <2>3, <2>4
<1> QED  BY <1>4, <1>6, <1>8, <1>9 DEF u

(* What makes a container unsupported: a foreign archive and nothing else.   *)
HoldsForeign(ix) ==
  /\ \A e \in ToSet(ix) : Excluded(e)
  /\ \E e \in ToSet(ix) : ForeignFormat(e)
  /\ Volumes(ix) = <<>>

(* The reader refused it, or read it all and found nothing else.            *)
Refused(ix, how) == Clear(ix) /\ (how = "unsupported" \/ (how = "ok" /\ HoldsForeign(ix)))

(* The listing of a whole container, and what the globs leave of it.         *)
ShowsOf(pages, err, kept, ix, how, globs) ==
  /\ Pages(kept, DueOf(ix, globs))
  /\ Clear(ix) => Pages(pages, Shown(ix, <<>>))
  /\ err = "ok" => Clear(ix) /\ how = "ok" /\ pages # <<>>
  /\ err = "empty" => Clear(ix) /\ how = "ok" /\ pages = <<>> /\ ~ HoldsForeign(ix)
  /\ err = "unsupported" <=> Refused(ix, how)
  /\ pages = <<>> => kept = <<>>
  /\ pages # <<>> => ~ HoldsForeign(ix)

LEMMA WholeListing ==
  ASSUME NEW ix, Boxed(ix), NEW how \in Ends, NEW globs \in BOOLEAN
  PROVE  ShowsOf(List(ix, <<>>, how).pages, List(ix, <<>>, how).err,
                 convertPages(List(ix, <<>>, how).pages, globs), ix, how, globs)
<1> DEFINE pages == List(ix, <<>>, how).pages
           err == List(ix, <<>>, how).err
           kept == convertPages(pages, globs)
           P == IF Clear(ix) THEN Shown(ix, <<>>) ELSE {}
           dropped == {e \in ToSet(ix) : inChapter(e, <<>>) /\ Excluded(e)}
           foreign == /\ pages = <<>> /\ ~ HasVolume(dropped)
                      /\ \E e \in ToSet(ix) : inChapter(e, <<>>) /\ Excluded(e) /\ ForeignFormat(e) /\ ~ Dir(e)
<1>1. /\ ~ Clear(ix) => pages = <<>> /\ err = "encrypted"
      /\ Clear(ix) => /\ Pages(pages, Shown(ix, <<>>))
                      /\ err = IF how # "ok" THEN how
                               ELSE IF pages = <<>> THEN IF foreign THEN "unsupported" ELSE "empty"
                               ELSE "ok"
  BY ListIs
<1>2. \A e \in ToSet(ix) : inChapter(e, <<>>)
  BY WholeIsAll
<1>3. Shown(ix, <<>>) = {e \in ToSet(ix) : ~ Excluded(e)} /\ dropped = {e \in ToSet(ix) : Excluded(e)}
  BY <1>2 DEF Shown
<1>4. Pages(pages, P) /\ P \in SUBSET ToSet(ix)
  <2>1. Pages(<<>>, {})
    BY DEF Pages
  <2> HIDE DEF pages
  <2> QED  BY <1>1, <1>3, <2>1
<1>5. DueOf(ix, globs) = {e \in P : ~ (globs /\ e.file = GlobFile)}
  BY <1>3 DEF DueOf
<1> HIDE DEF P, pages, err
<1>6. Pages(kept, DueOf(ix, globs))
  BY <1>4, <1>5, KeptPages
<1>7. pages = <<>> <=> P = {}
  <2>1. Len(pages) \in Nat /\ pages \in [1..Len(pages) -> P] /\ DOMAIN pages = 1..Len(pages)
        /\ \A e \in P : \E k \in 1..Len(pages) : pages[k] = e
    BY <1>4 DEF Pages
  <2>2. CASE pages = <<>>
    BY <2>1, <2>2
  <2>3. CASE pages # <<>>
    <3>1. Len(pages) # 0
      BY <2>1, <2>3
    <3>2. 1 \in 1..Len(pages)
      BY <2>1, <3>1
    <3> QED  BY <2>1, <2>3, <3>2
  <2> QED  BY <2>2, <2>3
<1>8. pages = <<>> => kept = <<>>
  <2> SUFFICES ASSUME pages = <<>>
               PROVE  kept = <<>>
    OBVIOUS
  <2>1. DueOf(ix, globs) = {}
    BY <1>5, <1>7
  <2> HIDE DEF kept
  <2> DEFINE D == DueOf(ix, globs)
  <2>2. Len(kept) \in Nat /\ kept \in [1..Len(kept) -> D] /\ DOMAIN kept = 1..Len(kept)
    BY <1>6 DEF Pages
  <2>3. D = {}
    BY <2>1
  <2> HIDE DEF D
  <2> SUFFICES ASSUME kept # <<>>
               PROVE  FALSE
    OBVIOUS
  <2>4. Len(kept) # 0
    BY <2>2
  <2>5. 1 \in 1..Len(kept)
    BY <2>2, <2>4
  <2>6. kept[1] \in D
    BY <2>2, <2>5
  <2> QED  BY <2>3, <2>6
<1>9. Clear(ix) /\ pages # <<>> => ~ HoldsForeign(ix)
  BY <1>3, <1>7 DEF HoldsForeign, P
<1>10. ~ Clear(ix) => pages = <<>>
  BY <1>1
<1>11. ASSUME Clear(ix), pages = <<>>
       PROVE  foreign <=> HoldsForeign(ix)
  <2>1. dropped = ToSet(ix) /\ \A e \in ToSet(ix) : Excluded(e)
    BY <1>3, <1>7, <1>11 DEF P
  <2>2. HasVolume(ToSet(ix)) <=> Volumes(ix) # <<>>
    BY VolumesAre
  <2>3. \A e : ForeignFormat(e) => ~ Dir(e)
    BY DEF ForeignFormat, Dir
  <2> HIDE DEF dropped
  <2> QED  BY <1>2, <1>11, <2>1, <2>2, <2>3 DEF HoldsForeign
<1> HIDE DEF foreign, kept
<1>12. err = "ok" => Clear(ix) /\ how = "ok" /\ pages # <<>>
  BY <1>1 DEF Ends
<1>13. err = "empty" => Clear(ix) /\ how = "ok" /\ pages = <<>> /\ ~ HoldsForeign(ix)
  BY <1>1, <1>11 DEF Ends
<1>14. err = "unsupported" <=> Refused(ix, how)
  BY <1>1, <1>9, <1>11 DEF Ends, Refused
<1>15. Clear(ix) => Pages(pages, Shown(ix, <<>>))
  BY <1>1
<1>16. ShowsOf(pages, err, kept, ix, how, globs)
  BY <1>6, <1>8, <1>9, <1>10, <1>12, <1>13, <1>14, <1>15 DEF ShowsOf
<1> QED  BY <1>16 DEF pages, err, kept

(* The books of the volumes.                                                *)
LEMMA VolumeBooks ==
  ASSUME NEW ix, Boxed(ix)
  PROVE  Parted(expandContainer(ix), {}) /\ \A i \in DOMAIN expandContainer(ix) : expandContainer(ix)[i].inner # <<>>
<1> DEFINE u == Volumes(ix)
           got == expandContainer(ix)
<1>1. DOMAIN got = DOMAIN u /\ \A i \in DOMAIN u : got[i] = indexVolume(u[i])
  BY DEF expandContainer
<1>2. /\ \A j \in DOMAIN u : u[j] \in EntrySet
      /\ \A j, k \in DOMAIN u : Path(u[j]) = Path(u[k]) => j = k
  BY VolumesAre
<1> HIDE DEF u, got
<1>3. ASSUME NEW i \in DOMAIN got
      PROVE  got[i].inner = Path(u[i]) /\ got[i].pages = <<>>
  <2> DEFINE e == u[i]
             verdict == CASE e.kind = "hollow" -> "empty" [] e.kind = "broken" -> "error" [] OTHER -> "ok"
  <2>1. got[i] = Book(Path(e), NestedKind(e), verdict, <<>>)
    BY <1>1 DEF indexVolume
  <2> HIDE DEF e, verdict
  <2>2. got[i].inner = Path(e) /\ got[i].pages = <<>>
    BY <2>1 DEF Book
  <2> QED  BY <2>2 DEF e
<1>4. \A i \in DOMAIN got : DOMAIN got[i].pages = {}
  BY <1>3
<1>5. \A i, k \in DOMAIN got : got[i].inner = got[k].inner => i = k
  BY <1>1, <1>2, <1>3
<1>6. \A i \in DOMAIN got : got[i].inner # <<>>
  BY <1>1, <1>2, <1>3, EntryIs
<1>7. Parted(got, {})
  BY <1>4, <1>5 DEF Parted
<1> QED  BY <1>6, <1>7 DEF got

(* What the verdict on a container says.                                    *)
Truth(b, outer, ix, how, D) ==
  /\ b.status = "ok" => Clear(ix) /\ how = "ok"
  /\ b.status = "empty" =>
       /\ Clear(ix) /\ how = "ok" /\ D = {} /\ ~ HoldsForeign(ix)
       /\ outer = "zip" => Volumes(ix) = <<>>
  /\ b.status = "unsupported" <=> Refused(ix, how)
Verdict(got, outer, ix, how, D) ==
  /\ ~ Clear(ix) \/ how # "ok" => \E i \in DOMAIN got : got[i].inner = <<>>
  /\ (\E i \in DOMAIN got : got[i].inner = <<>>) => Len(got) = 1 /\ Truth(got[1], outer, ix, how, D)

(* The books of one container.                                              *)
LEMMA ContainerBooks ==
  ASSUME NoDotName, NEW ix, Boxed(ix), NEW outer, NEW how \in Ends, NEW globs \in BOOLEAN
  PROVE  /\ Parted(indexContainer(outer, ix, how, globs), DueOf(ix, globs))
         /\ Verdict(indexContainer(outer, ix, how, globs), outer, ix, how, DueOf(ix, globs))
<1> DEFINE pages == List(ix, <<>>, how).pages
           err == List(ix, <<>>, how).err
           kept == convertPages(pages, globs)
           none == kept = <<>> /\ err \in {"ok", "empty"}
           got == indexContainer(outer, ix, how, globs)
           D == DueOf(ix, globs)
<1>1. ShowsOf(pages, err, kept, ix, how, globs)
  BY WholeListing
<1>2. got = CASE none /\ Expands(outer, ix) -> expandContainer(ix)
              [] none /\ ~ Expands(outer, ix) -> <<Book(<<>>, outer, "empty", <<>>)>>
              [] ~ none /\ err # "ok" -> <<Book(<<>>, outer, err, kept)>>
              [] ~ none /\ err = "ok" /\ Chapters(pages) # <<>> -> expandChapters(ix, pages, globs)
              [] OTHER -> <<Book(<<>>, outer, "ok", kept)>>
  BY DEF indexContainer
<1> HIDE DEF pages, err, kept, got, D
<1> SUFFICES Parted(got, D) /\ Verdict(got, outer, ix, how, D)
  BY DEF got, D
<1>3. Pages(kept, D)
  BY <1>1 DEF ShowsOf, D
<1>4. kept = <<>> => D = {}
  BY <1>3 DEF Pages
<1>5. ASSUME NEW verdict, got = <<Book(<<>>, outer, verdict, kept)>>,
             \A b : b.status = verdict => Truth(b, outer, ix, how, D)
      PROVE  Parted(got, D) /\ Verdict(got, outer, ix, how, D)
  <2> DEFINE b == Book(<<>>, outer, verdict, kept)
  <2>1. b.pages = kept /\ b.status = verdict /\ b.inner = <<>>
    BY DEF Book
  <2> HIDE DEF b
  <2>2. Parted(got, D)
    BY <1>3, <1>5, <2>1, OneBook DEF b
  <2>3. Len(got) = 1 /\ DOMAIN got = {1} /\ got[1] = b
    BY <1>5 DEF b
  <2>4. Truth(got[1], outer, ix, how, D) /\ got[1].inner = <<>>
    BY <1>5, <2>1, <2>3
  <2>5. Verdict(got, outer, ix, how, D)
    BY <2>3, <2>4 DEF Verdict
  <2> QED  BY <2>2, <2>5
<1>11. none => Clear(ix) /\ how = "ok" /\ ~ HoldsForeign(ix)
  BY <1>1 DEF ShowsOf
<1>6. CASE none /\ Expands(outer, ix)
  <2>1. got = expandContainer(ix)
    BY <1>2, <1>6
  <2>2. D = {}
    BY <1>4, <1>6
  <2>3. Parted(got, {}) /\ \A i \in DOMAIN got : got[i].inner # <<>>
    BY <2>1, VolumeBooks
  <2> QED  BY <1>6, <1>11, <2>2, <2>3 DEF Verdict
<1>7. CASE none /\ ~ Expands(outer, ix)
  <2>1. got = <<Book(<<>>, outer, "empty", kept)>>
    BY <1>2, <1>7
  <2>2. outer = "zip" => Volumes(ix) = <<>>
    BY <1>7 DEF Expands
  <2>3. \A b : b.status = "empty" => Truth(b, outer, ix, how, D)
    BY <1>4, <1>7, <1>11, <2>2 DEF Truth, Refused
  <2> QED  BY <1>5, <2>1, <2>3
<1>8. CASE ~ none /\ err # "ok"
  <2>1. got = <<Book(<<>>, outer, err, kept)>>
    BY <1>2, <1>8
  <2>2. err # "empty"
    BY <1>1, <1>8 DEF ShowsOf
  <2>3. err = "unsupported" <=> Refused(ix, how)
    BY <1>1 DEF ShowsOf
  <2>4. \A b : b.status = err => Truth(b, outer, ix, how, D)
    BY <1>8, <2>2, <2>3 DEF Truth
  <2> QED  BY <1>5, <2>1, <2>4
<1>12. err = "ok" => Clear(ix) /\ how = "ok" /\ ~ HoldsForeign(ix)
  BY <1>1 DEF ShowsOf
<1>9. CASE ~ none /\ err = "ok" /\ Chapters(pages) # <<>>
  <2>1. got = expandChapters(ix, pages, globs)
    BY <1>2, <1>9
  <2>2. Clear(ix) /\ Pages(pages, Shown(ix, <<>>))
    BY <1>1, <1>9 DEF ShowsOf
  <2>3. Parted(got, D) /\ \A i \in DOMAIN got : got[i].inner # <<>>
    BY <1>9, <2>1, <2>2, ChapterBooks DEF D
  <2> QED  BY <1>9, <1>12, <2>3 DEF Verdict
<1>10. CASE ~ none /\ err = "ok" /\ Chapters(pages) = <<>>
  <2>1. got = <<Book(<<>>, outer, "ok", kept)>>
    BY <1>2, <1>10
  <2>2. \A b : b.status = "ok" => Truth(b, outer, ix, how, D)
    BY <1>10, <1>12 DEF Truth, Refused
  <2> QED  BY <1>5, <2>1, <2>2
<1> QED  BY <1>6, <1>7, <1>8, <1>9, <1>10

(* The box is as somebody packed it, and the books are what the scan made   *)
(* of it.                                                                   *)
BoxInv ==
  /\ Boxed(box)
  /\ \/ books = [from |-> "none"]
     \/ \E outer \in {"zip", "rar", "hv3"}, how \in Ends, globs \in BOOLEAN :
          books = [from |-> outer, ended |-> how, globs |-> globs,
                   got |-> indexContainer(outer, box, how, globs)]

LEMMA BoxStarts == boxInit => BoxInv
  BY DEF boxInit, BoxInv, Boxed

LEMMA BoxStep == BoxInv /\ [boxNext]_<<box, books>> => BoxInv'
<1> SUFFICES ASSUME BoxInv, [boxNext]_<<box, books>>
             PROVE  BoxInv'
  OBVIOUS
<1>1. ASSUME NEW d \in Dirs, NEW n \in FileNames, NEW k \in OddKinds \cup {"page"},
             Pack([dir |-> d, file |-> n, kind |-> k])
      PROVE  BoxInv'
  <2> DEFINE e == [dir |-> d, file |-> n, kind |-> k]
  <2>1. e \in EntrySet
    BY DEF EntrySet
  <2> HIDE DEF e
  <2>2. /\ books.from = "none" /\ \A i \in DOMAIN box : Path(box[i]) # Path(e)
        /\ box' = Append(box, e) /\ books' = books
    BY <1>1 DEF Pack, e
  <2>3. books' = [from |-> "none"]
    BY <2>2 DEF BoxInv
  <2>4. box \in Seq(EntrySet) /\ \A i, j \in DOMAIN box : Path(box[i]) = Path(box[j]) => i = j
    BY DEF BoxInv, Boxed
  <2>5. /\ box' \in Seq(EntrySet) /\ Len(box') = Len(box) + 1 /\ box'[Len(box) + 1] = e
        /\ \A i \in 1..Len(box) : box'[i] = box[i]
    BY <2>1, <2>2, <2>4
  <2>6. ASSUME NEW i \in DOMAIN box', NEW j \in DOMAIN box', Path(box'[i]) = Path(box'[j])
        PROVE  i = j
    <3> DEFINE m == Len(box)
    <3>1. m \in Nat /\ DOMAIN box = 1..m /\ DOMAIN box' = 1..(m + 1)
      BY <2>4, <2>5
    <3> HIDE DEF m
    <3>2. i \in 1..m \/ i = m + 1
      BY <3>1
    <3>3. j \in 1..m \/ j = m + 1
      BY <3>1
    <3>4. box'[m + 1] = e /\ \A l \in 1..m : box'[l] = box[l] /\ Path(box'[l]) # Path(e)
      BY <2>2, <2>5, <3>1 DEF m
    <3> QED  BY <2>4, <2>6, <3>1, <3>2, <3>3, <3>4
  <2> QED  BY <2>3, <2>5, <2>6 DEF BoxInv, Boxed
<1>2. ASSUME NEW outer \in {"zip", "rar", "hv3"}, NEW how \in Ends, NEW globs \in BOOLEAN,
             ScanIt(outer, how, globs)
      PROVE  BoxInv'
  <2>1. box' = box /\ books' = [from |-> outer, ended |-> how, globs |-> globs,
                                got |-> indexContainer(outer, box, how, globs)]
    BY <1>2 DEF ScanIt
  <2>2. Boxed(box)'
    BY <2>1 DEF BoxInv
  <2> QED  BY <2>1, <2>2 DEF BoxInv
<1>3. CASE UNCHANGED <<box, books>>
  BY <1>3 DEF BoxInv
<1> QED  BY <1>1, <1>2, <1>3 DEF boxNext

LEMMA BoxGives == NoDotName /\ BoxInv => ContainerIsRead
<1> SUFFICES ASSUME NoDotName, BoxInv, Scanned
             PROVE  ContainerIsRead
  BY DEF ContainerIsRead, EveryPageOnce, VerdictIsTrue
<1>1. PICK outer \in {"zip", "rar", "hv3"}, how \in Ends, globs \in BOOLEAN :
        books = [from |-> outer, ended |-> how, globs |-> globs,
                 got |-> indexContainer(outer, box, how, globs)]
  BY DEF BoxInv, Scanned
<1> DEFINE got == indexContainer(outer, box, how, globs)
<1>2. books.got = got /\ books.from = outer /\ books.globs = globs /\ books.ended = how
  BY <1>1
<1>3. Parted(got, DueOf(box, globs)) /\ Verdict(got, outer, box, how, DueOf(box, globs))
  BY ContainerBooks DEF BoxInv
<1> HIDE DEF got
<1>4. Due = DueOf(box, globs)
  BY <1>2 DEF Due, DueOf, Clear, Locked
<1> DEFINE g == books.got
<1>5. Parted(g, Due) /\ Verdict(g, books.from, box, books.ended, Due)
  BY <1>2, <1>3, <1>4
<1>6. EveryPageOnce
  BY <1>5 DEF EveryPageOnce, Parted
<1>7. Locked <=> ~ Clear(box)
  BY DEF Locked, Clear
<1>8. OnlyForeign <=> HoldsForeign(box)
  BY DEF OnlyForeign, HoldsForeign
<1> HIDE DEF g
<1>9. /\ ~ Clear(box) \/ books.ended # "ok" => \E i \in DOMAIN g : g[i].inner = <<>>
      /\ (\E i \in DOMAIN g : g[i].inner = <<>>) => Len(g) = 1 /\ Truth(g[1], books.from, box, books.ended, Due)
  BY <1>5 DEF Verdict
<1>10. VerdictIsTrue
  BY <1>7, <1>8, <1>9 DEF VerdictIsTrue, Truth, Refused, g
<1> QED  BY <1>6, <1>10 DEF ContainerIsRead

(* Of every container in which nobody made a directory named ".", whatever  *)
(* it holds and wherever its reader stopped, every page that was read is in *)
(* one book, once and in natural order, and the verdict on it is true.      *)
THEOREM ContainerAlwaysRead == NoDotName => (boxSpec => []ContainerIsRead)
<1> SUFFICES ASSUME NoDotName
             PROVE  boxSpec => []ContainerIsRead
  OBVIOUS
<1>1. BoxInv => ContainerIsRead
  BY BoxGives
<1> QED  BY <1>1, BoxStarts, BoxStep, PTL DEF boxSpec
==============================================================================
