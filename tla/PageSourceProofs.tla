-------------------------- MODULE PageSourceProofs --------------------------
(***************************************************************************)
(* Proofs about what gives a page: the PDF renderer, the measuring of      *)
(* pages, and the readers of ZIP, HV3 and RAR containers, for any callers, *)
(* books, containers and bounds.                                           *)
(*                                                                         *)
(* The PDF renderer's pool: the count of its users is exact, nobody who is *)
(* counted loses the runtime except to Close, and every step is a step, or *)
(* none, of the runtime that PdfRuntime promises.                          *)
(*                                                                         *)
(* The measuring of pages: a book that is queued is served, and while no   *)
(* batch is committed between a book and its pages a book that says it is  *)
(* measured is.                                                            *)
(*                                                                         *)
(* Of an HV3 or a RAR container, cut short or packed again or neither:     *)
(* the index lists what is in it, and a page that opens is that page.      *)
(*                                                                         *)
(* Of a ZIP container, whole, cut short, wiped in part or with a size that *)
(* is wrong: the directory lists what was packed or the damage is seen,    *)
(* and what is salvaged without it is every entry that is whole.           *)
(***************************************************************************)
EXTENDS PdfPool, PageDims, ZipIndex, HvIndex, RarIndex, InductionTheorems, SequenceTheorems, NaturalsInduction

\* The runtime that is up is the last made, and not up once the pool is closed.
PoolIsCurrent ==
  /\ closed => pool = 0
  /\ pool <= made

\* openDocs is the number of callers that are counted.
CountIsExact == IsFiniteSet(Counted) /\ openDocs = Cardinality(Counted)

\* BorrowersKeepRuntime, and that a runtime was made for them.
CountedKeepRuntime == \A c \in Counted : gen[c] # 0 /\ (gen[c] = pool \/ closed)

\* The inductive invariant.
PoolInv == TypeOK /\ PoolIsCurrent /\ CountIsExact /\ CountedKeepRuntime

\* The callers counted are some of finitely many.
LEMMA CountedIsFinite == IsFiniteSet(Counted)
  BY PoolAssumption, FS_Subset DEF Counted

\* A caller that starts to wait adds one to the number of callers counted.
LEMMA OneMore ==
  ASSUME CountIsExact, NEW c, c \notin Counted, Counted' = Counted \cup {c},
         openDocs' = openDocs + 1
  PROVE  CountIsExact'
  <1>1. /\ IsFiniteSet(Counted \cup {c})
        /\ Cardinality(Counted \cup {c}) = Cardinality(Counted) + 1
    BY FS_AddElement DEF CountIsExact
  <1> QED BY <1>1 DEF CountIsExact

\* A caller that leaves takes one from it.
LEMMA OneLess ==
  ASSUME CountIsExact, NEW c, c \in Counted, Counted' = Counted \ {c},
         openDocs' = openDocs - 1
  PROVE  CountIsExact'
  <1>1. /\ IsFiniteSet(Counted \ {c})
        /\ Cardinality(Counted \ {c}) = Cardinality(Counted) - 1
    BY FS_RemoveElement DEF CountIsExact
  <1> QED BY <1>1 DEF CountIsExact

\* The pool starts without a runtime and without users.
LEMMA InitPoolInv == Init => PoolInv
  <1> SUFFICES ASSUME Init PROVE PoolInv
    OBVIOUS
  <1>1. /\ pool \in 0..MaxRuntimes /\ made \in 0..MaxRuntimes /\ openDocs \in Nat
        /\ handle \in 0..MaxRuntimes /\ stopped \subseteq Runtimes
        /\ gen \in [Callers -> 0..MaxRuntimes] /\ waited \in [Closers -> 0..MaxRuntimes]
        /\ pool <= made /\ pool = 0
    BY PoolAssumption DEF Init
  <1>4. /\ old \in BOOLEAN /\ closed \in BOOLEAN
        /\ reaper \in [Runtimes -> {"none", "run", "leaving", "done"}]
        /\ pc \in [Callers -> CallerStates]
        /\ closing \in [Closers -> {"no", "unlocked", "waiting", "done"}]
    BY DEF Init, CallerStates
  <1>5. TypeOK /\ PoolIsCurrent
    BY <1>1, <1>4 DEF TypeOK, PoolIsCurrent
  <1>2. Counted = {}
    BY DEF Init, Counted
  <1>3. CountIsExact
    BY <1>2, FS_EmptySet DEF Init, CountIsExact
  <1> QED BY <1>5, <1>2, <1>3 DEF PoolInv, CountedKeepRuntime

\* The variables keep their types; that the count never falls below zero is
\* CountIsExact.
LEMMA NextTypeOK ==
  ASSUME TypeOK, openDocs' \in Nat, Next
  PROVE  TypeOK'
  <1> USE DEF TypeOK, CallerStates, Runtimes
  <1>1. ASSUME NEW c \in Callers, Instance(c) PROVE TypeOK'
    <2>1. /\ pool' \in 0..MaxRuntimes /\ made' \in 0..MaxRuntimes
          /\ handle' \in 0..MaxRuntimes /\ stopped' \subseteq Runtimes
          /\ reaper' \in [Runtimes -> {"none", "run", "leaving", "done"}]
      <3>1. CASE pool # 0
        BY <1>1, <3>1 DEF Instance, InitLocked, reaperVars
      <3>2. CASE pool = 0
        <4>1. made + 1 \in Runtimes /\ made + 1 \in 0..MaxRuntimes
          BY <1>1, <3>2, PoolAssumption DEF Instance, InitLocked
        <4> QED BY <1>1, <3>2, <4>1 DEF Instance, InitLocked
      <3> QED BY <3>1, <3>2
    <2>2. /\ pc' \in [Callers -> {"idle", "want", "has", "open", "returning"}]
          /\ gen' \in [Callers -> 0..MaxRuntimes]
      BY <1>1, <2>1 DEF Instance
    <2>3. old' \in BOOLEAN /\ closed' \in BOOLEAN
      BY <1>1, Zenon DEF Instance
    <2> QED BY <1>1, <2>1, <2>2, <2>3 DEF Instance, closeVars
  <1>2. ASSUME NEW c \in Callers,
               GetInstance(c) \/ NoInstance(c) \/ OpenDocument(c) \/ ReturnInstance(c) \/ Uncount(c)
        PROVE  TypeOK'
    <2>1. pc' \in [Callers -> {"idle", "want", "has", "open", "returning"}]
      BY <1>2 DEF GetInstance, NoInstance, OpenDocument, ReturnInstance, Uncount
    <2>2. old' \in BOOLEAN
      BY <1>2, Zenon DEF GetInstance, NoInstance, OpenDocument, ReturnInstance, Uncount
    <2>3. UNCHANGED <<pool, made, closed, reaperVars, gen, closeVars>>
      BY <1>2, Zenon DEF GetInstance, NoInstance, OpenDocument, ReturnInstance, Uncount
    <2> QED BY <2>1, <2>2, <2>3 DEF reaperVars, closeVars
  <1>3. ASSUME NEW g \in Runtimes, Reaper(g) PROVE TypeOK'
    <2>1. /\ pool' \in 0..MaxRuntimes /\ handle' \in 0..MaxRuntimes
          /\ reaper' \in [Runtimes -> {"none", "run", "leaving", "done"}]
      BY <1>3, PoolAssumption DEF Reaper, Tick, ReaperEnds
    <2>2. UNCHANGED <<made, old, closed, stopped, callerVars, closeVars>>
      BY <1>3, Zenon DEF Reaper, Tick, ReaperEnds
    <2> QED BY <2>1, <2>2 DEF callerVars, closeVars
  <1>4. ASSUME NEW k \in Closers, Closer(k) PROVE TypeOK'
    <2>1. /\ pool' \in 0..MaxRuntimes /\ handle' \in 0..MaxRuntimes
          /\ waited' \in [Closers -> 0..MaxRuntimes]
          /\ stopped' \subseteq Runtimes
      <3>1. CASE CloseAgain(k) \/ CloseReturn(k)
        BY <3>1 DEF CloseAgain, CloseReturn, reaperVars
      <3>2. CASE CloseLock(k)
        BY <3>2, PoolAssumption DEF CloseLock
      <3>3. CASE CloseStop(k)
        <4>1. waited[k] \in 0..MaxRuntimes
          BY Zenon
        <4>2. {waited[k]} \ {0} \subseteq 1..MaxRuntimes
          BY <4>1, PoolAssumption
        <4>3. /\ stopped' = stopped \cup ({waited[k]} \ {0})
              /\ UNCHANGED <<pool, handle, waited>>
          BY <3>3, Zenon DEF CloseStop
        <4> QED BY <4>2, <4>3
      <3> QED BY <1>4, <3>1, <3>2, <3>3, Zenon DEF Closer
    <2>4. closing' \in [Closers -> {"no", "unlocked", "waiting", "done"}]
      BY <1>4 DEF Closer, CloseAgain, CloseLock, CloseStop, CloseReturn
    <2>2. closed' \in BOOLEAN
      BY <1>4, Zenon DEF Closer, CloseAgain, CloseLock, CloseStop, CloseReturn
    <2>3. UNCHANGED <<made, old, reaper, callerVars>>
      BY <1>4, Zenon DEF Closer, CloseAgain, CloseLock, CloseStop, CloseReturn, reaperVars
    <2> QED BY <2>1, <2>2, <2>3, <2>4 DEF callerVars
  <1>5. CASE Age
    <2>1. old' \in BOOLEAN
      BY <1>5, Zenon DEF Age
    <2> QED BY <1>5, <2>1 DEF Age, reaperVars, callerVars, closeVars
  <1> QED BY <1>1, <1>2, <1>3, <1>4, <1>5 DEF Next, Caller

\* A step that touches neither callers, runtime nor count keeps what is said of
\* them.
LEMMA Untouched ==
  ASSUME CountIsExact, CountedKeepRuntime, PoolIsCurrent,
         UNCHANGED <<pool, made, openDocs, closed, callerVars>>
  PROVE  CountIsExact' /\ CountedKeepRuntime' /\ PoolIsCurrent'
  <1>1. pool' = pool /\ made' = made /\ openDocs' = openDocs /\ pc' = pc /\ gen' = gen /\ closed' = closed
    BY Zenon DEF callerVars
  <1>2. Counted' = Counted
    BY <1>1 DEF Counted
  <1> QED BY <1>1, <1>2 DEF CountIsExact, CountedKeepRuntime, PoolIsCurrent

\* What a step does to the three parts that are not types.
LEMMA NextCounts ==
  ASSUME TypeOK, PoolIsCurrent, CountIsExact, CountedKeepRuntime, Next
  PROVE  PoolIsCurrent' /\ CountIsExact' /\ CountedKeepRuntime'
  <1> USE DEF TypeOK
  <1>1. ASSUME NEW c \in Callers, Instance(c)
        PROVE  PoolIsCurrent' /\ CountIsExact' /\ CountedKeepRuntime'
    <2>1. /\ pool' # 0 /\ pool' <= made'
          /\ pool # 0 => pool' = pool
      BY <1>1 DEF Instance, InitLocked, PoolIsCurrent
    <2>2. ~ closed /\ closed' = closed
      BY <1>1, Zenon DEF Instance
    <2>3. c \notin Counted /\ Counted' = Counted \cup {c}
      BY <1>1 DEF Instance, Counted
    <2>4. CountIsExact'
      BY <1>1, <2>3, OneMore, Zenon DEF Instance
    <2>5. \A d \in Counted : gen[d] # 0 /\ gen[d] = pool
      BY <2>2, Zenon DEF CountedKeepRuntime
    <2>6. ASSUME NEW d \in Counted' PROVE gen'[d] # 0 /\ gen'[d] = pool'
      <3>1. CASE d = c
        BY <1>1, <2>1, <3>1 DEF Instance
      <3>2. CASE d # c
        BY <1>1, <2>1, <2>3, <2>5, <3>2 DEF Instance, Counted
      <3> QED BY <3>1, <3>2
    <2>7. CountedKeepRuntime'
      BY <2>6, Zenon DEF CountedKeepRuntime
    <2> QED BY <2>1, <2>2, <2>4, <2>7 DEF PoolIsCurrent
  <1>2. ASSUME NEW c \in Callers, GetInstance(c) \/ OpenDocument(c) \/ ReturnInstance(c)
        PROVE  PoolIsCurrent' /\ CountIsExact' /\ CountedKeepRuntime'
    <2>1. UNCHANGED <<pool, made, openDocs, closed, gen>>
      BY <1>2, Zenon DEF GetInstance, OpenDocument, ReturnInstance
    <2>2. Counted' = Counted
      BY <1>2 DEF GetInstance, OpenDocument, ReturnInstance, Counted
    <2> QED BY <2>1, <2>2 DEF CountIsExact, CountedKeepRuntime, PoolIsCurrent
  <1>3. ASSUME NEW c \in Callers, NoInstance(c) \/ Uncount(c)
        PROVE  PoolIsCurrent' /\ CountIsExact' /\ CountedKeepRuntime'
    <2>1. UNCHANGED <<pool, made, closed, gen>> /\ openDocs' = openDocs - 1
      BY <1>3, Zenon DEF NoInstance, Uncount
    <2>2. c \in Counted /\ Counted' = Counted \ {c}
      BY <1>3 DEF NoInstance, Uncount, Counted
    <2>3. CountIsExact'
      BY <2>1, <2>2, OneLess
    <2> QED BY <2>1, <2>2, <2>3 DEF CountedKeepRuntime, PoolIsCurrent
  <1>4. ASSUME NEW g \in Runtimes, Tick(g)
        PROVE  PoolIsCurrent' /\ CountIsExact' /\ CountedKeepRuntime'
    <2>1. /\ openDocs = 0 /\ pool' = 0
          /\ UNCHANGED <<made, openDocs, closed, pc, gen>>
      BY <1>4, Zenon DEF Tick, callerVars
    <2>2. Counted = {} /\ Counted' = Counted
      BY <2>1, FS_EmptySet DEF CountIsExact, Counted
    <2>3. PoolIsCurrent'
      BY <2>1, PoolAssumption DEF PoolIsCurrent
    <2>4. CountIsExact' /\ CountedKeepRuntime'
      BY <2>1, <2>2, Zenon DEF CountIsExact, CountedKeepRuntime
    <2> QED BY <2>3, <2>4
  <1>5. ASSUME NEW k \in Closers, CloseLock(k)
        PROVE  PoolIsCurrent' /\ CountIsExact' /\ CountedKeepRuntime'
    <2>1. closed' /\ pool' = 0 /\ UNCHANGED <<made, openDocs, pc, gen>>
      BY <1>5, Zenon DEF CloseLock, callerVars
    <2>2. Counted' = Counted
      BY <2>1 DEF Counted
    <2> QED BY <2>1, <2>2 DEF CountIsExact, CountedKeepRuntime, PoolIsCurrent
  <1>6. ASSUME NEW g \in Runtimes, ReaperEnds(g)
        PROVE  PoolIsCurrent' /\ CountIsExact' /\ CountedKeepRuntime'
    BY <1>6, Untouched, Zenon DEF ReaperEnds
  <1>7. ASSUME NEW k \in Closers, CloseAgain(k) \/ CloseStop(k) \/ CloseReturn(k)
        PROVE  PoolIsCurrent' /\ CountIsExact' /\ CountedKeepRuntime'
    BY <1>7, Untouched, Zenon DEF CloseAgain, CloseStop, CloseReturn
  <1>8. CASE Age
    BY <1>8, Untouched, Zenon DEF Age
  <1> QED
    BY <1>1, <1>2, <1>3, <1>4, <1>5, <1>6, <1>7, <1>8, Zenon DEF Next, Caller, Reaper, Closer

\* No step leaves the inductive invariant.
LEMMA NextPoolInv == PoolInv /\ [Next]_vars => PoolInv'
  <1> SUFFICES ASSUME PoolInv, [Next]_vars PROVE PoolInv'
    OBVIOUS
  <1> USE DEF PoolInv
  <1>1. CASE Next
    <2>1. PoolIsCurrent' /\ CountIsExact' /\ CountedKeepRuntime'
      BY <1>1, NextCounts
    <2>2. openDocs' \in Nat
      BY <2>1, FS_CardinalityType DEF CountIsExact
    <2> QED BY <1>1, <2>1, <2>2, NextTypeOK
  <1>2. CASE UNCHANGED vars
    <2>1. PoolIsCurrent' /\ CountIsExact' /\ CountedKeepRuntime'
      BY <1>2, Untouched, Zenon DEF vars
    <2> QED BY <1>2, <2>1
            DEF vars, TypeOK, reaperVars, callerVars, closeVars, CallerStates, Runtimes
  <1> QED BY <1>1, <1>2

------------------------------------------------------------------------------
\* openDocs is exact and nobody who is counted loses the runtime, for any number
\* of callers, closers, workers and runtimes.
THEOREM PoolInvariant == Spec => []PoolInv
  <1>1. Init => PoolInv
    BY InitPoolInv
  <1>2. PoolInv /\ [Next]_vars => PoolInv'
    BY NextPoolInv
  <1> QED BY <1>1, <1>2, PTL DEF Spec

\* Whoever is counted keeps the runtime it was promised, except to Close.
THEOREM NothingTornAway == Spec => []BorrowersKeepRuntime
  <1>1. PoolInv => BorrowersKeepRuntime
    BY DEF PoolInv, CountedKeepRuntime, BorrowersKeepRuntime
  <1> QED BY <1>1, PoolInvariant, PTL

------------------------------------------------------------------------------
\* Only a closed pool has closers that stop or wait for a reaper.
ClosersClosed == \A k \in Closers : closing[k] \in {"unlocked", "waiting"} => closed

\* ReaperIsOwned, with what makes it inductive.
ReaperInv == ReaperIsOwned /\ ClosersClosed

\* At the start there is no reaper.
LEMMA InitReaperInv == Init => ReaperInv
  BY DEF Init, ReaperInv, ReaperIsOwned, ClosersClosed

\* Every step leaves each reaper with an owner: a new runtime finds none, for
\* one that runs without a runtime would be in the hands of a Close; a Close
\* takes the handle along; and it returns only once its reaper is done.
LEMMA NextReaperInv == PoolInv /\ ReaperInv /\ [Next]_vars => ReaperInv'
  <1> SUFFICES ASSUME PoolInv, ReaperInv, [Next]_vars PROVE ReaperInv'
    OBVIOUS
  <1> USE DEF PoolInv, TypeOK, PoolIsCurrent, ReaperInv, ReaperIsOwned, ClosersClosed, Runtimes
  <1>1. ASSUME NEW c \in Callers, Instance(c) PROVE ReaperInv'
    <2>1. CASE pool # 0
      BY <1>1, <2>1 DEF Instance, InitLocked, reaperVars, closeVars
    <2>2. CASE pool = 0
      <3>1. \A g \in Runtimes : reaper[g] # "run"
        BY <1>1, <2>2 DEF Instance
      <3>2. /\ pool' = made + 1 /\ handle' = made + 1
            /\ reaper' = [reaper EXCEPT ![made + 1] = "run"]
            /\ UNCHANGED <<closed, closing, waited>>
        BY <1>1, <2>2 DEF Instance, InitLocked, closeVars
      <3> QED BY <3>1, <3>2
    <2> QED BY <2>1, <2>2
  <1>2. ASSUME NEW c \in Callers,
               GetInstance(c) \/ NoInstance(c) \/ OpenDocument(c) \/ ReturnInstance(c) \/ Uncount(c)
        PROVE  ReaperInv'
    <2>1. UNCHANGED <<pool, closed, reaperVars, closeVars>>
      BY <1>2, Zenon DEF GetInstance, NoInstance, OpenDocument, ReturnInstance, Uncount
    <2> QED BY <2>1 DEF reaperVars, closeVars
  <1>3. ASSUME NEW g \in Runtimes, Tick(g) PROVE ReaperInv'
    <2>1. ~ closed /\ pool = g /\ handle = g
      BY <1>3 DEF Tick
    <2>2. \A h \in Runtimes \ {g} : reaper[h] # "run"
      BY <2>1
    <2> QED BY <1>3, <2>1, <2>2 DEF Tick, closeVars
  <1>4. ASSUME NEW g \in Runtimes, ReaperEnds(g) PROVE ReaperInv'
    BY <1>4 DEF ReaperEnds, closeVars
  <1>5. ASSUME NEW k \in Closers, CloseAgain(k) PROVE ReaperInv'
    BY <1>5 DEF CloseAgain, reaperVars
  <1>6. ASSUME NEW k \in Closers, CloseLock(k) PROVE ReaperInv'
    BY <1>6 DEF CloseLock
  <1>7. ASSUME NEW k \in Closers, CloseStop(k) PROVE ReaperInv'
    BY <1>7 DEF CloseStop
  <1>8. ASSUME NEW k \in Closers, CloseReturn(k) PROVE ReaperInv'
    BY <1>8 DEF CloseReturn, reaperVars
  <1>9. ASSUME Age PROVE ReaperInv'
    BY <1>9 DEF Age, reaperVars, closeVars
  <1>10. CASE UNCHANGED vars
    BY <1>10 DEF vars, reaperVars, closeVars
  <1> QED
    BY <1>1, <1>2, <1>3, <1>4, <1>5, <1>6, <1>7, <1>8, <1>9, <1>10
    DEF Next, Caller, Reaper, Closer

\* No reaper is ever left without an owner that will stop it.
THEOREM NoReaperIsLost == Spec => []ReaperIsOwned
  <1>1. Init => ReaperInv
    BY InitReaperInv
  <1>2. PoolInv /\ ReaperInv /\ [Next]_vars => ReaperInv'
    BY NextReaperInv
  <1>3. ReaperInv => ReaperIsOwned
    BY DEF ReaperInv
  <1> QED BY <1>1, <1>2, <1>3, PoolInvariant, PTL DEF Spec

\* A runtime keeps its borrowers and its reaper has an owner, for any number of
\* callers, runtimes and closers.
THEOREM RuntimeIsAlwaysHeld == Spec => []RuntimeIsHeld
  <1>1. BorrowersKeepRuntime /\ ReaperIsOwned => RuntimeIsHeld
    BY DEF RuntimeIsHeld
  <1> QED BY <1>1, NothingTornAway, NoReaperIsLost, PTL

------------------------------------------------------------------------------
\* Every step of the pool is a step of PdfRuntime, or none.
LEMMA StepIsPromised == PoolInv /\ [Next]_vars => [Runtime!Next]_(Runtime!runtimeVars)
  <1> SUFFICES ASSUME PoolInv, Next PROVE Runtime!Next \/ UNCHANGED Runtime!runtimeVars
    <2>1. CASE UNCHANGED vars
      BY <2>1 DEF vars, Runtime!runtimeVars, Counted, callerVars
    <2> QED BY <2>1
  <1> USE DEF PoolInv, TypeOK
  <1>1. ASSUME NEW c \in Callers, Instance(c) PROVE Runtime!Enter(c)
    <2>1. pool' # 0
      BY <1>1 DEF Instance, InitLocked
    <2>2. ~ closed /\ closed' = closed
      BY <1>1, Zenon DEF Instance
    <2>3. c \notin Counted /\ Counted' = Counted \cup {c}
      BY <1>1 DEF Instance, Counted
    <2> QED BY <2>1, <2>2, <2>3, Zenon DEF Runtime!Enter
  <1>2. ASSUME NEW c \in Callers, GetInstance(c) \/ OpenDocument(c) \/ ReturnInstance(c)
        PROVE  UNCHANGED Runtime!runtimeVars
    <2>1. UNCHANGED <<pool, closed>>
      BY <1>2, Zenon DEF GetInstance, OpenDocument, ReturnInstance
    <2>2. Counted' = Counted
      BY <1>2 DEF GetInstance, OpenDocument, ReturnInstance, Counted
    <2> QED BY <2>1, <2>2, Zenon DEF Runtime!runtimeVars
  <1>3. ASSUME NEW c \in Callers, NoInstance(c) \/ Uncount(c) PROVE Runtime!Leave(c)
    <2>1. UNCHANGED <<pool, closed>>
      BY <1>3, Zenon DEF NoInstance, Uncount
    <2>2. c \in Counted /\ Counted' = Counted \ {c}
      BY <1>3 DEF NoInstance, Uncount, Counted
    <2> QED BY <2>1, <2>2, Zenon DEF Runtime!Leave
  <1>4. ASSUME NEW g \in Runtimes, Tick(g) PROVE Runtime!Rest
    <2>1. /\ openDocs = 0 /\ pool # 0 /\ pool' = 0
          /\ UNCHANGED <<closed, pc>>
      BY <1>4, Zenon DEF Tick, callerVars
    <2>2. Counted = {} /\ Counted' = Counted
      BY <2>1, FS_EmptySet DEF CountIsExact, Counted
    <2> QED BY <2>1, <2>2, Zenon DEF Runtime!Rest
  <1>5. ASSUME NEW k \in Closers, CloseLock(k) PROVE Runtime!Shut
    <2>1. ~ closed /\ closed' = TRUE /\ pool' = 0 /\ pc' = pc
      BY <1>5, Zenon DEF CloseLock, callerVars
    <2>2. Counted' = Counted
      BY <2>1 DEF Counted
    <2> QED BY <2>1, <2>2, Zenon DEF Runtime!Shut
  <1>6. ASSUME \/ Age
               \/ \E g \in Runtimes : ReaperEnds(g)
               \/ \E k \in Closers : CloseAgain(k) \/ CloseStop(k) \/ CloseReturn(k)
        PROVE  UNCHANGED Runtime!runtimeVars
    <2>1. pool' = pool /\ closed' = closed /\ pc' = pc
      BY <1>6, Zenon DEF Age, ReaperEnds, CloseAgain, CloseStop, CloseReturn, callerVars
    <2>2. Counted' = Counted
      BY <2>1 DEF Counted
    <2> QED BY <2>1, <2>2, Zenon DEF Runtime!runtimeVars
  <1> QED
    BY <1>1, <1>2, <1>3, <1>4, <1>5, <1>6, Zenon
    DEF Next, Caller, Reaper, Closer, Runtime!Next

\* The pool implements the runtime that PdfRuntime promises: it is torn down
\* only when nobody uses it or by Close, and it never comes back after Close.
THEOREM PoolImplementsRuntime == Spec => Runtime!Spec
  <1>1. Init => Runtime!Init
    BY Zenon DEF Init, Runtime!Init, Counted
  <1>2. PoolInv /\ [Next]_vars => [Runtime!Next]_(Runtime!runtimeVars)
    BY StepIsPromised
  <1> QED BY <1>1, <1>2, PoolInvariant, PTL DEF Spec, Runtime!Spec
-----------------------------------------------------------------------------
(* What the scan would commit keeps what is measured, and is what is       *)
(* committed for every book that this run has not read.                    *)
Batched ==
  tx # NoTx =>
    \A b \in Books : MeansMeasured(tx[b]) /\ (b \notin visited => tx[b] = index[b])

(* The book in flight was read by this run.  Between its row and its pages *)
(* it is in an open batch and says "none", or is known to be apart; when   *)
(* it has moved, the state that was read still fits its pages.             *)
StillFits(pages) == job.state = "done" => job.apart \/ Unmeasured(pages) = {}
InFlight ==
  /\ job # NoJob => job.book \in visited
  /\ job.kind = "pages" => job.apart \/ (tx # NoTx /\ tx[job.book].state = "none")
  /\ job.kind = "moved" => StillFits(Open[job.book].pages)

RowsInv == pdTypeOK /\ DoneMeansMeasured /\ Batched /\ InFlight

(* The queue holds a book once, and not the one in the worker's hands.     *)
Distinct(q) == \A i, j \in DOMAIN q : q[i] = q[j] => i = j
LineInv ==
  /\ pdTypeOK
  /\ Distinct(queue) /\ InHand \cap Range(queue) = {}
  /\ queued = Range(queue) \cup InHand

------------------------------------------------------------------------------
(* The operators. *)

\* A set of numbers up to n has a largest one.
LEMMA LargestOf ==
  ASSUME NEW n \in Nat, NEW S \in SUBSET (1..n), S # {}
  PROVE  \E k \in S : \A l \in S : l <= k
  <1> DEFINE T == {n - k : k \in S}
  <1>1. T \subseteq Nat /\ T # {}
    <2>1. \A k \in S : n - k \in Nat
      OBVIOUS
    <2>2. QED
      BY <2>1
  <1>2. PICK m \in T : \A l \in T : ~(<<l, m>> \in OpToRel(<, Nat))
    <2> HIDE DEF T
    <2>1. IsWellFoundedOn(OpToRel(<, Nat), Nat)
      BY NatLessThanWellFounded
    <2>2. QED
      BY <1>1, <2>1, WFMin
  <1>3. PICK k \in S : m = n - k
    OBVIOUS
  <1>4. ASSUME NEW l \in S PROVE l <= k
    <2>1. n - l \in T /\ n - l \in Nat /\ m \in Nat
      BY <1>1
    <2>2. ~(<<n - l, m>> \in OpToRel(<, Nat))
      BY <1>2, <2>1
    <2>3. ~(n - l < m)
      BY <2>1, <2>2 DEF OpToRel
    <2>4. QED
      BY <1>3, <2>3
  <1>5. QED
    BY <1>4

\* The last size written to a page is a size.
LEMMA LastSizeType ==
  ASSUME NEW dims \in Seq(Sizings), NEW i, Sizes(dims, i) # {}
  PROVE  dims[LastSize(dims, i)].w \in Nat \ {0}
  <1>1. Sizes(dims, i) \in SUBSET (1..Len(dims))
    BY DEF Sizes
  <1>2. \E k \in Sizes(dims, i) : \A l \in Sizes(dims, i) : l <= k
    <2>1. Len(dims) \in Nat
      OBVIOUS
    <2> HIDE DEF Sizes
    <2>2. QED
      BY <1>1, <2>1, LargestOf
  <1>3. LastSize(dims, i) \in Sizes(dims, i)
    BY <1>2 DEF LastSize
  <1>4. dims[LastSize(dims, i)] \in Sizings
    BY <1>1, <1>3
  <1>5. QED
    BY <1>4 DEF Sizings

\* What is numbered from 1 to n is a sequence.
LEMMA ListIsSeq ==
  ASSUME NEW S, NEW n \in Nat, NEW f \in [1..n -> S]
  PROVE  f \in Seq(S)
  OBVIOUS

\* Writing sizes keeps the shape of the page rows and unmeasures no page.
LEMMA SizedType ==
  ASSUME NEW pages \in Pages, NEW dims \in Seq(Sizings)
  PROVE  /\ Sized(pages, dims) \in Pages
         /\ Unmeasured(Sized(pages, dims)) \subseteq Unmeasured(pages)
  <1> DEFINE new == Sized(pages, dims)
  <1>1. DOMAIN new = DOMAIN pages
    BY DEF Sized
  <1>2. ASSUME NEW i \in DOMAIN pages
        PROVE  /\ new[i] \in Nat
               /\ new[i] = 0 => pages[i] = 0
    <2>1. pages[i] \in Nat
      BY DEF Pages
    <2>2. new[i] = IF Sizes(dims, i) = {} THEN pages[i] ELSE dims[LastSize(dims, i)].w
      BY DEF Sized
    <2>3. Sizes(dims, i) # {} => dims[LastSize(dims, i)].w \in Nat \ {0}
      BY LastSizeType
    <2> HIDE DEF new
    <2>4. QED
      BY <2>1, <2>2, <2>3
  <1>3. DOMAIN pages = 1..Len(pages) /\ Len(pages) \in Nat
    BY DEF Pages
  <1>4. new \in [1..Len(pages) -> Nat]
    <2>1. new = [i \in DOMAIN new |-> new[i]]
      BY DEF Sized
    <2> HIDE DEF new
    <2>2. QED
      BY <1>1, <1>2, <1>3, <2>1
  <1>5. Unmeasured(new) \subseteq Unmeasured(pages)
    <2> HIDE DEF new
    <2>1. QED
      BY <1>1, <1>2 DEF Unmeasured
  <1> HIDE DEF new
  <1>6. new \in Pages
    BY <1>3, <1>4, ListIsSeq DEF Pages
  <1>7. QED
    BY <1>5, <1>6 DEF new

\* dims_state is a state, and done only of pages that all have a width.
LEMMA DerivedType ==
  ASSUME NEW pages \in Pages
  PROVE  /\ Derived(pages) \in States
         /\ Derived(pages) = "done" => Unmeasured(pages) = {}
  BY DEF Derived, States

\* The rows ReplacePages inserts are page rows.
LEMMA NullPagesType ==
  ASSUME NEW f \in Files
  PROVE  NullPages(f) \in Pages
  <1>1. f.n \in Nat
    BY DEF Files
  <1>2. NullPages(f) \in [1..f.n -> Nat]
    BY <1>1 DEF NullPages
  <1>3. QED
    BY <1>1, <1>2 DEF Pages

(* A sequence that holds everything once is as long as what it holds.      *)
LEMMA DistinctCount ==
  ASSUME NEW S, NEW q \in Seq(S), Distinct(q)
  PROVE  Cardinality(Range(q)) = Len(q)
  <1>1. Len(q) \in Nat /\ DOMAIN q = 1..Len(q)
    OBVIOUS
  <1>2. q \in [1..Len(q) -> Range(q)]
    BY <1>1 DEF Range
  <1>3. q \in Bijection(1..Len(q), Range(q))
    BY <1>1, <1>2 DEF Distinct, Range, Bijection, Injection, IsInjective, Surjection
  <1>4. ExistsBijection(1..Len(q), Range(q))
    BY <1>3 DEF ExistsBijection
  <1>5. QED
    BY <1>1, <1>4, FS_CountingElements

------------------------------------------------------------------------------
(* Types. *)

\* UpdateDims keeps the types, and a book that was measured stays so.
LEMMA UpdateDimsType ==
  ASSUME pdTypeOK, NEW b \in Books, NEW dims \in Seq(Sizings), UpdateDims(b, dims)
  PROVE  /\ index' \in Rows
         /\ \A c \in Books : Unmeasured(index'[c].pages) \subseteq Unmeasured(index[c].pages)
         /\ \A c \in Books : MeansMeasured(index[c]) => MeansMeasured(index'[c])
  <1> DEFINE new == Sized(index[b].pages, dims)
  <1>1. index \in Rows
    BY DEF pdTypeOK
  <1>2. index[b].pages \in Pages
    BY <1>1 DEF Rows, BookRows
  <1>3. new \in Pages /\ Unmeasured(new) \subseteq Unmeasured(index[b].pages)
    BY <1>2, SizedType
  <1>4. index' = [index EXCEPT ![b] = [@ EXCEPT !.state = Derived(new), !.pages = new, !.apart = FALSE]]
    BY DEF UpdateDims
  <1> HIDE DEF new
  <1>5. Derived(new) \in States /\ (Derived(new) = "done" => Unmeasured(new) = {})
    BY <1>3, DerivedType
  <1>6. QED
    BY <1>1, <1>3, <1>4, <1>5 DEF Rows, BookRows, MeansMeasured

\* The rows that UpsertBook and ReplacePages write are rows.
LEMMA RowOfType ==
  ASSUME pdTypeOK, NEW row \in BookRows, job.kind \in {"moved", "read"}
  PROVE  RowOf(row) \in BookRows
  <1>1. job.ver \in Nat \ {0} /\ job.state \in States /\ job.apart \in BOOLEAN
    BY DEF pdTypeOK, Jobs, NoJob, States
  <1>2. QED
    BY <1>1 DEF RowOf, BookRows
LEMMA PagesOfType ==
  ASSUME pdTypeOK, NEW row \in BookRows, job.kind = "pages"
  PROVE  PagesOf(row) \in BookRows
  <1>1. job.pages \in Pages /\ job.apart \in BOOLEAN
    BY DEF pdTypeOK, Jobs, NoJob
  <1>2. QED
    BY <1>1 DEF PagesOf, BookRows

\* What a batch would commit has the index's type.
LEMMA OpenType ==
  ASSUME pdTypeOK PROVE Open \in Rows
  BY DEF pdTypeOK, Open

\* The worker goes on to the next page, with the type of one that probes.
LEMMA ProbingUpdate ==
  ASSUME NEW p \in Probing, NEW todo \in SUBSET (Nat \ {0}), NEW got \in Seq(Sizings)
  PROVE  [p EXCEPT !.todo = todo, !.got = got] \in Probing
  BY DEF Probing

\* The worker drops a batch it has written, with the type of one that flushes.
LEMMA FlushingUpdate ==
  ASSUME NEW f \in Flushing, NEW b \in Books
  PROVE  [f EXCEPT !.batch[b] = <<>>] \in Flushing
  <1>1. [f.batch EXCEPT ![b] = <<>>] \in [Books -> Seq(Sizings)]
    BY DEF Flushing
  <1>2. [f EXCEPT !.batch[b] = <<>>] = [f EXCEPT !.batch = [f.batch EXCEPT ![b] = <<>>]]
    OBVIOUS
  <1>3. \A batch \in [Books -> Seq(Sizings)] : [f EXCEPT !.batch = batch] \in Flushing
    BY DEF Flushing
  <1>4. QED
    BY <1>1, <1>2, <1>3

\* The types hold at the start.
LEMMA pdInitType ==
  ASSUME pdInit PROVE pdTypeOK
  <1> USE PageDimsAssumption DEF pdInit
  <1>1. file \in [Books -> Files]
    BY DEF Files
  <1>2. index \in Rows
    <2>1. \A b \in Books : NullPages(file[b]) \in Pages
      BY <1>1, NullPagesType
    <2>2. QED
      BY <2>1 DEF Rows, BookRows, States
  <1>3. pending \in [Books -> Seq(Sizings)]
    BY DEF pdTypeOK
  <1>4. runs \in Nat /\ visited \subseteq Books /\ queue \in Seq(Books) /\ queued \subseteq Books
    OBVIOUS
  <1>5. tx \in Rows \cup {NoTx} /\ job \in Jobs /\ worker \in Phases
    BY DEF Jobs, Phases, Waiting
  <1>6. QED
    BY <1>1, <1>2, <1>3, <1>4, <1>5 DEF pdTypeOK

\* Every step keeps the types.
LEMMA TypeStep ==
  ASSUME pdTypeOK, [pdNext]_pdVars PROVE pdTypeOK'
  <1> USE PageDimsAssumption
  <1>1. ASSUME NEW b \in Books, OpenBook(b) PROVE pdTypeOK'
    <2>1. Append(queue, b) \in Seq(Books)
      BY DEF pdTypeOK
    <2>2. queue' \in Seq(Books) /\ queued' \subseteq Books
      BY <1>1, <2>1 DEF pdTypeOK, OpenBook, EnsureDims
    <2>3. QED
      BY <1>1, <2>2 DEF pdTypeOK, OpenBook, scanVars
  <1>2. ASSUME NEW b \in Books, ScanReads(b) PROVE pdTypeOK'
    <2>1. NullPages(file[b]) \in Pages
      BY NullPagesType DEF pdTypeOK
    <2>4. file[b].ver \in Nat \ {0} /\ index[b] \in BookRows
      BY DEF pdTypeOK, Rows, Files
    <2>5. index[b].state \in States /\ index[b].apart \in BOOLEAN
      BY <2>4 DEF BookRows
    <2>6. ASSUME job' = [kind |-> "moved", book |-> b, ver |-> file[b].ver,
                         state |-> index[b].state, apart |-> index[b].apart]
          PROVE  job' \in Jobs
      BY <2>4, <2>5, <2>6 DEF Jobs
    <2>7. ASSUME job' = [kind |-> "read", book |-> b, ver |-> file[b].ver,
                         state |-> "none", apart |-> FALSE, pages |-> NullPages(file[b])]
          PROVE  job' \in Jobs
      BY <2>1, <2>4, <2>7 DEF Jobs
    <2>2. job' \in Jobs
      BY <1>2, <2>6, <2>7 DEF ScanReads
    <2>3. QED
      BY <1>2, <2>2 DEF ScanReads, pdTypeOK, sizeVars
  <1>3. ASSUME NEW b \in Books, Rewrite(b) PROVE pdTypeOK'
    <2>1. PICK n \in 1..MaxPages : file' = [file EXCEPT ![b] = [ver |-> @.ver + 1, n |-> n]]
      BY <1>3 DEF Rewrite
    <2>2. [ver |-> file[b].ver + 1, n |-> n] \in Files
      BY DEF pdTypeOK, Files
    <2>3. file' \in [Books -> Files]
      BY <2>1, <2>2 DEF pdTypeOK
    <2>4. QED
      BY <1>3, <2>3 DEF Rewrite, pdTypeOK, scanVars, sizeVars
  <1>4. ASSUME NEW b \in Books, NEW i \in 1..MaxPages, RecordDims(b, i) PROVE pdTypeOK'
    <2>1. [no |-> i, w |-> file[b].ver] \in Sizings
      BY DEF pdTypeOK, Sizings, Files
    <2>2. pending' \in [Books -> Seq(Sizings)]
      BY <1>4, <2>1 DEF RecordDims, pdTypeOK
    <2>3. QED
      BY <1>4, <2>2 DEF RecordDims, pdTypeOK, scanVars
  <1>5. CASE TakePending
    <2>1. pending' \in [Books -> Seq(Sizings)]
      BY <1>5 DEF TakePending
    <2>2. worker' \in Phases
      BY <1>5 DEF TakePending, pdTypeOK, Phases, Flushing
    <2>3. QED
      BY <1>5, <2>1, <2>2 DEF TakePending, pdTypeOK, scanVars
  <1>6. ASSUME NEW b \in Books, WritePending(b) PROVE pdTypeOK'
    <2>1. worker \in Flushing
      BY <1>6 DEF WritePending, pdTypeOK, Phases, Listing, Opening, Probing
    <2>2. index' \in Rows
      <3>1. worker.batch[b] \in Seq(Sizings)
        BY <2>1 DEF Flushing
      <3>2. QED
        BY <1>6, <3>1, UpdateDimsType DEF WritePending
    <2>3. worker' \in Flushing
      BY <1>6, <2>1, FlushingUpdate DEF WritePending
    <2>4. worker' \in Phases
      BY <2>3 DEF Phases
    <2>5. QED
      BY <1>6, <2>2, <2>4 DEF WritePending, pdTypeOK, scanVars, UpdateDims
  <1>7. CASE NextBook
    <2>1. queue \in Seq(Books) /\ (queue # <<>> => Head(queue) \in Books /\ Tail(queue) \in Seq(Books))
      BY DEF pdTypeOK
    <2>2. worker' \in Phases
      BY <1>7, <2>1 DEF NextBook, Waiting, Phases, Listing
    <2>3. queue' \in Seq(Books)
      BY <1>7, <2>1 DEF NextBook
    <2>4. QED
      BY <1>7, <2>2, <2>3 DEF NextBook, pdTypeOK, scanVars
  <1>8. CASE ListTodo
    <2>1. worker.book \in Books
      BY <1>8 DEF ListTodo, pdTypeOK, Phases, Flushing, Listing, Opening, Probing
    <2>2. ListPages(worker.book) \subseteq Nat \ {0}
      <3>1. index[worker.book].pages \in Pages
        BY <2>1 DEF pdTypeOK, Rows, BookRows
      <3>2. QED
        BY <3>1 DEF ListPages, Unmeasured, Pages
    <2>3. worker' \in Phases /\ queued' \subseteq Books
      BY <1>8, <2>1, <2>2 DEF ListTodo, Finish, pdTypeOK, Phases, Opening
    <2>4. QED
      BY <1>8, <2>3 DEF ListTodo, pdTypeOK, scanVars
  <1>9. CASE OpenFile
    <2>1. worker \in Opening
      BY <1>9 DEF OpenFile, pdTypeOK, Phases, Flushing, Listing, Probing
    <2>2. file[worker.book] \in Files
      BY <2>1 DEF pdTypeOK, Opening
    <2>3. worker' \in Phases
      BY <1>9, <2>1, <2>2 DEF OpenFile, Phases, Opening, Probing
    <2>4. QED
      BY <1>9, <2>3 DEF OpenFile, pdTypeOK, scanVars
  <1>10. CASE Probe
    <2>1. worker \in Probing
      BY <1>10 DEF Probe, pdTypeOK, Phases, Flushing, Listing, Opening
    <2>2. PICK i \in worker.todo :
            worker' = [worker EXCEPT
                         !.todo = @ \ {i},
                         !.got = IF i <= worker.held.n /\ i \notin Unreadable
                                 THEN Append(@, [no |-> i, w |-> worker.held.ver]) ELSE @]
      BY <1>10 DEF Probe
    <2>3. [no |-> i, w |-> worker.held.ver] \in Sizings
      BY <2>1 DEF Sizings, Files, Probing
    <2>4. worker' \in Probing
      <3> DEFINE todo == worker.todo \ {i}
                 got  == IF i <= worker.held.n /\ i \notin Unreadable
                         THEN Append(worker.got, [no |-> i, w |-> worker.held.ver]) ELSE worker.got
      <3>1. todo \in SUBSET (Nat \ {0}) /\ got \in Seq(Sizings)
        BY <2>1, <2>3 DEF Probing
      <3>2. worker' = [worker EXCEPT !.todo = todo, !.got = got]
        BY <2>2
      <3> HIDE DEF todo, got
      <3>3. QED
        BY <2>1, <3>1, <3>2, ProbingUpdate
    <2>5. worker' \in Phases
      BY <2>4 DEF Phases
    <2>6. QED
      BY <1>10, <2>5 DEF Probe, pdTypeOK, scanVars
  <1>11. CASE Save
    <2>1. worker \in Probing
      BY <1>11 DEF Save, pdTypeOK, Phases, Flushing, Listing, Opening
    <2>2. index' \in Rows
      BY <1>11, <2>1, UpdateDimsType DEF Save, Probing
    <2>3. worker' \in Probing
      <3>1. worker' = [worker EXCEPT !.todo = worker.todo, !.got = <<>>]
        BY <1>11, <2>1 DEF Save, Probing
      <3>2. worker.todo \in SUBSET (Nat \ {0}) /\ <<>> \in Seq(Sizings)
        BY <2>1 DEF Probing
      <3>3. QED
        BY <2>1, <3>1, <3>2, ProbingUpdate
    <2>4. worker' \in Phases
      BY <2>3 DEF Phases
    <2>5. QED
      BY <1>11, <2>2, <2>4 DEF Save, pdTypeOK, scanVars, UpdateDims
  <1>12. CASE Measured
    <2>1. worker' \in Phases /\ queued' \subseteq Books
      BY <1>12 DEF Measured, Finish, pdTypeOK, Phases
    <2>2. QED
      BY <1>12, <2>1 DEF Measured, pdTypeOK, scanVars
  <1>13. ASSUME NEW commit \in BOOLEAN, WriteRow(commit) PROVE pdTypeOK'
    <2> DEFINE row == RowOf(Open[job.book])
               rows == [Open EXCEPT ![job.book] = row]
    <2>1. job.book \in Books /\ Open \in Rows
      BY <1>13, OpenType DEF WriteRow, pdTypeOK, Jobs, NoJob
    <2>7. row \in BookRows
      BY <1>13, <2>1, RowOfType DEF WriteRow, Rows
    <2> HIDE DEF row
    <2>2. rows \in Rows
      BY <2>1, <2>7 DEF Rows
    <2> USE DEF row
    <2>3. MaybeCommit(rows, commit)
      BY <1>13 DEF WriteRow
    <2> HIDE DEF rows
    <2>4. index' \in Rows /\ tx' \in Rows \cup {NoTx}
      BY <2>2, <2>3 DEF MaybeCommit, pdTypeOK
    <2>5. job' \in Jobs
      <3>1. CASE job.kind = "moved"
        BY <1>13, <3>1 DEF WriteRow, Jobs
      <3>2. CASE job.kind = "read"
        <4>1. job \in [kind : {"read", "pages"}, book : Books, ver : Nat \ {0}, state : {"none"},
                       apart : BOOLEAN, pages : Pages]
          BY <3>2 DEF pdTypeOK, Jobs, NoJob
        <4>2. job' = [job EXCEPT !.kind = "pages", !.apart = commit]
          BY <1>13, <3>2 DEF WriteRow
        <4>3. QED
          BY <4>1, <4>2 DEF Jobs
      <3>3. QED
        BY <1>13, <3>1, <3>2 DEF WriteRow
    <2>6. QED
      BY <1>13, <2>4, <2>5 DEF WriteRow, pdTypeOK, sizeVars
  <1>14. ASSUME NEW commit \in BOOLEAN, WritePages(commit) PROVE pdTypeOK'
    <2> DEFINE row == PagesOf(Open[job.book])
               rows == [Open EXCEPT ![job.book] = row]
    <2>1. job.book \in Books /\ Open \in Rows
      BY <1>14, OpenType DEF WritePages, pdTypeOK, Jobs, NoJob
    <2>6. row \in BookRows
      BY <1>14, <2>1, PagesOfType DEF WritePages, Rows
    <2> HIDE DEF row
    <2>2. rows \in Rows
      BY <2>1, <2>6 DEF Rows
    <2> USE DEF row
    <2>3. MaybeCommit(rows, commit)
      BY <1>14 DEF WritePages
    <2> HIDE DEF rows
    <2>4. index' \in Rows /\ tx' \in Rows \cup {NoTx}
      BY <2>2, <2>3 DEF MaybeCommit, pdTypeOK
    <2>5. QED
      BY <1>14, <2>4 DEF WritePages, pdTypeOK, sizeVars, Jobs
  <1>15. CASE Flush
    BY <1>15, OpenType DEF Flush, pdTypeOK, sizeVars
  <1>16. CASE Rollback
    BY <1>16 DEF Rollback, pdTypeOK, sizeVars, Jobs, NoJob
  <1>17. CASE UNCHANGED pdVars
    BY <1>17 DEF pdTypeOK, pdVars, scanVars, sizeVars
  <1>18. QED
    BY <1>1, <1>2, <1>3, <1>4, <1>5, <1>6, <1>7, <1>8, <1>9, <1>10, <1>11, <1>12, <1>13, <1>14, <1>15, <1>16, <1>17
       DEF pdNext, Worker, Scan

------------------------------------------------------------------------------
(* The queue. *)

\* A book that is not queued is appended to a queue without duplicates.
LEMMA DistinctAppend ==
  ASSUME NEW S, NEW q \in Seq(S), NEW x \in S, Distinct(q), x \notin Range(q)
  PROVE  Distinct(Append(q, x)) /\ Range(Append(q, x)) = Range(q) \cup {x}
  <1>1. Len(q) \in Nat /\ DOMAIN q = 1..Len(q)
    OBVIOUS
  <1>2. DOMAIN Append(q, x) = 1..(Len(q) + 1)
    OBVIOUS
  <1>3. \A i \in 1..Len(q) : Append(q, x)[i] = q[i] /\ q[i] \in Range(q)
    BY <1>1 DEF Range
  <1>4. Append(q, x)[Len(q) + 1] = x
    OBVIOUS
  <1>5. Distinct(Append(q, x))
    BY <1>1, <1>2, <1>3, <1>4 DEF Distinct
  <1>6. Range(Append(q, x)) = Range(q) \cup {x}
    BY <1>1, <1>2, <1>3, <1>4 DEF Range
  <1>7. QED
    BY <1>5, <1>6

\* The head of a queue without duplicates is not in its tail.
LEMMA DistinctTail ==
  ASSUME NEW S, NEW q \in Seq(S), Distinct(q), q # <<>>
  PROVE  /\ Distinct(Tail(q)) /\ Head(q) \notin Range(Tail(q))
         /\ Range(q) = Range(Tail(q)) \cup {Head(q)}
  <1>1. Len(q) \in Nat /\ Len(q) > 0 /\ DOMAIN q = 1..Len(q)
    OBVIOUS
  <1>2. DOMAIN Tail(q) = 1..(Len(q) - 1)
    OBVIOUS
  <1>3. \A i \in 1..(Len(q) - 1) : Tail(q)[i] = q[i + 1]
    OBVIOUS
  <1>4. Head(q) = q[1]
    OBVIOUS
  <1>5. Distinct(Tail(q))
    BY <1>1, <1>2, <1>3 DEF Distinct
  <1>6. Head(q) \notin Range(Tail(q))
    BY <1>1, <1>2, <1>3, <1>4 DEF Distinct, Range
  <1>7. ASSUME NEW y PROVE y \in Range(q) <=> y \in Range(Tail(q)) \cup {Head(q)}
    <2>1. ASSUME NEW i \in 1..Len(q) PROVE i = 1 \/ (i - 1 \in 1..(Len(q) - 1) /\ q[i] = Tail(q)[i - 1])
      BY <1>1, <1>3
    <2>2. ASSUME y \in Range(q) PROVE y \in Range(Tail(q)) \cup {Head(q)}
      <3>1. PICK i \in 1..Len(q) : y = q[i]
        BY <1>1, <2>2 DEF Range
      <3>2. QED
        BY <1>2, <1>4, <2>1, <3>1 DEF Range
    <2>3. ASSUME y \in Range(Tail(q)) PROVE y \in Range(q)
      <3>1. PICK i \in 1..(Len(q) - 1) : y = Tail(q)[i]
        BY <1>2, <2>3 DEF Range
      <3>2. i + 1 \in 1..Len(q) /\ y = q[i + 1]
        BY <1>1, <1>3, <3>1
      <3>3. QED
        BY <1>1, <3>2 DEF Range
    <2>4. Head(q) \in Range(q)
      BY <1>1, <1>4 DEF Range
    <2>5. QED
      BY <2>2, <2>3, <2>4
  <1>8. QED
    BY <1>5, <1>6, <1>7

\* Every step keeps queue, set and hand in agreement.
LEMMA LineStep ==
  ASSUME LineInv, [pdNext]_pdVars PROVE LineInv'
  <1> USE DEF LineInv
  <1>0. pdTypeOK' /\ queue \in Seq(Books)
    BY TypeStep DEF pdTypeOK
  <1> SUFFICES /\ Distinct(queue') /\ InHand' \cap Range(queue') = {}
               /\ queued' = Range(queue') \cup InHand'
    BY <1>0
  \* What neither queues nor takes a book, and keeps the one in hand.
  <1>1. ASSUME UNCHANGED <<queue, queued>>, InHand' = InHand
        PROVE  /\ Distinct(queue') /\ InHand' \cap Range(queue') = {}
               /\ queued' = Range(queue') \cup InHand'
    BY <1>1
  \* What is measured is no longer in hand, and no longer counts as queued.
  <1>2. ASSUME UNCHANGED queue, InHand = {worker.book}, Finish(worker.book)
        PROVE  /\ Distinct(queue') /\ InHand' \cap Range(queue') = {}
               /\ queued' = Range(queue') \cup InHand'
    <2>1. InHand' = {}
      BY <1>2 DEF Finish, InHand
    <2>2. queued' = queued \ {worker.book}
      BY <1>2 DEF Finish
    <2>3. QED
      BY <1>2, <2>1, <2>2
  <1>3. ASSUME NEW b \in Books, OpenBook(b)
        PROVE  /\ Distinct(queue') /\ InHand' \cap Range(queue') = {}
               /\ queued' = Range(queue') \cup InHand'
    <2>1. InHand' = InHand
      BY <1>3 DEF OpenBook, InHand
    <2>2. CASE UNCHANGED <<queue, queued>>
      BY <1>1, <2>1, <2>2
    <2>3. CASE b \notin queued /\ queued' = queued \cup {b} /\ queue' = Append(queue, b)
      <3>1. b \notin Range(queue) /\ b \notin InHand
        BY <2>3
      <3>2. Distinct(queue') /\ Range(queue') = Range(queue) \cup {b}
        BY <1>0, <2>3, <3>1, DistinctAppend
      <3>3. QED
        BY <2>1, <2>3, <3>1, <3>2
    <2>4. QED
      BY <1>3, <2>2, <2>3 DEF OpenBook, EnsureDims
  <1>4. CASE NextBook
    <2>1. InHand = {}
      BY <1>4 DEF NextBook, InHand
    <2>2. CASE queue = <<>> /\ worker' = Waiting /\ UNCHANGED queue
      <3>1. InHand' = InHand
        BY <2>1, <2>2 DEF InHand, Waiting
      <3>2. QED
        BY <1>1, <1>4, <2>2, <3>1 DEF NextBook
    <2>3. CASE queue # <<>> /\ worker' = [phase |-> "list", book |-> Head(queue)] /\ queue' = Tail(queue)
      <3>1. InHand' = {Head(queue)}
        BY <2>3 DEF InHand
      <3>2. Distinct(queue') /\ Head(queue) \notin Range(queue') /\ Range(queue) = Range(queue') \cup {Head(queue)}
        BY <1>0, <2>3, DistinctTail
      <3>3. QED
        BY <1>4, <2>1, <3>1, <3>2 DEF NextBook
    <2>4. QED
      BY <1>4, <2>2, <2>3 DEF NextBook
  <1>5. CASE ListTodo
    <2>1. InHand = {worker.book}
      BY <1>5 DEF ListTodo, InHand
    <2>2. CASE Finish(worker.book)
      BY <1>2, <1>5, <2>1, <2>2 DEF ListTodo
    <2>3. CASE UNCHANGED queued /\ worker' = [phase |-> "open", book |-> worker.book, todo |-> ListPages(worker.book)]
      <3>1. InHand' = InHand
        BY <2>1, <2>3 DEF InHand
      <3>2. QED
        BY <1>1, <1>5, <2>3, <3>1 DEF ListTodo
    <2>4. QED
      BY <1>5, <2>2, <2>3 DEF ListTodo
  <1>6. CASE Measured
    <2>1. InHand = {worker.book}
      BY <1>6 DEF Measured, InHand
    <2>2. QED
      BY <1>2, <1>6, <2>1 DEF Measured
  <1>7. CASE TakePending
    <2>1. InHand' = InHand
      BY <1>7 DEF TakePending, InHand
    <2>2. QED
      BY <1>1, <1>7, <2>1 DEF TakePending
  <1>8. ASSUME NEW b \in Books, WritePending(b)
        PROVE  /\ Distinct(queue') /\ InHand' \cap Range(queue') = {}
               /\ queued' = Range(queue') \cup InHand'
    <2>1. worker' = [worker EXCEPT !.batch[b] = <<>>] /\ worker.phase = "flush"
      BY <1>8 DEF WritePending
    <2>2. worker \in Flushing
      BY <2>1 DEF pdTypeOK, Phases, Listing, Opening, Probing
    <2>3. worker'.phase = "flush"
      BY <2>1, <2>2, FlushingUpdate DEF Flushing
    <2>4. InHand' = InHand
      BY <2>1, <2>3 DEF InHand
    <2>5. QED
      BY <1>1, <1>8, <2>4 DEF WritePending
  <1>9. CASE OpenFile
    <2>1. InHand' = InHand
      BY <1>9 DEF OpenFile, InHand
    <2>2. QED
      BY <1>1, <1>9, <2>1 DEF OpenFile
  <1>10. CASE Probe
    <2>1. worker \in Probing
      BY <1>10 DEF Probe, pdTypeOK, Phases, Flushing, Listing, Opening
    <2>2. worker'.phase = worker.phase /\ worker'.book = worker.book
      BY <1>10, <2>1 DEF Probe, Probing
    <2>3. InHand' = InHand
      BY <2>2 DEF InHand
    <2>4. QED
      BY <1>1, <1>10, <2>3 DEF Probe
  <1>11. CASE Save
    <2>1. worker \in Probing
      BY <1>11 DEF Save, pdTypeOK, Phases, Flushing, Listing, Opening
    <2>2. worker'.phase = worker.phase /\ worker'.book = worker.book
      BY <1>11, <2>1 DEF Save, Probing
    <2>3. InHand' = InHand
      BY <2>2 DEF InHand
    <2>4. QED
      BY <1>1, <1>11, <2>3 DEF Save
  <1>12. ASSUME UNCHANGED <<queue, queued, worker>>
         PROVE  /\ Distinct(queue') /\ InHand' \cap Range(queue') = {}
                /\ queued' = Range(queue') \cup InHand'
    BY <1>1, <1>12 DEF InHand
  <1>13. ASSUME NEW b \in Books, ScanReads(b) \/ Rewrite(b) PROVE UNCHANGED <<queue, queued, worker>>
    BY <1>13 DEF ScanReads, Rewrite, sizeVars
  <1>14. ASSUME NEW b \in Books, NEW i \in 1..MaxPages, RecordDims(b, i) PROVE UNCHANGED <<queue, queued, worker>>
    BY <1>14 DEF RecordDims
  <1>15. ASSUME Scan \/ Flush \/ Rollback \/ UNCHANGED pdVars PROVE UNCHANGED <<queue, queued, worker>>
    BY <1>15 DEF Scan, WriteRow, WritePages, Flush, Rollback, pdVars, sizeVars
  <1>16. QED
    BY <1>3, <1>4, <1>5, <1>6, <1>7, <1>8, <1>9, <1>10, <1>11, <1>12, <1>13, <1>14, <1>15 DEF pdNext, Worker

(* A book that a reader opened is never forgotten: what counts as queued,  *)
(* and is therefore not queued again, is in the queue once or in the       *)
(* worker's hands (EnsureDims and runDimsQueue of thumbs/dims.go).         *)
THEOREM QueuedIsAlwaysServed == pdSpec => []QueuedIsServed
  <1>1. pdInit => LineInv
    <2> SUFFICES ASSUME pdInit PROVE LineInv
      OBVIOUS
    <2>1. pdTypeOK
      BY pdInitType
    <2>2. queue = <<>> /\ queued = {} /\ worker = Waiting
      BY DEF pdInit
    <2>3. QED
      BY <2>1, <2>2 DEF LineInv, Distinct, InHand, Range, Waiting
  <1>2. LineInv /\ [pdNext]_pdVars => LineInv'
    BY LineStep
  <1>3. LineInv => QueuedIsServed
    <2> SUFFICES ASSUME LineInv PROVE QueuedIsServed
      OBVIOUS
    <2>1. Cardinality(Range(queue)) = Len(queue)
      BY DistinctCount DEF LineInv, pdTypeOK
    <2>2. QED
      BY <2>1 DEF LineInv, QueuedIsServed
  <1>4. QED
    BY <1>1, <1>2, <1>3, PTL DEF pdSpec

------------------------------------------------------------------------------
(* The rows. *)

\* The books' rows and their pages agree at the start.
LEMMA RowsInit ==
  ASSUME pdInit PROVE RowsInv
  <1>1. pdTypeOK
    BY pdInitType
  <1>2. DoneMeansMeasured
    BY DEF pdInit, DoneMeansMeasured, MeansMeasured
  <1>3. Batched /\ InFlight
    BY DEF pdInit, Batched, InFlight, NoJob
  <1>4. QED
    BY <1>1, <1>2, <1>3 DEF RowsInv

(* A measurement waits for the permit: the scan's batch is not open.  It   *)
(* only fills in sizes, so a state that was read before still fits.        *)
LEMMA MeasuringKeeps ==
  ASSUME RowsInv, NEW b \in Books, NEW dims \in Seq(Sizings), UpdateDims(b, dims), UNCHANGED scanVars
  PROVE  DoneMeansMeasured' /\ Batched' /\ InFlight'
  <1> USE DEF RowsInv
  <1>1. tx = NoTx /\ tx' = NoTx /\ UNCHANGED <<job, visited>>
    BY DEF UpdateDims, scanVars
  <1>2. \A c \in Books : MeansMeasured(index[c]) => MeansMeasured(index'[c])
    BY UpdateDimsType
  <1>3. DoneMeansMeasured'
    BY <1>2 DEF DoneMeansMeasured
  <1>4. Batched'
    BY <1>1 DEF Batched
  <1>5. ASSUME job.kind = "moved"
        PROVE  StillFits(Open'[job.book].pages)
    <2>1. job.book \in Books
      BY <1>5 DEF pdTypeOK, Jobs, NoJob
    <2>2. Open = index /\ Open' = index'
      BY <1>1 DEF Open
    <2>3. Unmeasured(Open'[job.book].pages) \subseteq Unmeasured(Open[job.book].pages)
      BY <2>1, <2>2, UpdateDimsType
    <2>4. StillFits(Open[job.book].pages)
      BY <1>5 DEF InFlight
    <2>5. QED
      BY <2>3, <2>4 DEF StillFits
  <1>6. InFlight'
    BY <1>1, <1>5 DEF InFlight, StillFits
  <1>7. QED
    BY <1>3, <1>4, <1>6

(* The same rows, whether the batch is committed or stays open.            *)
LEMMA MaybeCommitKeeps ==
  ASSUME RowsInv, NEW commit \in BOOLEAN, NEW rows \in Rows, MaybeCommit(rows, commit),
         \A b \in Books : MeansMeasured(rows[b]) /\ (b \notin visited => rows[b] = Open[b]),
         UNCHANGED visited
  PROVE  DoneMeansMeasured' /\ Batched'
  <1>1. ASSUME NEW b \in Books, b \notin visited PROVE Open[b] = index[b]
    BY <1>1 DEF Open, RowsInv, Batched
  <1>2. CASE index' = rows /\ tx' = NoTx
    BY <1>2 DEF DoneMeansMeasured, Batched
  <1>3. CASE tx' = rows /\ UNCHANGED index
    BY <1>1, <1>3 DEF RowsInv, DoneMeansMeasured, Batched
  <1>4. QED
    BY <1>2, <1>3 DEF MaybeCommit

\* A book that counts as measured is so in the open batch too.
LEMMA OpenMeasured ==
  ASSUME RowsInv, NEW b \in Books PROVE MeansMeasured(Open[b])
  BY DEF RowsInv, DoneMeansMeasured, Batched, Open

\* An open batch is not the absence of one.
LEMMA RowsAreNotNoTx ==
  ASSUME NEW rows \in Rows, NEW b \in Books
  PROVE  rows # NoTx
  <1>1. DOMAIN rows = Books
    BY DEF Rows
  <1>2. QED
    BY <1>1 DEF NoTx

\* Every step keeps rows and pages in agreement, wherever a batch ends.
LEMMA RowsStep ==
  ASSUME RowsInv, [pdNext]_pdVars PROVE RowsInv'
  <1> USE DEF RowsInv
  <1>0. pdTypeOK'
    BY TypeStep
  <1> SUFFICES DoneMeansMeasured' /\ Batched' /\ InFlight'
    BY <1>0
  <1>1. ASSUME UNCHANGED <<index, scanVars>> PROVE DoneMeansMeasured' /\ Batched' /\ InFlight'
    BY <1>1 DEF scanVars, DoneMeansMeasured, Batched, InFlight, StillFits, Open
  <1>2. ASSUME NEW b \in Books, WritePending(b) PROVE DoneMeansMeasured' /\ Batched' /\ InFlight'
    <2>1. worker \in Flushing
      BY <1>2 DEF WritePending, pdTypeOK, Phases, Listing, Opening, Probing
    <2>2. worker.batch[b] \in Seq(Sizings)
      BY <2>1 DEF Flushing
    <2>3. QED
      BY <1>2, <2>2, MeasuringKeeps DEF WritePending
  <1>3. CASE Save
    <2>1. worker \in Probing
      BY <1>3 DEF Save, pdTypeOK, Phases, Flushing, Listing, Opening
    <2>2. worker.got \in Seq(Sizings) /\ worker.book \in Books
      BY <2>1 DEF Probing
    <2>3. QED
      BY <1>3, <2>2, MeasuringKeeps DEF Save
  <1>4. ASSUME NEW b \in Books, ScanReads(b) PROVE DoneMeansMeasured' /\ Batched' /\ InFlight'
    <2>1. UNCHANGED <<index, tx>> /\ b \notin visited /\ visited' = visited \cup {b} /\ job'.book = b
      BY <1>4 DEF ScanReads
    <2>2. DoneMeansMeasured' /\ Batched'
      BY <2>1 DEF DoneMeansMeasured, Batched
    <2>3. Open' = Open /\ Open[b] = index[b]
      BY <2>1 DEF Open, Batched
    <2>4. ASSUME job'.kind = "moved", job'.state = index[b].state, job'.apart = index[b].apart
          PROVE  InFlight'
      <3>1. MeansMeasured(index[b])
        BY DEF DoneMeansMeasured
      <3>2. StillFits(Open[job.book].pages)'
        BY <2>1, <2>3, <2>4, <3>1 DEF StillFits, MeansMeasured
      <3>3. QED
        BY <2>1, <2>4, <3>2 DEF InFlight
    <2>5. ASSUME job'.kind = "read" PROVE InFlight'
      <3>1. job'.book \in visited'
        BY <2>1
      <3>2. QED
        BY <2>5, <3>1, Zenon DEF InFlight
    <2>6. QED
      BY <1>4, <2>2, <2>4, <2>5 DEF ScanReads
  <1>5. ASSUME NEW commit \in BOOLEAN, WriteRow(commit) PROVE DoneMeansMeasured' /\ Batched' /\ InFlight'
    <2> DEFINE row == RowOf(Open[job.book])
               rows == [Open EXCEPT ![job.book] = row]
    <2>1. job.book \in Books /\ job.book \in visited
      BY <1>5 DEF WriteRow, pdTypeOK, Jobs, NoJob, InFlight
    <2>2. Open \in Rows
      BY OpenType
    <2>3. row \in BookRows
      BY <1>5, <2>1, <2>2, RowOfType DEF WriteRow, Rows
    <2>4. row.state = job.state /\ row.apart = job.apart /\ row.pages = Open[job.book].pages
      BY <2>1, <2>2 DEF RowOf, Rows, BookRows
    <2>5. MaybeCommit(rows, commit) /\ UNCHANGED visited
      BY <1>5 DEF WriteRow
    <2>6. MeansMeasured(row)
      <3>1. CASE job.kind = "moved"
        BY <2>4, <3>1 DEF InFlight, StillFits, MeansMeasured
      <3>2. CASE job.kind = "read"
        <4>1. job.state = "none"
          BY <3>2 DEF pdTypeOK, Jobs, NoJob
        <4>2. QED
          BY <2>4, <4>1 DEF MeansMeasured
      <3>3. QED
        BY <1>5, <3>1, <3>2 DEF WriteRow
    <2> HIDE DEF row
    <2>7. rows \in Rows /\ rows[job.book] = row /\ \A b \in Books : b # job.book => rows[b] = Open[b]
      BY <2>1, <2>2, <2>3 DEF Rows
    <2>8. rows # NoTx
      BY <2>1, <2>7, RowsAreNotNoTx
    <2> HIDE DEF rows
    <2>9. \A b \in Books : MeansMeasured(rows[b]) /\ (b \notin visited => rows[b] = Open[b])
      BY <2>1, <2>6, <2>7, OpenMeasured
    <2>10. DoneMeansMeasured' /\ Batched'
      BY <2>5, <2>7, <2>9, MaybeCommitKeeps
    <2>11. InFlight'
      <3>1. CASE job.kind = "moved"
        BY <1>5, <3>1 DEF WriteRow, InFlight, NoJob
      <3>2. CASE job.kind = "read"
        <4>1. job \in [kind : {"read", "pages"}, book : Books, ver : Nat \ {0}, state : {"none"},
                       apart : BOOLEAN, pages : Pages]
          BY <3>2 DEF pdTypeOK, Jobs, NoJob
        <4>2. job' = [job EXCEPT !.kind = "pages", !.apart = commit]
          BY <1>5, <3>2 DEF WriteRow
        <4>3. job'.kind = "pages" /\ job'.book = job.book /\ job'.apart = commit /\ job.state = "none"
          BY <4>1, <4>2
        <4>4. commit \/ tx' = rows
          BY <2>5 DEF MaybeCommit
        <4>5. QED
          BY <2>1, <2>4, <2>5, <2>7, <2>8, <4>3, <4>4 DEF InFlight
      <3>3. QED
        BY <1>5, <3>1, <3>2 DEF WriteRow
    <2>12. QED
      BY <2>10, <2>11
  <1>6. ASSUME NEW commit \in BOOLEAN, WritePages(commit) PROVE DoneMeansMeasured' /\ Batched' /\ InFlight'
    <2> DEFINE row == PagesOf(Open[job.book])
               rows == [Open EXCEPT ![job.book] = row]
    <2>1. job.book \in Books /\ job.book \in visited
      BY <1>6 DEF WritePages, pdTypeOK, Jobs, NoJob, InFlight
    <2>2. Open \in Rows
      BY OpenType
    <2>3. row \in BookRows
      BY <1>6, <2>1, <2>2, PagesOfType DEF WritePages, Rows
    <2>4. row.state = Open[job.book].state /\ row.apart = job.apart
      BY <2>1, <2>2 DEF PagesOf, Rows, BookRows
    <2>5. MaybeCommit(rows, commit) /\ UNCHANGED visited /\ job' = NoJob
      BY <1>6 DEF WritePages
    <2>6. job.apart \/ Open[job.book].state = "none"
      BY <1>6 DEF WritePages, InFlight, Open
    <2>7. MeansMeasured(row)
      BY <2>4, <2>6 DEF MeansMeasured
    <2> HIDE DEF row
    <2>8. rows \in Rows /\ rows[job.book] = row /\ \A b \in Books : b # job.book => rows[b] = Open[b]
      BY <2>1, <2>2, <2>3 DEF Rows
    <2> HIDE DEF rows
    <2>9. \A b \in Books : MeansMeasured(rows[b]) /\ (b \notin visited => rows[b] = Open[b])
      BY <2>1, <2>7, <2>8, OpenMeasured
    <2>10. DoneMeansMeasured' /\ Batched'
      BY <2>5, <2>8, <2>9, MaybeCommitKeeps
    <2>11. QED
      BY <2>5, <2>10 DEF InFlight, NoJob
  <1>7. CASE Flush
    <2>1. index' = Open /\ tx' = NoTx /\ job' = NoJob
      BY <1>7 DEF Flush
    <2>2. DoneMeansMeasured'
      BY <2>1, OpenMeasured DEF DoneMeansMeasured
    <2>3. QED
      BY <2>1, <2>2 DEF Batched, InFlight, NoJob
  <1>8. CASE Rollback
    BY <1>8 DEF Rollback, DoneMeansMeasured, Batched, InFlight, NoJob
  <1>9. ASSUME NEW b \in Books, OpenBook(b) \/ Rewrite(b) PROVE UNCHANGED <<index, scanVars>>
    BY <1>9 DEF OpenBook, Rewrite
  <1>10. ASSUME NEW b \in Books, NEW i \in 1..MaxPages, RecordDims(b, i) PROVE UNCHANGED <<index, scanVars>>
    BY <1>10 DEF RecordDims
  <1>11. ASSUME TakePending \/ NextBook \/ ListTodo \/ OpenFile \/ Probe \/ Measured \/ UNCHANGED pdVars
         PROVE  UNCHANGED <<index, scanVars>>
    BY <1>11 DEF TakePending, NextBook, ListTodo, OpenFile, Probe, Measured, pdVars
  <1>12. QED
    BY <1>1, <1>2, <1>3, <1>4, <1>5, <1>6, <1>7, <1>8, <1>9, <1>10, <1>11 DEF pdNext, Worker, Scan

(* No book says "done" that has a page without a size, unless its last     *)
(* batch ended between its row and its pages, and a book that counts as    *)
(* queued is queued: the scan keeps a state it read before the worker      *)
(* wrote (indexUnit), replaces pages that were measured (ReplacePages),    *)
(* commits where maybeCommit does, rolls back, and measurements arrive     *)
(* late (UpdateDims).                                                      *)
THEOREM SizesAgree == pdSpec => []DimsAgree
  <1>1. pdInit => RowsInv
    BY RowsInit
  <1>2. RowsInv /\ [pdNext]_pdVars => RowsInv'
    BY RowsStep
  <1>3. RowsInv => DoneMeansMeasured
    BY DEF RowsInv
  <1>4. pdSpec => []DoneMeansMeasured
    BY <1>1, <1>2, <1>3, PTL DEF pdSpec
  <1>5. QED
    BY <1>4, QueuedIsAlwaysServed, PTL DEF DimsAgree

-----------------------------------------------------------------------------
(* The readers of containers.                                              *)

\* The blocks lie one after another: each begins where the one before it ends.
Laid(sizes, base) ==
  /\ BlockAt(sizes, base, 1) = base
  /\ \A i \in 1..(Len(sizes) + 1) : BlockAt(sizes, base, i) \in Nat
  /\ \A i \in DOMAIN sizes : BlockAt(sizes, base, i + 1) = BlockAt(sizes, base, i) + 1 + sizes[i]

LEMMA BlocksAreLaid ==
  ASSUME NEW sizes \in Seq(Nat), NEW base \in Nat
  PROVE  Laid(sizes, base)
<1> DEFINE n == Len(sizes)
           S == 1..(n + 1)
           Body(f) == [k \in S |-> IF k = 1 THEN base ELSE f[k - 1] + 1 + sizes[k - 1]]
           at == CHOOSE f : f = Body(f)
           size == [k \in S |-> k]
           first == [k \in S |-> base]
           g == [k \in S |-> k - 1]
           h == [p \in S \X Nat |-> p[2] + 1 + sizes[p[1] - 1]]
<1>1. n \in Nat /\ DOMAIN sizes = 1..n /\ \A k \in 1..n : sizes[k] \in Nat
  OBVIOUS
<1> HIDE DEF n
<1>2. WellDefined(S, Nat, size, {1}, first, g, h)
  <2>1. \A k \in S \ {1} : k - 1 \in 1..n /\ k - 1 \in S /\ k \in Nat
    BY <1>1
  <2>2. \A k \in S : k \in Nat
    BY <1>1
  <2>3. \A k \in S \ {1} : \A v \in Nat : h[<<k, v>>] \in Nat
    BY <1>1, <2>1
  <2>4. size \in [S -> Nat] /\ Nat # {} /\ \A k \in S \cap {1} : first[k] \in Nat
    BY <2>2
  <2>5. \A k \in S \ {1} : g[k] \in S /\ size[g[k]] < size[k]
    BY <2>1, <2>2
  <2> HIDE DEF S, size, first, g, h
  <2> QED  BY <2>3, <2>4, <2>5 DEF WellDefined
<1>3. PICK f : Solves(f, S, Nat, {1}, first, g, h)
  <2> HIDE DEF S, size, first, g, h
  <2> QED  BY <1>2, Recursion
<1>4. f = Body(f)
  <2>1. f = [k \in S |-> f[k]]
    BY <1>3 DEF Solves
  <2>2. ASSUME NEW k \in S
        PROVE  f[k] = IF k = 1 THEN base ELSE f[k - 1] + 1 + sizes[k - 1]
    <3>1. CASE k = 1
      BY <1>3, <3>1 DEF Solves
    <3>2. CASE k # 1
      <4>1. k - 1 \in S /\ f[k - 1] \in Nat /\ g[k] = k - 1
        BY <1>1, <1>3, <3>2 DEF Solves
      <4>2. f[k] = h[<<k, f[k - 1]>>]
        BY <1>3, <3>2, <4>1 DEF Solves
      <4> QED  BY <3>2, <4>1, <4>2
    <3> QED  BY <3>1, <3>2
  <2> QED  BY <2>1, <2>2
<1>5. at = Body(at)
  <2> HIDE DEF Body
  <2> QED  BY <1>4
<1>6. \A i \in S : BlockAt(sizes, base, i) = at[i]
  BY DEF BlockAt, n
<1>7. \A k \in S : at[k] = IF k = 1 THEN base ELSE at[k - 1] + 1 + sizes[k - 1]
  <2> HIDE DEF at
  <2> QED  BY <1>5
<1> HIDE DEF at
<1>8. \A k \in S : at[k] \in Nat
  <2> DEFINE P == {k \in Nat : k \in S => at[k] \in Nat}
  <2>1. ASSUME NEW k \in Nat, \A m \in 0..(k - 1) : m \in P
        PROVE  k \in P
    <3>1. CASE k \in S /\ k # 1
      <4>1. k - 1 \in 1..n /\ k - 1 \in S /\ k - 1 \in 0..(k - 1)
        BY <1>1, <3>1
      <4>2. at[k - 1] \in Nat /\ sizes[k - 1] \in Nat
        BY <1>1, <2>1, <4>1
      <4> QED  BY <1>7, <3>1, <4>2
    <3>2. CASE k = 1
      BY <1>7, <3>2
    <3> QED  BY <3>1, <3>2
  <2>2. P = Nat
    <3> HIDE DEF P
    <3>1. P \in SUBSET Nat
      BY DEF P
    <3> QED  BY <2>1, <3>1, NatSet
  <2> QED  BY <1>1, <2>2
<1>9. 1 \in S /\ \A i \in 1..n : i \in S /\ i + 1 \in S /\ i + 1 # 1 /\ (i + 1) - 1 = i
  BY <1>1
<1>10. \A i \in 1..n : at[i + 1] = at[i] + 1 + sizes[i]
  BY <1>7, <1>9
<1>11. at[1] = base
  BY <1>7, <1>9
<1> QED  BY <1>1, <1>6, <1>8, <1>9, <1>10, <1>11 DEF Laid, n

\* A block ends before any later one begins.
LEMMA BlocksRise ==
  ASSUME NEW sizes \in Seq(Nat), NEW base \in Nat
  PROVE  \A i \in 1..(Len(sizes) + 1), j \in 1..(Len(sizes) + 1) :
            /\ i <= j => BlockAt(sizes, base, i) <= BlockAt(sizes, base, j)
            /\ i < j => BlockAt(sizes, base, i) + 1 + sizes[i] <= BlockAt(sizes, base, j)
            /\ base + i - 1 <= BlockAt(sizes, base, i)
<1> DEFINE n == Len(sizes)
           at(i) == BlockAt(sizes, base, i)
           Good(j) == /\ \A i \in 1..j : at(i) <= at(j)
                      /\ \A i \in 1..(j - 1) : at(i) + 1 + sizes[i] <= at(j)
                      /\ base + j - 1 <= at(j)
           P == {j \in Nat : j \in 1..(n + 1) => Good(j)}
<1>1. n \in Nat /\ DOMAIN sizes = 1..n /\ \A k \in 1..n : sizes[k] \in Nat
  OBVIOUS
<1>2. /\ at(1) = base
      /\ \A i \in 1..(n + 1) : at(i) \in Nat
      /\ \A i \in 1..n : at(i + 1) = at(i) + 1 + sizes[i]
  BY <1>1, BlocksAreLaid DEF Laid
<1> HIDE DEF n, at
<1>3. ASSUME NEW j \in Nat, \A m \in 0..(j - 1) : m \in P
      PROVE  j \in P
  <2>1. CASE j = 1
    BY <1>2, <2>1
  <2>2. CASE j \in 1..(n + 1) /\ j # 1
    <3> DEFINE k == j - 1
    <3>1. k \in 1..n /\ k \in 1..(n + 1) /\ k \in 0..(j - 1) /\ j = k + 1
      BY <1>1, <2>2
    <3>2. Good(k)
      BY <1>3, <3>1
    <3>3. at(j) = at(k) + 1 + sizes[k] /\ at(k) \in Nat /\ sizes[k] \in Nat
      BY <1>1, <1>2, <3>1
    <3>4. \A i \in 1..j : i \in 1..k \/ i = j
      BY <3>1
    <3>5. \A i \in 1..k : i \in 1..(n + 1) /\ at(i) \in Nat
      BY <1>1, <1>2, <3>1
    <3>6. \A i \in 1..(j - 1) : i = k \/ i \in 1..(k - 1)
      BY <3>1
    <3>7. \A i \in 1..(k - 1) : at(i) \in Nat /\ sizes[i] \in Nat
      <4>1. \A i \in 1..(k - 1) : i \in 1..n /\ i \in 1..(n + 1)
        BY <1>1, <3>1
      <4> HIDE DEF k
      <4> QED  BY <1>1, <1>2, <4>1
    <3>8. \A i \in 1..j : at(i) <= at(j)
      BY <1>2, <2>2, <3>2, <3>3, <3>4, <3>5, SMTT(20)
    <3>9. \A i \in 1..(j - 1) : at(i) + 1 + sizes[i] <= at(j)
      <4> SUFFICES ASSUME NEW i \in 1..(j - 1)
                   PROVE  at(i) + 1 + sizes[i] <= at(j)
        OBVIOUS
      <4>1. CASE i = k
        BY <3>3, <4>1
      <4>2. CASE i \in 1..(k - 1)
        <5>1. at(i) + 1 + sizes[i] <= at(k) /\ at(i) \in Nat /\ sizes[i] \in Nat
          BY <3>2, <3>7, <4>2
        <5> QED  BY <3>3, <5>1, SMTT(20)
      <4> QED  BY <3>6, <4>1, <4>2
    <3>10. base + j - 1 <= at(j)
      BY <3>1, <3>2, <3>3
    <3> QED  BY <3>8, <3>9, <3>10
  <2> QED  BY <2>1, <2>2
<1>4. P = Nat
  <2> HIDE DEF P
  <2>1. P \in SUBSET Nat
    BY DEF P
  <2> QED  BY <1>3, <2>1, NatSet
<1>5. ASSUME NEW i \in 1..(n + 1), NEW j \in 1..(n + 1)
      PROVE  /\ i <= j => at(i) <= at(j)
             /\ i < j => at(i) + 1 + sizes[i] <= at(j)
             /\ base + i - 1 <= at(i)
  <2>1. Good(i) /\ Good(j)
    <3>1. i \in Nat /\ j \in Nat
      BY <1>1
    <3>2. i \in P /\ j \in P
      BY <1>4, <3>1
    <3> HIDE DEF Good
    <3> QED  BY <3>2
  <2>2. (i <= j => i \in 1..j) /\ (i < j => i \in 1..(j - 1))
    BY <1>1
  <2> HIDE DEF P
  <2> QED  BY <2>1, <2>2
<1> QED  BY <1>5 DEF n, at

\* Every offset among the blocks is in one of them, and in one only.
LEMMA BlockOfIs ==
  ASSUME NEW sizes \in Seq(Nat), NEW base \in Nat, NEW o \in Nat
  PROVE  /\ \A i \in DOMAIN sizes :
              BlockAt(sizes, base, i) <= o /\ o < BlockAt(sizes, base, i + 1) => BlockOf(sizes, base, o) = i
         /\ base <= o /\ o < BlockAt(sizes, base, Len(sizes) + 1) =>
              \E i \in DOMAIN sizes : BlockAt(sizes, base, i) <= o /\ o < BlockAt(sizes, base, i + 1)
<1> DEFINE n == Len(sizes)
           at(i) == BlockAt(sizes, base, i)
<1>1. n \in Nat /\ DOMAIN sizes = 1..n
  OBVIOUS
<1>2. at(1) = base /\ \A i \in 1..(n + 1) : at(i) \in Nat
  BY BlocksAreLaid DEF Laid
<1>3. \A i, j \in 1..(n + 1) : i <= j => at(i) <= at(j)
  BY BlocksRise
<1>4. ASSUME NEW i \in 1..n, at(i) <= o, o < at(i + 1)
      PROVE  BlockOf(sizes, base, o) = i
  <2> HIDE DEF n, at
  <2>1. ASSUME NEW j \in 1..n, at(j) <= o, o < at(j + 1)
        PROVE  j = i
    <3>1. i \in 1..(n + 1) /\ i + 1 \in 1..(n + 1) /\ j \in 1..(n + 1) /\ j + 1 \in 1..(n + 1)
      BY <1>1
    <3>2. ~ (i + 1 <= j) /\ ~ (j + 1 <= i)
      BY <1>2, <1>3, <1>4, <2>1, <3>1
    <3> QED  BY <3>2
  <2>2. BlockOf(sizes, base, o) = CHOOSE j \in 1..n : at(j) <= o /\ o < at(j + 1)
    BY <1>1 DEF BlockOf, at
  <2> QED  BY <1>4, <2>1, <2>2
<1>5. ASSUME base <= o, o < at(n + 1)
      PROVE  \E i \in 1..n : at(i) <= o /\ o < at(i + 1)
  <2> DEFINE T == {j \in 1..(n + 1) : o < at(j)}
  <2> HIDE DEF n, at
  <2>1. T \in SUBSET Nat /\ n + 1 \in T
    BY <1>1, <1>5
  <2>2. PICK j \in T : \A m \in T : j <= m
    <3> HIDE DEF T
    <3> QED  BY <2>1, Least
  <2>3. j # 1
    BY <1>2, <1>5, <2>2
  <2>4. j - 1 \in 1..n /\ j - 1 \in 1..(n + 1) /\ j = (j - 1) + 1
    BY <1>1, <2>2, <2>3
  <2>5. ~ (o < at(j - 1))
    BY <2>2, <2>4
  <2>6. at(j - 1) <= o /\ o < at((j - 1) + 1)
    BY <1>2, <2>2, <2>4, <2>5
  <2> QED  BY <2>4, <2>6
<1> HIDE DEF n, at
<1>6. \A i \in DOMAIN sizes : at(i) <= o /\ o < at(i + 1) => BlockOf(sizes, base, o) = i
  BY <1>1, <1>4
<1>7. base <= o /\ o < at(n + 1) => \E i \in DOMAIN sizes : at(i) <= o /\ o < at(i + 1)
  BY <1>1, <1>5
<1> QED  BY <1>6, <1>7 DEF n, at

------------------------------------------------------------------------------
LEMMA SizesAre ==
  ASSUME NEW T \in SUBSET Nat, NEW m \in Nat, NEW s, s \in UNION {[1..n -> T] : n \in 0..m}
  PROVE  s \in Seq(Nat) /\ Len(s) \in Nat /\ DOMAIN s = 1..Len(s)
<1>1. PICK n \in 0..m : s \in [1..n -> T]
  OBVIOUS
<1>2. n \in Nat
  BY <1>1
<1>3. s = [k \in 1..n |-> s[k]] /\ \A k \in 1..n : s[k] \in Nat
  BY <1>1
<1>4. s \in Seq(Nat) /\ Len(s) = n
  BY <1>2, <1>3
<1> QED  BY <1>2, <1>3, <1>4

\* What is in a file header.
LEMMA FileHeaderIs ==
  ASSUME NEW i, NEW size \in Nat, NEW method, NEW flags, "large" \notin flags
  PROVE  LET b == FileHeader(i, size, method, flags)
         IN  /\ b.t = "file" /\ b.id = i /\ b.method = method
             /\ b.add \in Nat /\ b.add <= size /\ PackSize(b) = size /\ blockTotal(b) = 1 + size
             /\ \A x \in {"password", "solid", "split"} : x \in b.flags <=> x \in flags
<1> DEFINE b == FileHeader(i, size, method, flags)
           low == size % Low
           high == size \div Low
<1>1. Low \in Nat /\ Low > 0
  BY RarAssumption
<1>2. low \in Nat /\ high \in Nat /\ size = Low * high + low /\ low < Low
  BY <1>1
<1>3. size < Low => low = size
  BY <1>1
<1>4. b.t = "file" /\ b.id = i /\ b.method = method /\ b.add = low /\ b.high = high
  BY DEF FileHeader
<1>5. b.flags = flags \cup (IF size >= Low THEN {"large"} ELSE {})
  BY DEF FileHeader
<1>6. "large" \in b.flags <=> size >= Low
  BY <1>5
<1> HIDE DEF low, high, b
<1>7. high * Low \in Nat /\ size = high * Low + low
  BY <1>1, <1>2
<1>8. low <= size
  <2> DEFINE p == high * Low
  <2>1. p \in Nat /\ size = p + low
    BY <1>7
  <2> HIDE DEF p
  <2> QED  BY <1>2, <2>1
<1>9. PackSize(b) = size
  <2>1. CASE size >= Low
    <3>1. PackSize(b) = low + high * Low
      BY <1>4, <1>6, <2>1 DEF PackSize
    <3> QED  BY <1>2, <1>7, <3>1
  <2>2. CASE ~ (size >= Low)
    <3>1. PackSize(b) = low + 0
      BY <1>4, <1>6, <2>2 DEF PackSize
    <3> QED  BY <1>1, <1>2, <1>3, <2>2, <3>1
  <2> QED  BY <2>1, <2>2
<1>10. blockTotal(b) = 1 + size
  BY <1>4, <1>9 DEF blockTotal
<1>11. \A x \in {"password", "solid", "split"} : x \in b.flags <=> x \in flags
  BY <1>5
<1> QED  BY <1>2, <1>4, <1>8, <1>9, <1>10, <1>11 DEF b

\* Where the parts of an archive are.
HeadersAre(s) ==
  LET n == Len(s.sizes)
  IN  /\ n \in Nat /\ DOMAIN s.sizes = 1..n
      /\ \A i \in 1..n : s.sizes[i] \in Nat
      /\ Len(Lead(s)) = (IF s.comment THEN 3 ELSE 2)
      /\ HeaderAt(s, 1) = Len(Lead(s))
      /\ \A i \in 1..(n + 1) : HeaderAt(s, i) \in Nat /\ Len(Lead(s)) + i - 1 <= HeaderAt(s, i)
      /\ \A i \in 1..n : HeaderAt(s, i + 1) = HeaderAt(s, i) + 1 + s.sizes[i]
      /\ \A i, j \in 1..(n + 1) : i <= j => HeaderAt(s, i) <= HeaderAt(s, j)

LEMMA LeadIs ==
  ASSUME NEW s
  PROVE  /\ Lead(s)[1] = Marker /\ Lead(s)[2] = Main(s.main) /\ (s.comment => Lead(s)[3] = Comment)
         /\ Len(Lead(s)) = IF s.comment THEN 3 ELSE 2
<1> HIDE DEF Marker, Main, Comment
<1>1. CASE s.comment
  BY <1>1 DEF Lead
<1>2. CASE ~ s.comment
  BY <1>2 DEF Lead
<1> QED  BY <1>1, <1>2

LEMMA ShapesAre ==
  ASSUME NEW s \in RarShapes
  PROVE  HeadersAre(s) /\ s.sizes \in Seq(Nat) /\ s.method \in Methods /\ s.flag \in {"password", "solid", "split"}
         /\ s.tail \in {"none", "end", "recovery"} /\ s.main \in {{}, {"password"}, {"solid"}, {"volume"}}
         /\ s.odd \in Nat /\ s.comment \in BOOLEAN
<1>1. s.sizes \in UNION {[1..n -> RarPayloads] : n \in 0..MaxRar} /\ s.comment \in BOOLEAN
  BY DEF RarShapes
<1>2. s.sizes \in Seq(Nat) /\ DOMAIN s.sizes = 1..Len(s.sizes) /\ Len(s.sizes) \in Nat
  <2> DEFINE z == s.sizes
  <2>1. RarPayloads \in SUBSET Nat /\ MaxRar \in Nat
    BY RarAssumption
  <2>2. z \in UNION {[1..n -> RarPayloads] : n \in 0..MaxRar}
    BY <1>1
  <2> HIDE DEF z
  <2>3. z \in Seq(Nat) /\ DOMAIN z = 1..Len(z) /\ Len(z) \in Nat
    BY <2>1, <2>2, SizesAre
  <2> QED  BY <2>3 DEF z
<1> DEFINE n == Len(s.sizes)
           L == Len(Lead(s))
<1>3. L = (IF s.comment THEN 3 ELSE 2)
  BY LeadIs
<1>4. L \in Nat
  BY <1>3
<1>5. \A i \in 1..n : s.sizes[i] \in Nat
  BY <1>2
<1> HIDE DEF L
<1>6. /\ HeaderAt(s, 1) = L
      /\ \A i \in 1..(n + 1) : HeaderAt(s, i) \in Nat
      /\ \A i \in 1..n : HeaderAt(s, i + 1) = HeaderAt(s, i) + 1 + s.sizes[i]
  BY <1>2, <1>4, BlocksAreLaid DEF HeaderAt, Laid, L
<1>7. /\ \A i, j \in 1..(n + 1) : i <= j => HeaderAt(s, i) <= HeaderAt(s, j)
      /\ \A i \in 1..(n + 1) : L + i - 1 <= HeaderAt(s, i)
  BY <1>2, <1>4, BlocksRise DEF HeaderAt, L
<1>8. HeadersAre(s)
  BY <1>2, <1>3, <1>5, <1>6, <1>7 DEF HeadersAre, L
<1>9. s.method \in Methods /\ s.flag \in {"password", "solid", "split"}
      /\ s.tail \in {"none", "end", "recovery"} /\ s.main \in {{}, {"password"}, {"solid"}, {"volume"}}
      /\ s.odd \in 0..MaxRar
  BY DEF RarShapes
<1> QED  BY <1>1, <1>2, <1>8, <1>9, RarAssumption

LEMMA HeaderIs ==
  ASSUME NEW s \in RarShapes, NEW i \in 1..Len(s.sizes)
  PROVE  LET b == Header(s, i)
         IN  /\ b.t = "file" /\ b.id = i /\ b.method = s.method
             /\ b.add \in Nat /\ b.add <= s.sizes[i] /\ PackSize(b) = s.sizes[i]
             /\ blockTotal(b) = 1 + s.sizes[i]
             /\ b.flags \cap {"password", "solid", "split"} = {} <=> i # s.odd
<1> DEFINE flags == IF i = s.odd THEN {s.flag} ELSE {}
<1>1. s.sizes[i] \in Nat /\ s.flag \in {"password", "solid", "split"}
  BY ShapesAre DEF HeadersAre
<1>2. "large" \notin flags
  BY <1>1
<1>3. Header(s, i) = FileHeader(i, s.sizes[i], s.method, flags)
  BY DEF Header
<1>4. (\A x \in {"password", "solid", "split"} : x \notin flags) <=> i # s.odd
  BY <1>1
<1> HIDE DEF flags
<1>5. LET b == Header(s, i)
      IN  /\ b.t = "file" /\ b.id = i /\ b.method = s.method
          /\ b.add \in Nat /\ b.add <= s.sizes[i] /\ PackSize(b) = s.sizes[i]
          /\ blockTotal(b) = 1 + s.sizes[i]
          /\ \A x \in {"password", "solid", "split"} : x \in b.flags <=> x \in flags
  BY <1>1, <1>2, <1>3, FileHeaderIs
<1> QED  BY <1>4, <1>5

\* The beginning of a container.
StartOf(f, g) ==
  /\ f \in Seq({f[k] : k \in DOMAIN f})
  /\ Len(f) \in Nat \ {0} /\ Len(f) <= Len(g)
  /\ \A k \in 1..Len(f) : f[k] = g[k]

\* What is in an archive, as far as it goes.
Holds(f, s) ==
  LET n == Len(s.sizes)
      g == Len(f)
  IN  /\ g \in Nat \ {0} /\ f[1] = Marker
      /\ 1 < g => Item(f, 1) = Main(s.main)
      /\ s.comment /\ 2 < g => Item(f, 2) = Comment
      /\ \A i \in 1..n : HeaderAt(s, i) < g => Item(f, HeaderAt(s, i)) = Header(s, i)
      /\ \A i \in 1..n, k \in Nat \ {0} :
            k <= s.sizes[i] /\ HeaderAt(s, i) + k < g => Item(f, HeaderAt(s, i) + k) = Byte(i, k, s.method)
      /\ HeaderAt(s, n + 1) < g => Item(f, HeaderAt(s, n + 1)) = EndArc

LEMMA ArchiveIs ==
  ASSUME NEW s \in RarShapes
  PROVE  LET n == HeaderAt(s, Len(s.sizes) + 1)
             g == Archive(s)
         IN  /\ Len(g) = n + Len(Trailer(s)) /\ Len(g) \in Nat /\ Len(Trailer(s)) \in 0..2
             /\ g = [k \in 1..Len(g) |-> g[k]]
             /\ \A k \in 1..Len(g) : /\ k <= Len(Lead(s)) => g[k] = Lead(s)[k]
                                     /\ k > Len(Lead(s)) /\ k <= n => g[k] = FileCell(s, k - 1)
                                     /\ k = n + 1 => g[k] = EndArc
<1> DEFINE n == HeaderAt(s, Len(s.sizes) + 1)
           L == Len(Lead(s))
           g == Archive(s)
           z == Trailer(s)
<1>1. L \in Nat /\ n \in Nat /\ L <= n
  <2>1. Len(s.sizes) \in Nat /\ Len(s.sizes) + 1 \in 1..(Len(s.sizes) + 1)
    BY ShapesAre DEF HeadersAre
  <2>2. L \in Nat /\ n \in Nat /\ L + (Len(s.sizes) + 1) - 1 <= n
    <3>1. HeadersAre(s)
      BY ShapesAre
    <3>2. L \in Nat
      BY <3>1 DEF HeadersAre
    <3>3. \A i \in 1..(Len(s.sizes) + 1) : HeaderAt(s, i) \in Nat /\ L + i - 1 <= HeaderAt(s, i)
      <4> HIDE DEF L
      <4> QED  BY <3>1 DEF HeadersAre, L
    <3> HIDE DEF L
    <3> QED  BY <2>1, <3>2, <3>3
  <2> HIDE DEF L, n
  <2> QED  BY <2>1, <2>2
<1>2. Len(z) \in 0..2 /\ (Len(z) > 0 => z[1] = EndArc)
  <2>1. s.tail \in {"none", "end", "recovery"}
    BY ShapesAre
  <2> HIDE DEF EndArc
  <2> QED  BY <2>1 DEF Trailer
<1>3. g = [k \in 1..(n + Len(z)) |->
             CASE k <= L -> Lead(s)[k]
               [] k > L /\ k <= n -> FileCell(s, k - 1)
               [] OTHER -> z[k - n]]
  BY DEF Archive
<1> HIDE DEF n, L, g, z
<1>4. n + Len(z) \in Nat
  BY <1>1, <1>2
<1>5. Len(g) = n + Len(z) /\ g = [k \in 1..Len(g) |-> g[k]]
  BY <1>3, <1>4
<1>6. ASSUME NEW k \in 1..Len(g)
      PROVE  /\ k <= L => g[k] = Lead(s)[k]
             /\ k > L /\ k <= n => g[k] = FileCell(s, k - 1)
             /\ k = n + 1 => g[k] = EndArc
  <2>1. k \in Nat /\ k <= n + Len(z)
    BY <1>4, <1>5
  <2>2. g[k] = CASE k <= L -> Lead(s)[k]
                 [] k > L /\ k <= n -> FileCell(s, k - 1)
                 [] OTHER -> z[k - n]
    BY <1>3, <1>5
  <2>3. k <= L => g[k] = Lead(s)[k]
    BY <1>1, <2>1, <2>2
  <2>4. k > L /\ k <= n => g[k] = FileCell(s, k - 1)
    BY <1>1, <2>1, <2>2
  <2>5. ASSUME k = n + 1
        PROVE  g[k] = EndArc
    <3>1. ~ (k <= L) /\ ~ (k > L /\ k <= n) /\ k - n = 1 /\ Len(z) > 0
      BY <1>1, <1>2, <2>1, <2>5
    <3>2. g[k] = z[k - n]
      BY <2>2, <3>1
    <3> QED  BY <1>2, <3>1, <3>2
  <2> QED  BY <2>3, <2>4, <2>5
<1>7. /\ Len(g) = n + Len(z) /\ Len(g) \in Nat /\ Len(z) \in 0..2
      /\ g = [k \in 1..Len(g) |-> g[k]]
      /\ \A k \in 1..Len(g) : /\ k <= L => g[k] = Lead(s)[k]
                              /\ k > L /\ k <= n => g[k] = FileCell(s, k - 1)
                              /\ k = n + 1 => g[k] = EndArc
  BY <1>2, <1>4, <1>5, <1>6
<1> QED  BY <1>7 DEF n, L, g, z

LEMMA FileCellIs ==
  ASSUME NEW s \in RarShapes, NEW i \in 1..Len(s.sizes)
  PROVE  /\ FileCell(s, HeaderAt(s, i)) = Header(s, i)
         /\ \A k \in Nat \ {0} : k <= s.sizes[i] => FileCell(s, HeaderAt(s, i) + k) = Byte(i, k, s.method)
<1> DEFINE z == s.sizes
           L == Len(Lead(s))
           h == HeaderAt(s, i)
<1>1. /\ Len(z) \in Nat /\ DOMAIN z = 1..Len(z) /\ L \in Nat /\ h \in Nat /\ z[i] \in Nat
      /\ z \in Seq(Nat)
      /\ h = BlockAt(z, L, i) /\ BlockAt(z, L, i + 1) = h + 1 + z[i]
  <2>1. HeadersAre(s)
    BY ShapesAre
  <2>2. Len(z) \in Nat /\ DOMAIN z = 1..Len(z) /\ L \in Nat
    BY <2>1 DEF HeadersAre
  <2>3. i \in 1..(Len(z) + 1)
    BY <2>2
  <2>4. h \in Nat /\ HeaderAt(s, i + 1) = h + 1 + z[i] /\ z[i] \in Nat
    <3> HIDE DEF L
    <3> QED  BY <2>1, <2>3 DEF HeadersAre
  <2>5. z \in Seq(Nat)
    BY ShapesAre
  <2> QED  BY <2>2, <2>4, <2>5 DEF HeaderAt
<1> HIDE DEF z, L
<1>2. ASSUME NEW k \in Nat, k <= z[i]
      PROVE  BlockOf(z, L, h + k) = i
  <2>1. h + k \in Nat /\ h <= h + k /\ h + k < h + 1 + z[i]
    <3> HIDE DEF h
    <3> QED  BY <1>1, <1>2
  <2> HIDE DEF h
  <2>2. i \in DOMAIN z
    BY <1>1 DEF z
  <2> QED  BY <1>1, <2>1, <2>2, BlockOfIs, SMTT(20)
<1>3. \A o : BlockOf(z, L, o) = i =>
               FileCell(s, o) = IF o = h THEN Header(s, i) ELSE Byte(i, o - h, s.method)
  BY DEF FileCell, z, L
<1> HIDE DEF h
<1>4. h + 0 = h /\ 0 \in Nat /\ 0 <= z[i]
  BY <1>1
<1>5. FileCell(s, h) = Header(s, i)
  BY <1>2, <1>3, <1>4
<1>6. ASSUME NEW k \in Nat \ {0}, k <= z[i]
      PROVE  FileCell(s, h + k) = Byte(i, k, s.method)
  <2>1. h + k # h /\ (h + k) - h = k
    BY <1>1
  <2>2. BlockOf(z, L, h + k) = i
    BY <1>2, <1>6
  <2> QED  BY <1>3, <2>1, <2>2
<1> QED  BY <1>5, <1>6 DEF h, z

LEMMA ArchiveHolds ==
  ASSUME NEW s \in RarShapes, NEW f, StartOf(f, Archive(s))
  PROVE  Holds(f, s)
<1> DEFINE n == Len(s.sizes)
           L == Len(Lead(s))
           H(i) == HeaderAt(s, i)
           g == Archive(s)
<1>1. /\ n \in Nat /\ L \in {2, 3} /\ (s.comment => L = 3)
      /\ \A i \in 1..n : s.sizes[i] \in Nat
      /\ \A i \in 1..(n + 1) : H(i) \in Nat /\ L + i - 1 <= H(i)
      /\ \A i \in 1..n : H(i + 1) = H(i) + 1 + s.sizes[i]
      /\ \A i, j \in 1..(n + 1) : i <= j => H(i) <= H(j)
  BY ShapesAre DEF HeadersAre
<1>2. /\ Lead(s)[1] = Marker /\ Lead(s)[2] = Main(s.main) /\ (s.comment => Lead(s)[3] = Comment)
  BY LeadIs
<1>3. /\ Len(g) \in Nat
      /\ \A k \in 1..Len(g) : /\ k <= L => g[k] = Lead(s)[k]
                              /\ k > L /\ k <= H(n + 1) => g[k] = FileCell(s, k - 1)
                              /\ k = H(n + 1) + 1 => g[k] = EndArc
  BY ArchiveIs
<1>4. Len(f) \in Nat \ {0} /\ Len(f) <= Len(g) /\ \A k \in 1..Len(f) : f[k] = g[k]
  BY DEF StartOf
<1>5. \A i \in 1..n : /\ FileCell(s, H(i)) = Header(s, i)
                      /\ \A k \in Nat \ {0} : k <= s.sizes[i] => FileCell(s, H(i) + k) = Byte(i, k, s.method)
  BY FileCellIs
<1> HIDE DEF n, L, H, g
<1>6. \A k \in 1..Len(f) : /\ k <= L => f[k] = Lead(s)[k]
                           /\ k > L /\ k <= H(n + 1) => f[k] = FileCell(s, k - 1)
                           /\ k = H(n + 1) + 1 => f[k] = EndArc
  BY <1>3, <1>4
<1>7. f[1] = Marker /\ (1 < Len(f) => f[1 + 1] = Main(s.main)) /\ (s.comment /\ 2 < Len(f) => f[2 + 1] = Comment)
  <2>1. 1 \in 1..Len(f) /\ 1 <= L
    BY <1>1, <1>4
  <2>2. 1 < Len(f) => 2 \in 1..Len(f) /\ 2 <= L
    BY <1>1, <1>4
  <2>3. s.comment /\ 2 < Len(f) => 3 \in 1..Len(f) /\ 3 <= L
    BY <1>1, <1>4
  <2>4. 1 + 1 = 2 /\ 2 + 1 = 3
    OBVIOUS
  <2> QED  BY <1>2, <1>6, <2>1, <2>2, <2>3, <2>4
<1>8. ASSUME NEW i \in 1..n, NEW k \in Nat, k <= s.sizes[i], H(i) + k < Len(f)
      PROVE  f[H(i) + k + 1] = FileCell(s, H(i) + k)
  <2> DEFINE o == H(i) + k
  <2>1. i \in 1..(n + 1) /\ i + 1 \in 1..(n + 1) /\ n + 1 \in 1..(n + 1) /\ i + 1 <= n + 1 /\ i >= 1
    BY <1>1
  <2>2. H(i) \in Nat /\ H(n + 1) \in Nat /\ s.sizes[i] \in Nat /\ L + i - 1 <= H(i)
        /\ H(i) + 1 + s.sizes[i] <= H(n + 1)
    BY <1>1, <2>1
  <2>3. o \in Nat /\ L <= o /\ o < H(n + 1) /\ o < Len(f)
    <3> DEFINE a == H(i)
               b == H(n + 1)
               c == s.sizes[i]
    <3>1. a \in Nat /\ b \in Nat /\ c \in Nat /\ L + i - 1 <= a /\ a + 1 + c <= b /\ k <= c
      BY <1>8, <2>2
    <3>2. L \in Nat /\ n \in Nat
      BY <1>1
    <3>3. i \in Nat /\ i >= 1
      BY <3>2
    <3> HIDE DEF a, b, c
    <3>4. a + k \in Nat /\ L <= a + k /\ a + k < b
      BY <3>1, <3>2, <3>3
    <3> QED  BY <1>8, <3>4 DEF a, b
  <2> HIDE DEF o
  <2>4. o + 1 \in 1..Len(f) /\ o + 1 > L /\ o + 1 <= H(n + 1) /\ (o + 1) - 1 = o
    <3> DEFINE b == H(n + 1)
               m == Len(f)
    <3>1. o \in Nat /\ L \in Nat /\ b \in Nat /\ m \in Nat /\ L <= o /\ o < b /\ o < m
      BY <1>1, <1>4, <2>2, <2>3
    <3> HIDE DEF b, m
    <3>2. o + 1 \in 1..m /\ o + 1 > L /\ o + 1 <= b /\ (o + 1) - 1 = o
      BY <3>1
    <3> QED  BY <3>2 DEF b, m
  <2>5. f[o + 1] = FileCell(s, o)
    BY <1>6, <2>4
  <2> QED  BY <2>5 DEF o
<1>9. ASSUME NEW i \in 1..n, H(i) < Len(f)
      PROVE  f[H(i) + 1] = Header(s, i)
  <2>1. H(i) \in Nat /\ s.sizes[i] \in Nat
    BY <1>1
  <2>2. H(i) + 0 = H(i) /\ 0 \in Nat /\ 0 <= s.sizes[i]
    BY <2>1
  <2>3. f[H(i) + 0 + 1] = FileCell(s, H(i) + 0)
    BY <1>8, <1>9, <2>2
  <2> QED  BY <1>5, <2>2, <2>3
<1>10. ASSUME NEW i \in 1..n, NEW k \in Nat \ {0}, k <= s.sizes[i], H(i) + k < Len(f)
       PROVE  f[H(i) + k + 1] = Byte(i, k, s.method)
  BY <1>5, <1>8, <1>10
<1>11. H(n + 1) < Len(f) => f[H(n + 1) + 1] = EndArc
  <2>1. n + 1 \in 1..(n + 1) /\ H(n + 1) \in Nat
    BY <1>1
  <2>2. H(n + 1) < Len(f) => H(n + 1) + 1 \in 1..Len(f)
    BY <1>4, <2>1
  <2> QED  BY <1>6, <2>2
<1> QED  BY <1>4, <1>7, <1>9, <1>10, <1>11 DEF Holds, Item, n, H

\* A walk is where its steps lead.
LEMMA WalkRuns ==
  ASSUME NEW g, Len(g) \in Nat, NEW S, S[0] = walkStart,
         \A j \in 1..(Len(g) + 1) : S[j] = walkStep(g, S[j - 1])
  PROVE  Walk(g) = S[Len(g) + 1]
<1> DEFINE N == Len(g) + 1
           Body(f) == [k \in 0..N |-> IF k = 0 THEN walkStart ELSE walkStep(g, f[k - 1])]
           after == CHOOSE f : f = Body(f)
           T == [k \in 0..N |-> S[k]]
<1>1. N \in Nat
  OBVIOUS
<1>2. Walk(g) = after[N]
  BY DEF Walk
<1>3. T = Body(T)
  <2> HIDE DEF N
  <2>1. ASSUME NEW k \in 0..N
        PROVE  T[k] = IF k = 0 THEN walkStart ELSE walkStep(g, T[k - 1])
    <3>1. CASE k = 0
      BY <3>1
    <3>2. CASE k # 0
      <4>1. k \in 1..N /\ k - 1 \in 0..N
        BY <1>1, <3>2
      <4>2. S[k] = walkStep(g, S[k - 1])
        BY <4>1 DEF N
      <4> QED  BY <3>2, <4>1, <4>2
    <3> QED  BY <3>1, <3>2
  <2>2. T = [k \in 0..N |-> T[k]]
    OBVIOUS
  <2> HIDE DEF T
  <2> QED  BY <2>1, <2>2
<1>4. after = Body(after)
  <2> HIDE DEF Body, T
  <2> QED  BY <1>3
<1> HIDE DEF after, N
<1>5. \A k \in 0..N : after[k] = IF k = 0 THEN walkStart ELSE walkStep(g, after[k - 1])
  BY <1>4
<1> DEFINE P == {k \in Nat : k \in 0..N => after[k] = S[k]}
<1>6. ASSUME NEW k \in Nat, \A m \in 0..(k - 1) : m \in P
      PROVE  k \in P
  <2> SUFFICES ASSUME k \in 0..N
               PROVE  after[k] = S[k]
    OBVIOUS
  <2>1. CASE k = 0
    BY <1>5, <2>1
  <2>2. CASE k # 0
    <3>1. k \in 1..N /\ k - 1 \in 0..N /\ k - 1 \in 0..(k - 1)
      BY <1>1, <2>2
    <3>2. after[k - 1] = S[k - 1]
      BY <1>6, <3>1
    <3>3. S[k] = walkStep(g, S[k - 1])
      BY <3>1 DEF N
    <3> QED  BY <1>5, <2>2, <3>2, <3>3
  <2> QED  BY <2>1, <2>2
<1>7. P = Nat
  <2> HIDE DEF P
  <2>1. P \in SUBSET Nat
    BY DEF P
  <2> QED  BY <1>6, <2>1, NatSet
<1>8. N \in 0..N
  BY <1>1
<1>9. after[N] = S[N]
  BY <1>1, <1>7, <1>8
<1> QED  BY <1>2, <1>9 DEF N

\* A walk that goes on for K steps and then does not has ended there.
LEMMA WalkEnds ==
  ASSUME NEW g, Len(g) \in Nat, NEW K \in 0..Len(g), NEW Q, Q[0] = walkStart,
         \A j \in 0..(K - 1) : walkStep(g, Q[j]) = Q[j + 1],
         NEW final, walkStep(g, Q[K]) = final, final.end # "go"
  PROVE  Walk(g) = final
<1> DEFINE S == [j \in 0..(Len(g) + 1) |-> IF j <= K THEN Q[j] ELSE final]
<1>1. K \in Nat /\ K <= Len(g) /\ Len(g) + 1 \in Nat
  OBVIOUS
<1>2. walkStep(g, Q[K]) = final
  OBVIOUS
<1>3. walkStep(g, final) = final
  BY DEF walkStep
<1>4. S[0] = walkStart
  <2>1. 0 \in 0..(Len(g) + 1) /\ 0 <= K
    BY <1>1
  <2> QED  BY <2>1
<1>5. ASSUME NEW j \in 1..(Len(g) + 1)
      PROVE  S[j] = walkStep(g, S[j - 1])
  <2>1. j \in 0..(Len(g) + 1) /\ j - 1 \in 0..(Len(g) + 1)
    BY <1>1
  <2>2. S[j] = (IF j <= K THEN Q[j] ELSE final) /\ S[j - 1] = (IF j - 1 <= K THEN Q[j - 1] ELSE final)
    <3> QED  BY <2>1
  <2> HIDE DEF S
  <2>3. CASE j <= K
    <3>1. j - 1 <= K /\ j - 1 \in 0..(K - 1) /\ (j - 1) + 1 = j
      BY <1>1, <2>3
    <3> QED  BY <2>2, <2>3, <3>1
  <2>4. CASE j = K + 1
    <3>1. j - 1 = K /\ ~ (j <= K) /\ j - 1 <= K
      BY <1>1, <2>4
    <3> QED  BY <1>2, <2>2, <3>1
  <2>5. CASE j > K + 1
    <3>1. ~ (j <= K) /\ ~ (j - 1 <= K)
      BY <1>1, <2>5
    <3> QED  BY <1>3, <2>2, <3>1
  <2>6. j <= K \/ j = K + 1 \/ j > K + 1
    BY <1>1
  <2> QED  BY <2>3, <2>4, <2>5, <2>6
<1>6. S[Len(g) + 1] = final
  <2>1. Len(g) + 1 \in 0..(Len(g) + 1) /\ ~ (Len(g) + 1 <= K)
    BY <1>1
  <2> QED  BY <2>1
<1> HIDE DEF S
<1> QED  BY <1>1, <1>4, <1>5, <1>6, WalkRuns

\* Where a walk is when it goes on.
At(o, main, entries) == [o |-> o, main |-> main, entries |-> entries, end |-> "go"]

\* A block without a payload that nothing is refused for.
LEMMA MainGoes ==
  ASSUME NEW g, NEW o, NEW E, Len(g) \in Nat, o \in Nat, o < Len(g),
         Item(g, o).t = "main", Item(g, o).flags = {}, Item(g, o).add = 0
  PROVE  walkStep(g, At(o, FALSE, E)) = At(o + 1, TRUE, E)
<1> DEFINE b == Item(g, o)
           t == blockTotal(b)
           ent == EntryOf(b, o)
<1>1. o # Len(g) /\ o + 1 + b.add <= Len(g) /\ b.flags \cap {"password", "solid", "volume"} = {}
  OBVIOUS
<1>2. ReadsHeader(g, o)
  BY <1>1 DEF ReadsHeader, Blocks
<1>3. Outcome(g, o, FALSE) = "go"
  BY <1>1, <1>2 DEF Outcome, Refuses
<1>4. t = 1
  BY DEF blockTotal
<1>5. walkStep(g, At(o, FALSE, E)) =
        [o |-> o + t, main |-> FALSE \/ b.t = "main", end |-> "go",
         entries |-> IF b.t = "file" THEN Append(E, ent) ELSE E]
  <2> HIDE DEF t, ent
  <2> QED  BY <1>3 DEF walkStep, At, t, ent
<1>6. (FALSE \/ b.t = "main") = TRUE /\ b.t # "file"
  OBVIOUS
<1> HIDE DEF t, ent, b
<1> QED  BY <1>4, <1>5, <1>6 DEF At

LEMMA CommentGoes ==
  ASSUME NEW g, NEW o, NEW E, Len(g) \in Nat, o \in Nat, o < Len(g),
         Item(g, o).t = "sub", Item(g, o).flags = {}, Item(g, o).add = 0
  PROVE  walkStep(g, At(o, TRUE, E)) = At(o + 1, TRUE, E)
<1> DEFINE b == Item(g, o)
           t == blockTotal(b)
           ent == EntryOf(b, o)
<1>1. o # Len(g) /\ o + 1 + b.add <= Len(g) /\ b.flags \cap {"password", "solid", "volume"} = {}
  OBVIOUS
<1>2. ReadsHeader(g, o)
  BY <1>1 DEF ReadsHeader, Blocks
<1>3. Outcome(g, o, TRUE) = "go"
  BY <1>1, <1>2 DEF Outcome, Refuses
<1>4. t = 1
  BY DEF blockTotal
<1>5. walkStep(g, At(o, TRUE, E)) =
        [o |-> o + t, main |-> TRUE \/ b.t = "main", end |-> "go",
         entries |-> IF b.t = "file" THEN Append(E, ent) ELSE E]
  <2> HIDE DEF t, ent
  <2> QED  BY <1>3 DEF walkStep, At, t, ent
<1>6. (TRUE \/ b.t = "main") = TRUE /\ b.t # "file"
  OBVIOUS
<1> HIDE DEF t, ent, b
<1> QED  BY <1>4, <1>5, <1>6 DEF At

LEMMA MainStep ==
  ASSUME NEW g, Len(g) \in Nat, Len(g) > 1, Item(g, 1) = Main({})
  PROVE  walkStep(g, walkStart) = At(2, TRUE, <<>>)
<1> DEFINE o == 1
           E == <<>>
<1>1. o \in Nat /\ o < Len(g) /\ o + 1 = 2
  OBVIOUS
<1>2. Item(g, o).t = "main" /\ Item(g, o).flags = {} /\ Item(g, o).add = 0
  BY DEF Main
<1>3. walkStart = At(o, FALSE, E)
  BY DEF walkStart, At
<1> HIDE DEF o, E
<1>4. walkStep(g, At(o, FALSE, E)) = At(o + 1, TRUE, E)
  BY ONLY Len(g) \in Nat, <1>1, <1>2, MainGoes, Zenon
<1> QED  BY <1>1, <1>3, <1>4 DEF E

LEMMA CommentStep ==
  ASSUME NEW g, Len(g) \in Nat, Len(g) > 2, Item(g, 2) = Comment, NEW E
  PROVE  walkStep(g, At(2, TRUE, E)) = At(3, TRUE, E)
<1> DEFINE o == 2
<1>1. o \in Nat /\ o < Len(g) /\ o + 1 = 3
  OBVIOUS
<1>2. Item(g, o).t = "sub" /\ Item(g, o).flags = {} /\ Item(g, o).add = 0
  BY DEF Comment
<1>3. Len(g) \in Nat
  OBVIOUS
<1> HIDE DEF o
<1>4. walkStep(g, At(o, TRUE, E)) = At(o + 1, TRUE, E)
  <2>1. Item(g, o).t = "sub"
    BY <1>2
  <2>2. Item(g, o).flags = {}
    BY <1>2
  <2>3. Item(g, o).add = 0
    BY <1>2
  <2>4. o \in Nat
    BY <1>1
  <2>5. o < Len(g)
    BY <1>1
  <2> QED  BY ONLY <1>3, <2>1, <2>2, <2>3, <2>4, <2>5, CommentGoes, ZenonT(30)
<1> QED  BY <1>1, <1>4 DEF o

\* A file is listed if all of it is there and it is not of a kind refused.
LEMMA FileStep ==
  ASSUME NEW g, NEW o, NEW E, Len(g) \in Nat, o \in Nat,
         Item(g, o).t = "file", Item(g, o).add \in Nat, PackSize(Item(g, o)) \in Nat,
         Item(g, o).add <= PackSize(Item(g, o)), o + 1 + PackSize(Item(g, o)) <= Len(g),
         Item(g, o).flags \cap {"password", "solid", "split"} = {}
  PROVE  walkStep(g, At(o, TRUE, E)) =
           At(o + 1 + PackSize(Item(g, o)), TRUE, Append(E, EntryOf(Item(g, o), o)))
<1> DEFINE b == Item(g, o)
           z == PackSize(b)
<1>1. o < Len(g) /\ o # Len(g) /\ o + 1 + b.add <= Len(g)
  OBVIOUS
<1>2. ReadsHeader(g, o) /\ ParsesFile(g, o)
  BY <1>1 DEF ReadsHeader, Blocks, ParsesFile
<1>3. Outcome(g, o, TRUE) = "go"
  BY <1>1, <1>2 DEF Outcome, Refuses
<1>4. blockTotal(b) = 1 + z
  BY DEF blockTotal
<1>5. o + (1 + z) = o + 1 + z
  <2> HIDE DEF z
  <2> QED  BY DEF z
<1>6. walkStep(g, At(o, TRUE, E)) = At(o + (1 + z), TRUE, Append(E, EntryOf(b, o)))
  <2> DEFINE e == EntryOf(b, o)
             t == blockTotal(b)
  <2>1. walkStep(g, At(o, TRUE, E)) =
          [o |-> o + t, main |-> TRUE \/ b.t = "main", end |-> "go",
           entries |-> IF b.t = "file" THEN Append(E, e) ELSE E]
    <3> HIDE DEF e, t
    <3> QED  BY <1>3 DEF walkStep, At, e, t
  <2>2. t = 1 + z
    BY <1>4
  <2> HIDE DEF e, t
  <2> QED  BY <2>1, <2>2 DEF At, e
<1> QED  BY <1>4, <1>5, <1>6

LEMMA FileStepOf ==
  ASSUME NEW s \in RarShapes, NEW f, Holds(f, s), NEW i \in 1..Len(s.sizes), i # s.odd,
         HeaderAt(s, i + 1) <= Len(f), NEW E
  PROVE  walkStep(f, At(HeaderAt(s, i), TRUE, E)) =
           At(HeaderAt(s, i + 1), TRUE, Append(E, [id |-> i, comp |-> s.sizes[i], off |-> HeaderAt(s, i)]))
<1> DEFINE o == HeaderAt(s, i)
           z == s.sizes[i]
           b == Header(s, i)
           n == Len(s.sizes)
<1>1. n \in Nat /\ z \in Nat /\ HeaderAt(s, i + 1) = o + 1 + z
  BY ShapesAre DEF HeadersAre
<1>2. o \in Nat
  <2>1. i \in 1..(n + 1)
    BY <1>1
  <2> HIDE DEF n
  <2> QED  BY <2>1, ShapesAre DEF HeadersAre, n
<1>3. b.t = "file" /\ b.id = i /\ b.add \in Nat /\ b.add <= z /\ PackSize(b) = z
      /\ b.flags \cap {"password", "solid", "split"} = {}
  BY HeaderIs
<1>4. Len(f) \in Nat
  BY DEF Holds
<1> HIDE DEF z
<1>5. o < Len(f) /\ o + 1 + z <= Len(f)
  <2> DEFINE m == Len(f)
  <2> HIDE DEF o, m
  <2>1. m \in Nat /\ o + 1 + z <= m
    BY <1>1, <1>4 DEF m
  <2> QED  BY <1>1, <1>2, <2>1 DEF m
<1>6. Item(f, o) = b
  BY <1>5 DEF Holds
<1> HIDE DEF o, b, n
<1>7. walkStep(f, At(o, TRUE, E)) = At(o + 1 + z, TRUE, Append(E, EntryOf(b, o)))
  BY <1>1, <1>2, <1>3, <1>4, <1>5, <1>6, FileStep
<1>8. EntryOf(b, o) = [id |-> i, comp |-> z, off |-> o]
  BY <1>3 DEF EntryOf
<1> QED  BY <1>1, <1>7, <1>8 DEF z, o

\* A walk over the files of an archive that are there and are not refused.
LEMMA WalkOver ==
  ASSUME NEW s \in RarShapes, s.main = {}, NEW f, Holds(f, s), NEW m \in 0..Len(s.sizes),
         HeaderAt(s, m + 1) <= Len(f), \A i \in 1..m : i # s.odd,
         Outcome(f, HeaderAt(s, m + 1), TRUE) # "go"
  PROVE  Walk(f) = [ o |-> HeaderAt(s, m + 1), main |-> TRUE, entries |-> FileEntries(s, m),
                     end |-> Outcome(f, HeaderAt(s, m + 1), TRUE) ]
<1> DEFINE n == Len(s.sizes)
           L == Len(Lead(s))
           H(i) == HeaderAt(s, i)
           N == Len(f)
           K == L - 1 + m
           Q == [j \in 0..K |-> IF j = 0 THEN walkStart
                                ELSE IF j < L THEN At(j + 1, TRUE, <<>>)
                                ELSE At(H(j - L + 2), TRUE, FileEntries(s, j - L + 1))]
<1>1. /\ n \in Nat /\ L \in {2, 3} /\ (s.comment <=> L = 3) /\ H(1) = L
      /\ \A i \in 1..(n + 1) : H(i) \in Nat /\ L + i - 1 <= H(i)
      /\ \A i, j \in 1..(n + 1) : i <= j => H(i) <= H(j)
  <2>1. HeadersAre(s) /\ s.comment \in BOOLEAN
    BY ShapesAre
  <2>2. L = (IF s.comment THEN 3 ELSE 2)
    BY <2>1 DEF HeadersAre
  <2>3. /\ n \in Nat /\ H(1) = L
        /\ \A i \in 1..(n + 1) : H(i) \in Nat /\ L + i - 1 <= H(i)
        /\ \A i, j \in 1..(n + 1) : i <= j => H(i) <= H(j)
    BY <2>1 DEF HeadersAre
  <2> HIDE DEF L
  <2>4. L \in {2, 3} /\ (s.comment <=> L = 3)
    BY <2>1, <2>2
  <2> QED  BY <2>3, <2>4
<1>2. N \in Nat /\ (1 < N => Item(f, 1) = Main({})) /\ (s.comment /\ 2 < N => Item(f, 2) = Comment)
  BY DEF Holds
<1>3. FileEntries(s, 0) = <<>>
  BY DEF FileEntries
<1>4. m \in Nat /\ m <= n /\ m + 1 \in 1..(n + 1) /\ H(m + 1) <= N
  BY <1>1
<1>5. \A i \in 1..m : i \in 1..n /\ i # s.odd /\ i + 1 \in 1..(n + 1) /\ H(i + 1) <= N
  <2> SUFFICES ASSUME NEW i \in 1..m
               PROVE  i \in 1..n /\ i # s.odd /\ i + 1 \in 1..(n + 1) /\ H(i + 1) <= N
    OBVIOUS
  <2>1. i \in 1..n /\ i # s.odd /\ i + 1 \in 1..(n + 1) /\ i + 1 <= m + 1
    BY <1>1, <1>4
  <2> HIDE DEF n, H, N, L
  <2>2. H(i + 1) <= H(m + 1) /\ H(i + 1) \in Nat /\ H(m + 1) \in Nat
    BY <1>1, <1>4, <2>1
  <2> QED  BY <1>2, <1>4, <2>1, <2>2
<1>6. L + m <= N
  <2> HIDE DEF n, H, N, L
  <2>1. L + (m + 1) - 1 <= H(m + 1) /\ H(m + 1) \in Nat
    BY <1>1, <1>4
  <2> QED  BY <1>1, <1>2, <1>4, <2>1
<1>7. ASSUME NEW i \in 1..m
      PROVE  walkStep(f, At(H(i), TRUE, FileEntries(s, i - 1))) = At(H(i + 1), TRUE, FileEntries(s, i))
  <2> DEFINE E == FileEntries(s, i - 1)
             e == [id |-> i, comp |-> s.sizes[i], off |-> HeaderAt(s, i)]
  <2>1. walkStep(f, At(H(i), TRUE, E)) = At(H(i + 1), TRUE, Append(E, e))
    <3> HIDE DEF E
    <3> QED  BY <1>5, FileStepOf
  <2>2. Append(E, e) = FileEntries(s, i)
    <3>1. i \in Nat /\ i - 1 \in Nat
      BY <1>4
    <3> DEFINE ent == [k \in 1..i |-> [id |-> k, comp |-> s.sizes[k], off |-> HeaderAt(s, k)]]
    <3>2. E = [k \in 1..(i - 1) |-> ent[k]] /\ e = ent[i] /\ FileEntries(s, i) = ent
      BY <3>1 DEF FileEntries
    <3>3. Append([k \in 1..(i - 1) |-> ent[k]], ent[i]) = [k \in 1..i |-> ent[k]]
      <4> HIDE DEF ent
      <4> QED  BY <3>1
    <3>4. ent = [k \in 1..i |-> ent[k]]
      OBVIOUS
    <3> HIDE DEF ent, E, e
    <3> QED  BY <3>2, <3>3, <3>4
  <2> QED  BY <2>1, <2>2
<1> HIDE DEF n, H, N, L
<1>8. K \in Nat /\ K \in 0..N /\ L \in Nat /\ L >= 2 /\ 0 < L /\ L - 1 < L
  BY <1>1, <1>2, <1>4, <1>6
<1>9. \A j \in 0..K : Q[j] = IF j = 0 THEN walkStart
                             ELSE IF j < L THEN At(j + 1, TRUE, <<>>)
                             ELSE At(H(j - L + 2), TRUE, FileEntries(s, j - L + 1))
  <2> HIDE DEF K
  <2> QED  OBVIOUS
<1> HIDE DEF K, Q
<1>10. Q[0] = walkStart
  <2>1. 0 \in 0..K
    BY <1>8
  <2> QED  BY <1>9, <2>1
<1>11. ASSUME NEW i \in 0..m
       PROVE  L - 1 + i \in 0..K /\ Q[L - 1 + i] = At(H(i + 1), TRUE, FileEntries(s, i))
  <2>1. L - 1 + i \in 0..K
    BY <1>4, <1>8 DEF K
  <2>2. CASE i = 0
    <3>1. L - 1 + i = L - 1 /\ (L - 1) + 1 = L /\ L - 1 # 0 /\ i + 1 = 1
      BY <1>8, <2>2
    <3>2. Q[L - 1] = At((L - 1) + 1, TRUE, <<>>)
      BY <1>8, <1>9, <2>1, <3>1
    <3> QED  BY <1>1, <1>3, <2>1, <2>2, <3>1, <3>2
  <2>3. CASE i # 0
    <3>1. L - 1 + i # 0 /\ ~ (L - 1 + i < L) /\ (L - 1 + i) - L + 2 = i + 1 /\ (L - 1 + i) - L + 1 = i
      BY <1>4, <1>8, <2>3
    <3> QED  BY <1>9, <2>1, <3>1
  <2> QED  BY <2>1, <2>2, <2>3
<1>12. ASSUME NEW j \in 0..(K - 1)
       PROVE  walkStep(f, Q[j]) = Q[j + 1]
  <2>1. j \in 0..K /\ j + 1 \in 0..K
    BY <1>8
  <2>2. CASE j = 0
    <3>1. Q[1] = At(2, TRUE, <<>>)
      <4>1. 1 < L /\ 1 + 1 = 2 /\ 1 # 0 /\ 1 \in 0..K
        BY <1>8, <2>1, <2>2
      <4> QED  BY <1>3, <1>9, <4>1
    <3>2. N > 1 /\ 1 < N
      BY <1>2, <1>4, <1>6, <1>8
    <3>3. walkStep(f, walkStart) = At(2, TRUE, <<>>)
      <4>1. Len(f) \in Nat /\ Len(f) > 1 /\ Item(f, 1) = Main({})
        BY <1>2, <3>2 DEF N
      <4> QED  BY <4>1, MainStep
    <3>4. j + 1 = 1
      BY <2>2
    <3> QED  BY <1>10, <2>2, <3>1, <3>3, <3>4
  <2>3. CASE j = 1 /\ L = 3
    <3>1. Q[1] = At(2, TRUE, <<>>) /\ Q[2] = At(3, TRUE, <<>>)
      <4>1. 1 < L /\ 1 + 1 = 2 /\ 1 # 0 /\ 2 < L /\ 2 + 1 = 3 /\ 2 # 0
            /\ 1 \in 0..K /\ 2 \in 0..K
        BY <1>8, <2>1, <2>3
      <4> QED  BY <1>3, <1>9, <4>1
    <3>2. N > 2 /\ 2 < N
      BY <1>2, <1>4, <1>6, <1>8, <2>3
    <3>3. walkStep(f, At(2, TRUE, <<>>)) = At(3, TRUE, <<>>)
      BY <1>1, <1>2, <2>3, <3>2, CommentStep DEF N
    <3>4. j + 1 = 2
      BY <2>3
    <3> QED  BY <2>3, <3>1, <3>3, <3>4
  <2>4. CASE j >= L - 1
    <3> DEFINE i == j - L + 2
    <3>1. i \in 1..m /\ i \in 0..m /\ i - 1 \in 0..m /\ L - 1 + (i - 1) = j /\ L - 1 + i = j + 1 /\ (i - 1) + 1 = i
      <4>1. j \in Nat /\ j <= L - 1 + m - 1 /\ K = L - 1 + m
        BY <1>8 DEF K
      <4> QED  BY <1>4, <1>8, <2>4, <4>1
    <3> HIDE DEF i
    <3>2. Q[j] = At(H(i), TRUE, FileEntries(s, i - 1))
      <4>1. Q[L - 1 + (i - 1)] = At(H((i - 1) + 1), TRUE, FileEntries(s, i - 1))
        BY <1>11, <3>1
      <4> QED  BY <3>1, <4>1
    <3>3. Q[j + 1] = At(H(i + 1), TRUE, FileEntries(s, i))
      <4>1. Q[L - 1 + i] = At(H(i + 1), TRUE, FileEntries(s, i))
        BY <1>11, <3>1
      <4> QED  BY <3>1, <4>1
    <3> QED  BY <1>7, <3>1, <3>2, <3>3
  <2>5. j = 0 \/ (j = 1 /\ L = 3) \/ j >= L - 1
    BY <1>1, <1>8
  <2> QED  BY <2>2, <2>3, <2>4, <2>5
<1>13. Q[K] = At(H(m + 1), TRUE, FileEntries(s, m))
  <2>1. m \in 0..m
    BY <1>4
  <2> QED  BY <1>11, <2>1 DEF K
<1> DEFINE v == Outcome(f, H(m + 1), TRUE)
           final == [o |-> H(m + 1), main |-> TRUE, entries |-> FileEntries(s, m), end |-> v]
<1>14. v # "go"
  BY DEF H
<1>15. walkStep(f, At(H(m + 1), TRUE, FileEntries(s, m))) = final /\ final.end # "go"
  <2> DEFINE o == H(m + 1)
             E == FileEntries(s, m)
  <2> HIDE DEF o, E
  <2>1. v = Outcome(f, o, TRUE)
    BY DEF o
  <2> HIDE DEF v
  <2>2. walkStep(f, At(o, TRUE, E)) = [o |-> o, main |-> TRUE, entries |-> E, end |-> v]
    BY <1>14, <2>1 DEF walkStep, At
  <2> QED  BY <1>14, <2>2 DEF o, E
<1> HIDE DEF final
<1>16. Walk(f) = final
  <2>1. Len(f) \in Nat /\ K \in 0..Len(f)
    BY <1>2, <1>8 DEF N
  <2>2. walkStep(f, Q[K]) = final /\ final.end # "go"
    BY <1>13, <1>15
  <2>3. \A j \in 0..(K - 1) : walkStep(f, Q[j]) = Q[j + 1]
    BY <1>12
  <2> QED  BY <1>10, <2>1, <2>2, <2>3, WalkEnds
<1> QED  BY <1>16 DEF final, H

\* What ends a walk.
LEMMA Endings ==
  ASSUME NEW g, NEW o, Len(g) \in Nat, o \in Nat, o < Len(g)
  PROVE  /\ Item(g, o) = EndArc => Outcome(g, o, TRUE) = "done"
         /\ Item(g, o).t = "file" /\ Item(g, o).flags \cap {"password", "solid", "split"} # {}
              => Outcome(g, o, TRUE) = "bad"
         /\ Item(g, o).t = "file" /\ ~ (o + 1 + PackSize(Item(g, o)) <= Len(g))
              => Outcome(g, o, TRUE) = "bad"
<1> DEFINE b == Item(g, o)
<1>1. o # Len(g)
  OBVIOUS
<1>2. ASSUME b = EndArc
      PROVE  Outcome(g, o, TRUE) = "done"
  <2>1. b.t = "end" /\ b.add = 0
    BY <1>2 DEF EndArc
  <2>2. ReadsHeader(g, o)
    BY <2>1 DEF ReadsHeader, Blocks
  <2> QED  BY <1>1, <2>1, <2>2 DEF Outcome, Refuses
<1>3. ASSUME b.t = "file", b.flags \cap {"password", "solid", "split"} # {}
      PROVE  Outcome(g, o, TRUE) = "bad"
  BY <1>1, <1>3 DEF Outcome, Refuses
<1>4. ASSUME b.t = "file", ~ (o + 1 + PackSize(b) <= Len(g))
      PROVE  Outcome(g, o, TRUE) = "bad"
  <2>1. ~ ParsesFile(g, o)
    BY <1>4 DEF ParsesFile
  <2> QED  BY <1>1, <1>4, <2>1 DEF Outcome, Refuses
<1> QED  BY <1>2, <1>3, <1>4

\* How many files of an archive are listed, of as much of it as there is.
Stops(f, s, m) ==
  LET n == Len(s.sizes)
  IN  /\ m \in 0..n /\ HeaderAt(s, m + 1) <= Len(f) /\ \A i \in 1..m : i # s.odd
      /\ m = n \/ m + 1 = s.odd \/ ~ (HeaderAt(s, m + 2) <= Len(f))

LEMMA StopIs ==
  ASSUME NEW s \in RarShapes, NEW f, Len(f) \in Nat, Len(Lead(s)) <= Len(f)
  PROVE  \E m \in 0..Len(s.sizes) : Stops(f, s, m)
<1> DEFINE n == Len(s.sizes)
           H(i) == HeaderAt(s, i)
           N == Len(f)
           T == {m \in 0..n : m = n \/ m + 1 = s.odd \/ ~ (H(m + 2) <= N)}
<1>1. n \in Nat /\ H(1) <= N
  BY ShapesAre DEF HeadersAre
<1> HIDE DEF n, H, N
<1>2. T \in SUBSET Nat /\ n \in T
  BY <1>1
<1>3. PICK m \in T : \A k \in T : m <= k
  <2> HIDE DEF T
  <2> QED  BY <1>2, Least
<1>4. m \in 0..n /\ m \in Nat
  BY <1>1
<1>5. \A i \in 1..m : i - 1 \in 0..n /\ ~ (m <= i - 1) /\ (i - 1) + 1 = i /\ (i - 1) + 2 = i + 1
  BY <1>1, <1>4
<1>6. \A i \in 1..m : i # s.odd /\ H(i + 1) <= N
  <2> SUFFICES ASSUME NEW i \in 1..m
               PROVE  i # s.odd /\ H(i + 1) <= N
    OBVIOUS
  <2>1. i - 1 \notin T
    BY <1>3, <1>5
  <2>2. (i - 1) + 1 # s.odd /\ H((i - 1) + 2) <= N
    BY <1>5, <2>1
  <2> QED  BY <1>5, <2>2
<1>7. H(m + 1) <= N
  <2>1. m = 0 \/ m \in 1..m
    BY <1>4
  <2>2. m = 0 => m + 1 = 1
    OBVIOUS
  <2> QED  BY <1>1, <1>6, <2>1, <2>2
<1> QED  BY <1>3, <1>4, <1>6, <1>7 DEF Stops, n, H, N

LEMMA StopOutcome ==
  ASSUME NEW s \in RarShapes, NEW f, Holds(f, s), NEW m \in 0..Len(s.sizes), Stops(f, s, m)
  PROVE  Outcome(f, HeaderAt(s, m + 1), TRUE) =
           IF m = Len(s.sizes) \/ HeaderAt(s, m + 1) = Len(f) THEN "done" ELSE "bad"
<1> DEFINE n == Len(s.sizes)
           o == HeaderAt(s, m + 1)
           N == Len(f)
           b == Item(f, o)
<1>1. n \in Nat /\ N \in Nat
  BY ShapesAre DEF HeadersAre, Holds
<1>2. m + 1 \in 1..(n + 1)
  BY <1>1
<1>3. o \in Nat
  <2> HIDE DEF n
  <2> QED  BY <1>2, ShapesAre DEF HeadersAre, n
<1>4. o <= N
  BY DEF Stops
<1>5. CASE o = N
  <2>1. \A x : x = Len(f) => Outcome(f, x, TRUE) = "done"
    BY DEF Outcome, Refuses
  <2>2. Outcome(f, o, TRUE) = "done"
    <3> HIDE DEF o
    <3> QED  BY <1>5, <2>1
  <2> QED  BY <1>5, <2>2
<1>6. CASE o # N
  <2>1. o < N
    <3> HIDE DEF o, N
    <3> QED  BY <1>1, <1>3, <1>4, <1>6
  <2>2. CASE m = n
    <3>1. b = EndArc
      BY <2>1, <2>2 DEF Holds
    <3>2. Outcome(f, o, TRUE) = "done"
      <4> HIDE DEF o
      <4> QED  BY <1>1, <1>3, <2>1, <3>1, Endings
    <3> QED  BY <2>2, <3>2
  <2>3. CASE m # n
    <3> DEFINE k == m + 1
               z == s.sizes[k]
    <3>1. k \in 1..n /\ m + 2 = k + 1
      BY <1>1, <2>3
    <3> HIDE DEF k
    <3>2. o = HeaderAt(s, k)
      BY DEF k
    <3>3. b = Header(s, k)
      BY <2>1, <3>1, <3>2 DEF Holds
    <3>4. HeaderAt(s, k + 1) = o + 1 + z
      BY <3>1, <3>2, ShapesAre DEF HeadersAre
    <3>5. b.t = "file" /\ PackSize(b) = z /\ (b.flags \cap {"password", "solid", "split"} = {} <=> k # s.odd)
      BY <3>1, <3>3, HeaderIs
    <3>6. k = s.odd \/ ~ (o + 1 + z <= N)
      <4>1. m = n \/ m + 1 = s.odd \/ ~ (HeaderAt(s, m + 2) <= N)
        BY DEF Stops
      <4> QED  BY <2>3, <3>1, <3>4, <4>1 DEF k
    <3> HIDE DEF z
    <3>7. Outcome(f, o, TRUE) = "bad"
      <4> HIDE DEF o, N
      <4>1. Len(f) = N
        BY DEF N
      <4> QED  BY <1>1, <1>3, <2>1, <3>5, <3>6, <4>1, Endings
    <3> QED  BY <1>6, <2>3, <3>7
  <2> QED  BY <2>2, <2>3
<1> QED  BY <1>5, <1>6

\* What is read of an archive, as far as it goes: the files up to the first
\* that is refused or is not all there.
Listed(s, f, a, m) ==
  LET n == Len(s.sizes)
  IN  /\ m \in 0..n /\ a.entries = FileEntries(s, m) /\ a.ok \in BOOLEAN
      /\ m > 0 => s.main = {}
      /\ \A i \in 1..m : i # s.odd
      /\ s.main # {} \/ Len(f) < 2 => m = 0 /\ ~ a.ok
      /\ Len(f) < Len(Lead(s)) => m = 0
      /\ s.main = {} /\ Len(Lead(s)) <= Len(f) =>
           /\ Stops(f, s, m)
           /\ a.ok <=> m = n \/ HeaderAt(s, m + 1) = Len(f)

LEMMA ArchiveIsListed ==
  ASSUME NEW s \in RarShapes, NEW f, Holds(f, s)
  PROVE  \E m \in 0..Len(s.sizes) : Listed(s, f, rarReadIndex(f), m)
<1> DEFINE n == Len(s.sizes)
           N == Len(f)
           L == Len(Lead(s))
           a == rarReadIndex(f)
           w == Walk(f)
<1>1. n \in Nat /\ N \in Nat \ {0} /\ (s.comment => L = 3) /\ (~ s.comment => L = 2) /\ f[1] = Marker
      /\ (1 < N => Item(f, 1) = Main(s.main))
      /\ (s.comment /\ 2 < N => Item(f, 2) = Comment)
  <2>1. n \in Nat /\ L = (IF s.comment THEN 3 ELSE 2)
    BY ShapesAre DEF HeadersAre
  <2>2. N \in Nat \ {0} /\ f[1] = Marker /\ (1 < N => Item(f, 1) = Main(s.main))
        /\ (s.comment /\ 2 < N => Item(f, 2) = Comment)
    BY DEF Holds
  <2> QED  BY <2>1, <2>2
<1>2. 0 \in 0..n /\ FileEntries(s, 0) = <<>> /\ \A i \in 1..0 : i # s.odd
  BY <1>1 DEF FileEntries
<1>3. CASE N < 2
  <2>1. a = [entries |-> <<>>, ok |-> FALSE]
    BY <1>3 DEF rarReadIndex
  <2>2. N < L
    BY <1>1, <1>3, SMTT(20)
  <2>3. ~ (L <= N)
    BY <1>1, <1>3
  <2> HIDE DEF a, n, N, L
  <2>4. Listed(s, f, a, 0)
    BY <1>2, <1>3, <2>1, <2>3 DEF Listed, n, N, L
  <2> QED  BY <1>2, <2>4 DEF a, n
<1>4. ASSUME ~ (N < 2)
      PROVE  a = [entries |-> w.entries, ok |-> w.end = "done"]
  <2>1. Is(f, 0, "Rar4")
    BY <1>1 DEF Is, Item, Marker
  <2> QED  BY <1>4, <2>1 DEF rarReadIndex
<1>5. ASSUME ~ (N < 2)
      PROVE  1 < N /\ Item(f, 1) = Main(s.main)
  BY <1>1, <1>5
<1>6. CASE ~ (N < 2) /\ s.main # {}
  <2> DEFINE b == Item(f, 1)
             final == [o |-> 1, main |-> FALSE, entries |-> <<>>, end |-> "bad"]
             Q == [j \in {0} |-> walkStart]
  <2>1. b.t = "main" /\ b.flags \cap {"password", "solid", "volume"} # {}
    <3>1. s.main \in {{}, {"password"}, {"solid"}, {"volume"}}
      BY ShapesAre
    <3>2. b.t = "main" /\ b.flags = s.main
      BY <1>5, <1>6 DEF Main
    <3> HIDE DEF b
    <3> QED  BY <1>6, <3>1, <3>2
  <2>2. 1 # N
    <3> HIDE DEF N
    <3> QED  BY <1>1, <1>5, <1>6
  <2>3. Outcome(f, 1, FALSE) = "bad"
    BY <2>1, <2>2 DEF Outcome, Refuses
  <2>4. walkStep(f, Q[0]) = final /\ final.end # "go" /\ Q[0] = walkStart
    BY <2>3 DEF walkStep, walkStart
  <2>5. 0 \in 0..Len(f) /\ Len(f) \in Nat
    BY <1>1
  <2>6. w = final
    <3> HIDE DEF Q, final
    <3>1. \A j \in 0..(0 - 1) : walkStep(f, Q[j]) = Q[j + 1]
      OBVIOUS
    <3> QED  BY <2>4, <2>5, <3>1, WalkEnds
  <2>7. a.entries = <<>> /\ a.ok = FALSE
    <3>1. w.entries = <<>> /\ w.end # "done"
      BY <2>6
    <3> HIDE DEF w, a
    <3>2. a.entries = w.entries /\ a.ok = (w.end = "done")
      BY <1>4, <1>6
    <3>3. (w.end = "done") = FALSE
      BY <3>1
    <3> QED  BY <3>1, <3>2, <3>3
  <2> HIDE DEF a, n, N, L
  <2>8. Listed(s, f, a, 0)
    <3>1. ~ (s.main = {} /\ L <= N) /\ a.ok \in BOOLEAN
      BY <1>6, <2>7
    <3> QED  BY <1>2, <1>6, <2>7, <3>1 DEF Listed, n, N, L
  <2> QED  BY <1>2, <2>8 DEF a, n
<1>7. CASE ~ (N < 2) /\ s.main = {} /\ N < L
  <2> DEFINE final == [o |-> 2, main |-> TRUE, entries |-> <<>>, end |-> "done"]
             Q == [j \in 0..1 |-> IF j = 0 THEN walkStart ELSE At(2, TRUE, <<>>)]
  <2>1. N = 2
    <3> HIDE DEF N, L
    <3> QED  BY <1>1, <1>7
  <2>2. walkStep(f, walkStart) = At(2, TRUE, <<>>)
    <3>1. Len(f) \in Nat /\ Len(f) > 1 /\ Item(f, 1) = Main({})
      BY <1>5, <1>7, <2>1
    <3> QED  BY <3>1, MainStep
  <2>3. walkStep(f, At(2, TRUE, <<>>)) = final
    <3>1. Outcome(f, 2, TRUE) = "done"
      BY <2>1 DEF Outcome, Refuses
    <3> QED  BY <3>1 DEF walkStep, At
  <2>4. Q[0] = walkStart /\ Q[1] = At(2, TRUE, <<>>) /\ final.end # "go"
    OBVIOUS
  <2> HIDE DEF Q, final
  <2>5. \A j \in 0..(1 - 1) : walkStep(f, Q[j]) = Q[j + 1]
    <3>1. \A j \in 0..(1 - 1) : j = 0 /\ j + 1 = 1
      OBVIOUS
    <3> QED  BY <2>2, <2>4, <3>1
  <2>6. 1 \in 0..Len(f) /\ Len(f) \in Nat
    BY <2>1
  <2>7. w = final
    BY <2>3, <2>4, <2>5, <2>6, WalkEnds
  <2>8. a.entries = <<>> /\ a.ok = TRUE
    <3>1. w.entries = <<>> /\ w.end = "done"
      BY <2>7 DEF final
    <3> HIDE DEF w, a
    <3>2. a.entries = w.entries /\ a.ok = (w.end = "done")
      BY <1>4, <1>7
    <3>3. (w.end = "done") = TRUE
      BY <3>1
    <3> QED  BY <3>1, <3>2, <3>3
  <2>9. ~ (L <= N)
    BY <1>1, <1>7
  <2> HIDE DEF a, n, N, L
  <2>10. Listed(s, f, a, 0)
    BY <1>2, <1>7, <2>8, <2>9 DEF Listed, n, N, L
  <2> QED  BY <1>2, <2>10 DEF a, n
<1>8. CASE ~ (N < 2) /\ s.main = {} /\ ~ (N < L)
  <2>1. L <= N
    BY <1>1, <1>8
  <2>2. PICK m \in 0..n : Stops(f, s, m)
    BY <1>1, <2>1, StopIs
  <2> DEFINE v == Outcome(f, HeaderAt(s, m + 1), TRUE)
  <2>3. v = IF m = n \/ HeaderAt(s, m + 1) = N THEN "done" ELSE "bad"
    BY <2>2, StopOutcome
  <2>4. HeaderAt(s, m + 1) <= N /\ \A i \in 1..m : i # s.odd
    BY <2>2 DEF Stops
  <2>5. w = [o |-> HeaderAt(s, m + 1), main |-> TRUE, entries |-> FileEntries(s, m), end |-> v]
    <3>1. v # "go"
      BY <2>3
    <3> QED  BY <1>8, <2>4, <3>1, WalkOver
  <2> HIDE DEF v
  <2>6. a.entries = FileEntries(s, m) /\ (a.ok <=> v = "done") /\ a.ok \in BOOLEAN
    <3>1. w.entries = FileEntries(s, m) /\ w.end = v
      BY <2>5
    <3> HIDE DEF w, a
    <3>2. a.entries = w.entries /\ a.ok = (w.end = "done")
      BY <1>4, <1>8
    <3> QED  BY <3>1, <3>2
  <2>7. v = "done" <=> m = n \/ HeaderAt(s, m + 1) = N
    BY <2>3
  <2> HIDE DEF a, n, N, L
  <2>8. Listed(s, f, a, m)
    BY <1>8, <2>1, <2>2, <2>4, <2>6, <2>7 DEF Listed, n, N, L
  <2> QED  BY <2>8 DEF a, n
<1> QED  BY <1>3, <1>6, <1>7, <1>8

\* The container is an archive as far as it goes, and what is listed of it are
\* files that are not refused.
RarInv ==
  /\ packed \in RarShapes /\ Sound(packed) /\ hurt \in BOOLEAN
  /\ StartOf(rarFile, Archive(packed))
  /\ ~ hurt => rarFile = Archive(packed)
  /\ rarIndex = Unread \/
       \E m \in 0..Len(packed.sizes) :
          /\ rarIndex.entries = FileEntries(packed, m) /\ rarIndex.read = TRUE
          /\ (m > 0 => packed.main = {}) /\ \A i \in 1..m : i # packed.odd

LEMMA WholeStart ==
  ASSUME NEW s \in RarShapes
  PROVE  StartOf(Archive(s), Archive(s)) /\ HeaderAt(s, Len(s.sizes) + 1) <= Len(Archive(s))
         /\ Len(Lead(s)) <= Len(Archive(s)) /\ 2 <= Len(Lead(s))
<1> DEFINE n == Len(s.sizes)
           h == HeaderAt(s, n + 1)
           L == Len(Lead(s))
           N == Len(Archive(s))
           z == Len(Trailer(s))
<1>1. N = h + z /\ N \in Nat /\ z \in 0..2
  BY ArchiveIs
<1>2. L \in Nat /\ L >= 2 /\ n \in Nat
  <2>1. n \in Nat /\ L = (IF s.comment THEN 3 ELSE 2)
    BY ShapesAre DEF HeadersAre
  <2> QED  BY <2>1
<1>3. h \in Nat /\ L + (n + 1) - 1 <= h
  <2>1. n + 1 \in 1..(n + 1)
    BY <1>2
  <2>2. \A i \in 1..(n + 1) : HeaderAt(s, i) \in Nat /\ L + i - 1 <= HeaderAt(s, i)
    BY ShapesAre DEF HeadersAre
  <2> HIDE DEF n
  <2> QED  BY <2>1, <2>2
<1> HIDE DEF n, h, L, N, z
<1>4. N \in Nat \ {0} /\ h <= N /\ L <= N /\ N <= N /\ 2 <= L
  BY <1>1, <1>2, <1>3
<1>5. Archive(s) = [k \in 1..N |-> Archive(s)[k]]
  BY ArchiveIs DEF N
<1>6. Archive(s) \in Seq({Archive(s)[k] : k \in DOMAIN Archive(s)})
  <2> DEFINE g == Archive(s)
  <2> HIDE DEF g
  <2>1. g = [k \in 1..N |-> g[k]]
    BY <1>5 DEF g
  <2>2. g \in Seq({g[k] : k \in DOMAIN g})
    BY <1>4, <2>1
  <2> QED  BY <2>2 DEF g
<1> QED  BY <1>4, <1>6 DEF StartOf, N, h, n, L

LEMMA RarInitInv == rarInit => RarInv
<1> SUFFICES ASSUME rarInit
             PROVE  RarInv
  OBVIOUS
<1>1. packed \in RarShapes /\ Sound(packed) /\ rarFile = Archive(packed) /\ hurt = FALSE /\ rarIndex = Unread
  BY DEF rarInit
<1>2. StartOf(rarFile, Archive(packed))
  BY <1>1, WholeStart
<1> QED  BY <1>1, <1>2 DEF RarInv

LEMMA StartOfStart ==
  ASSUME NEW f, NEW g, StartOf(f, g), NEW k \in 1..(Len(f) - 1)
  PROVE  StartOf(SubSeq(f, 1, k), g)
<1>0. f \in Seq({f[i] : i \in DOMAIN f})
  BY DEF StartOf
<1> DEFINE N == Len(f)
           e == SubSeq(f, 1, k)
<1>1. N \in Nat /\ N <= Len(g) /\ \A i \in 1..N : f[i] = g[i]
  BY DEF StartOf
<1>2. k \in Nat \ {0} /\ k <= N
  BY <1>1
<1>3. Len(e) = k /\ (\A i \in 1..k : e[i] = f[i]) /\ e \in Seq({e[i] : i \in DOMAIN e})
  <2>1. e = [i \in 1..k |-> f[i]]
    BY <1>0, <1>1, <1>2
  <2> HIDE DEF e
  <2> QED  BY <1>2, <2>1
<1> HIDE DEF N, e
<1>4. \A i \in 1..k : i \in 1..N
  BY <1>1, <1>2
<1>5. Len(e) <= Len(g)
  <2>1. Len(g) \in Int
    OBVIOUS
  <2> QED  BY <1>1, <1>2, <1>3
<1> QED  BY <1>1, <1>2, <1>3, <1>4, <1>5 DEF StartOf, e

LEMMA RarListed ==
  ASSUME RarInv, ListRar
  PROVE  RarInv'
<1> DEFINE a == rarReadIndex(rarFile)
<1>1. packed \in RarShapes /\ Sound(packed) /\ hurt \in BOOLEAN /\ StartOf(rarFile, Archive(packed))
      /\ (~ hurt => rarFile = Archive(packed))
  BY DEF RarInv
<1>2. Holds(rarFile, packed)
  BY <1>1, ArchiveHolds
<1>3. PICK m \in 0..Len(packed.sizes) : Listed(packed, rarFile, a, m)
  BY <1>1, <1>2, ArchiveIsListed
<1>4. rarIndex' = [entries |-> a.entries, ok |-> a.ok, read |-> TRUE] /\ UNCHANGED <<packed, rarFile, hurt>>
  BY DEF ListRar
<1> HIDE DEF a
<1>5. rarIndex'.entries = FileEntries(packed, m) /\ rarIndex'.read = TRUE
      /\ (m > 0 => packed.main = {}) /\ \A i \in 1..m : i # packed.odd
  BY <1>3, <1>4 DEF Listed
<1> QED  BY <1>1, <1>3, <1>4, <1>5 DEF RarInv

LEMMA RarCut ==
  ASSUME RarInv, CutRar
  PROVE  RarInv'
<1>1. packed \in RarShapes /\ Sound(packed) /\ StartOf(rarFile, Archive(packed))
  BY DEF RarInv
<1>2. PICK k \in 1..(Len(rarFile) - 1) : rarFile' = SubSeq(rarFile, 1, k)
  BY DEF CutRar
<1>3. StartOf(rarFile', Archive(packed))
  BY <1>1, <1>2, StartOfStart
<1>4. hurt' = TRUE /\ packed' = packed /\ rarIndex' = rarIndex
  BY DEF CutRar
<1>5. StartOf(rarFile', Archive(packed'))
  BY <1>3, <1>4
<1>6. rarIndex' = Unread \/
        \E m \in 0..Len(packed'.sizes) :
          /\ rarIndex'.entries = FileEntries(packed', m) /\ rarIndex'.read = TRUE
          /\ (m > 0 => packed'.main = {}) /\ \A i \in 1..m : i # packed'.odd
  BY <1>4 DEF RarInv
<1> QED  BY <1>1, <1>4, <1>5, <1>6 DEF RarInv

LEMMA RarRepacked ==
  ASSUME RarInv, RepackRar
  PROVE  RarInv'
<1>1. packed \in RarShapes /\ Sound(packed) /\ hurt \in BOOLEAN
  BY DEF RarInv
<1>2. PICK m \in Methods \ {packed.method} : packed' = [packed EXCEPT !.method = m]
  BY DEF RepackRar
<1>3. packed' \in RarShapes /\ packed'.sizes = packed.sizes /\ packed'.odd = packed.odd
      /\ packed'.main = packed.main /\ packed'.comment = packed.comment /\ packed'.flag = packed.flag
  BY <1>1, <1>2 DEF RarShapes
<1>4. Sound(packed')
  BY <1>1, <1>3 DEF Sound
<1>5. hurt' = hurt /\ rarIndex' = rarIndex /\ rarFile' = Archive(packed')
  BY DEF RepackRar
<1>6. StartOf(rarFile', Archive(packed'))
  BY <1>3, <1>5, WholeStart
<1>7. \A k : FileEntries(packed', k) = FileEntries(packed, k)
  <2>1. Lead(packed') = Lead(packed)
    BY <1>3 DEF Lead
  <2>2. \A i : HeaderAt(packed', i) = HeaderAt(packed, i)
    BY <1>3, <2>1 DEF HeaderAt
  <2> QED  BY <1>3, <2>2 DEF FileEntries
<1>8. rarIndex' = Unread \/
        \E k \in 0..Len(packed'.sizes) :
          /\ rarIndex'.entries = FileEntries(packed', k) /\ rarIndex'.read = TRUE
          /\ (k > 0 => packed'.main = {}) /\ \A i \in 1..k : i # packed'.odd
  BY <1>3, <1>5, <1>7 DEF RarInv
<1> QED  BY <1>1, <1>3, <1>4, <1>5, <1>6, <1>8 DEF RarInv

LEMMA RarStep == RarInv /\ [rarNext]_rarVars => RarInv'
<1> SUFFICES ASSUME RarInv, [rarNext]_rarVars
             PROVE  RarInv'
  OBVIOUS
<1>1. CASE ListRar
  BY <1>1, RarListed
<1>2. CASE CutRar
  BY <1>2, RarCut
<1>3. CASE RepackRar
  BY <1>3, RarRepacked
<1>4. CASE UNCHANGED rarVars
  BY <1>4 DEF RarInv, rarVars
<1> QED  BY <1>1, <1>2, <1>3, <1>4 DEF rarNext

\* A container listed as it is now.
LEMMA RarWalkIsExact == RarInv => WalkIsExact
<1> SUFFICES ASSUME RarInv, ~ hurt
             PROVE  LET a == rarReadIndex(rarFile)
                        n == IF packed.main # {} THEN 0
                             ELSE IF packed.odd # 0 THEN packed.odd - 1 ELSE Len(packed.sizes)
                    IN  /\ a.ok = (packed.main = {} /\ packed.odd = 0)
                        /\ a.entries = FileEntries(packed, n)
  BY DEF WalkIsExact
<1> DEFINE s == packed
           f == rarFile
           a == rarReadIndex(f)
           n == Len(s.sizes)
           N == Len(f)
           H(i) == HeaderAt(s, i)
<1>1. s \in RarShapes /\ Sound(s) /\ StartOf(f, Archive(s)) /\ f = Archive(s)
  BY DEF RarInv
<1>2. Holds(f, s)
  BY <1>1, ArchiveHolds
<1>3. PICK m \in 0..n : Listed(s, f, a, m)
  BY <1>1, <1>2, ArchiveIsListed
<1>4. H(n + 1) <= N /\ Len(Lead(s)) <= N
  BY <1>1, WholeStart
<1>5. n \in Nat /\ N \in Nat /\ s.odd \in Nat /\ s.odd <= n
  <2>1. n \in Nat /\ s.odd \in Nat
    BY <1>1, ShapesAre DEF HeadersAre
  <2> QED  BY <1>1, <1>2, <2>1 DEF Sound, Holds
<1>6. /\ \A i \in 1..(n + 1) : H(i) \in Nat
      /\ \A i \in 1..n : H(i) < H(i + 1)
      /\ \A i, j \in 1..(n + 1) : i <= j => H(i) <= H(j)
  <2>1. /\ \A i \in 1..(n + 1) : H(i) \in Nat
        /\ \A i, j \in 1..(n + 1) : i <= j => H(i) <= H(j)
        /\ \A i \in 1..n : s.sizes[i] \in Nat /\ H(i + 1) = H(i) + 1 + s.sizes[i]
    BY <1>1, ShapesAre DEF HeadersAre
  <2> HIDE DEF n, H
  <2>2. ASSUME NEW i \in 1..n
        PROVE  H(i) < H(i + 1)
    <3>1. i \in 1..(n + 1)
      BY <1>5
    <3> QED  BY <2>1, <3>1
  <2> QED  BY <2>1, <2>2
<1>7. a.entries = FileEntries(s, m) /\ a.ok \in BOOLEAN
  BY <1>3 DEF Listed
<1>8. CASE s.main # {}
  <2>1. m = 0 /\ ~ a.ok
    BY <1>3, <1>8 DEF Listed
  <2> HIDE DEF a
  <2>2. a.ok = (s.main = {} /\ s.odd = 0)
    BY <1>7, <1>8, <2>1
  <2> QED  BY <1>7, <1>8, <2>1, <2>2 DEF a
<1>9. CASE s.main = {}
  <2>1. Stops(f, s, m) /\ (a.ok <=> m = n \/ H(m + 1) = N)
    BY <1>3, <1>4, <1>9 DEF Listed
  <2>2. (m = n \/ m + 1 = s.odd \/ ~ (H(m + 2) <= N)) /\ \A i \in 1..m : i # s.odd
    BY <2>1 DEF Stops
  <2> HIDE DEF a, n, N, H
  <2>3. m = n \/ m + 1 = s.odd
    <3> SUFFICES ASSUME m # n
                 PROVE  H(m + 2) <= N
      BY <2>2
    <3>1. m + 2 \in 1..(n + 1) /\ n + 1 \in 1..(n + 1) /\ m + 2 <= n + 1
      BY <1>5
    <3>2. H(m + 2) <= H(n + 1) /\ H(m + 2) \in Nat /\ H(n + 1) \in Nat
      BY <1>6, <3>1
    <3> QED  BY <1>4, <1>5, <3>2
  <2>4. CASE s.odd = 0
    <3>1. m = n
      BY <1>5, <2>3, <2>4
    <3>2. a.ok = TRUE
      BY <1>7, <2>1, <3>1
    <3>3. a.ok = (s.main = {} /\ s.odd = 0)
      BY <1>9, <2>4, <3>2
    <3> QED  BY <1>7, <1>9, <2>4, <3>1, <3>3 DEF a, n
  <2>5. CASE s.odd # 0
    <3>1. m # n
      BY <1>5, <2>2, <2>5
    <3>2. m + 1 = s.odd /\ m = s.odd - 1
      BY <1>5, <2>3, <3>1
    <3>3. H(m + 1) # N
      <4>1. m + 1 \in 1..n /\ m + 1 \in 1..(n + 1) /\ (m + 1) + 1 \in 1..(n + 1) /\ n + 1 \in 1..(n + 1)
            /\ (m + 1) + 1 <= n + 1
        BY <1>5, <3>1
      <4>2. H(m + 1) < H((m + 1) + 1) /\ H((m + 1) + 1) <= H(n + 1)
        BY <1>6, <4>1
      <4>3. H(m + 1) \in Nat /\ H((m + 1) + 1) \in Nat /\ H(n + 1) \in Nat
        BY <1>6, <4>1
      <4> QED  BY <1>4, <1>5, <4>2, <4>3
    <3>4. a.ok = FALSE
      BY <1>7, <2>1, <3>1, <3>3
    <3>5. a.ok = (s.main = {} /\ s.odd = 0)
      BY <2>5, <3>4
    <3> QED  BY <1>7, <1>9, <2>5, <3>2, <3>5 DEF a, n
  <2> QED  BY <2>4, <2>5
<1> QED  BY <1>8, <1>9

\* A container that was cut.
LEMMA RarCutKeeps == RarInv => CutKeepsThePrefix
<1> SUFFICES ASSUME RarInv, packed.main = {}, packed.odd = 0
             PROVE  LET a == rarReadIndex(rarFile)
                        kept == Cardinality({i \in DOMAIN packed.sizes :
                                  HeaderAt(packed, i) + 1 + packed.sizes[i] <= Len(rarFile)})
                    IN  /\ a.entries = FileEntries(packed, IF Len(rarFile) < 2 THEN 0 ELSE kept)
                        /\ a.ok => \A i \in DOMAIN packed.sizes :
                             Len(rarFile) \notin (HeaderAt(packed, i) + 1)..(HeaderAt(packed, i) + packed.sizes[i])
  BY DEF CutKeepsThePrefix
<1> DEFINE s == packed
           f == rarFile
           a == rarReadIndex(f)
           n == Len(s.sizes)
           N == Len(f)
           L == Len(Lead(s))
           H(i) == HeaderAt(s, i)
           z(i) == s.sizes[i]
           there == {i \in DOMAIN s.sizes : H(i) + 1 + z(i) <= N}
           kept == Cardinality(there)
<1>1. s \in RarShapes /\ StartOf(f, Archive(s))
  BY DEF RarInv
<1>2. Holds(f, s)
  BY <1>1, ArchiveHolds
<1>3. PICK m \in 0..n : Listed(s, f, a, m)
  BY <1>1, <1>2, ArchiveIsListed
<1>4. n \in Nat /\ N \in Nat /\ L \in Nat /\ L >= 2 /\ DOMAIN s.sizes = 1..n
  <2>1. n \in Nat /\ L = (IF s.comment THEN 3 ELSE 2) /\ DOMAIN s.sizes = 1..n
    BY <1>1, ShapesAre DEF HeadersAre
  <2>2. L \in Nat /\ L >= 2
    <3> HIDE DEF L
    <3> QED  BY <2>1
  <2> QED  BY <1>2, <2>1, <2>2 DEF Holds
<1>5. /\ \A i \in 1..(n + 1) : H(i) \in Nat /\ L + i - 1 <= H(i)
      /\ \A i \in 1..n : z(i) \in Nat /\ H(i + 1) = H(i) + 1 + z(i)
      /\ \A i, j \in 1..(n + 1) : i <= j => H(i) <= H(j)
  BY <1>1, ShapesAre DEF HeadersAre
<1>6. a.entries = FileEntries(s, m)
  BY <1>3 DEF Listed
<1>7. N < 2 => m = 0 /\ ~ a.ok
  BY <1>3 DEF Listed
<1>8. N < L => m = 0
  BY <1>3 DEF Listed
<1>9. L <= N => Stops(f, s, m) /\ (a.ok <=> m = n \/ H(m + 1) = N)
  BY <1>3 DEF Listed
<1>10. L <= N => H(m + 1) <= N /\ (m = n \/ m + 1 = 0 \/ ~ (H(m + 2) <= N))
  BY <1>9 DEF Stops
<1> HIDE DEF n, N, L, H, z, a
<1>11. m \in Nat /\ m <= n
  BY <1>4
<1>12. there = {i \in 1..n : H(i + 1) <= N}
  BY <1>4, <1>5
<1>13. CASE N < L
  <2>1. \A i \in 1..n : H(i) \in Nat /\ L <= H(i) /\ z(i) \in Nat
    <3> SUFFICES ASSUME NEW i \in 1..n
                 PROVE  H(i) \in Nat /\ L <= H(i) /\ z(i) \in Nat
      OBVIOUS
    <3>1. i \in 1..(n + 1) /\ i >= 1
      BY <1>4
    <3>2. H(i) \in Nat /\ L + i - 1 <= H(i) /\ z(i) \in Nat
      BY <1>5, <3>1
    <3> QED  BY <1>4, <3>1, <3>2
  <2>2. there = {}
    <3> SUFFICES ASSUME NEW i \in there
                 PROVE  FALSE
      OBVIOUS
    <3>1. i \in 1..n /\ H(i) + 1 + z(i) <= N
      BY <1>4
    <3>2. H(i) \in Nat /\ L <= H(i) /\ z(i) \in Nat
      BY <2>1, <3>1
    <3> QED  BY <1>4, <1>13, <3>1, <3>2
  <2>3. kept = 0
    BY <2>2, FS_EmptySet
  <2>4. \A i \in 1..n : N \notin (H(i) + 1)..(H(i) + z(i))
    <3> SUFFICES ASSUME NEW i \in 1..n, N \in (H(i) + 1)..(H(i) + z(i))
                 PROVE  FALSE
      OBVIOUS
    <3>1. H(i) \in Nat /\ L <= H(i) /\ z(i) \in Nat
      BY <2>1
    <3> QED  BY <1>4, <1>13, <3>1
  <2> HIDE DEF kept
  <2>5. a.entries = FileEntries(s, IF N < 2 THEN 0 ELSE kept)
    BY <1>6, <1>8, <1>13, <2>3
  <2> QED  BY <1>4, <2>4, <2>5 DEF n, N, L, H, z, a, kept
<1>14. CASE L <= N
  <2>1. \A i \in 1..m : i + 1 \in 1..(n + 1) /\ i + 1 <= m + 1 /\ m + 1 \in 1..(n + 1)
    BY <1>4, <1>11
  <2>2. \A i \in 1..m : H(i + 1) <= N
    <3> SUFFICES ASSUME NEW i \in 1..m
                 PROVE  H(i + 1) <= N
      OBVIOUS
    <3>1. H(i + 1) <= H(m + 1) /\ H(i + 1) \in Nat /\ H(m + 1) \in Nat
      BY <1>5, <2>1
    <3> QED  BY <1>4, <1>10, <1>14, <3>1
  <2>3. \A i \in 1..n : H(i + 1) <= N => i <= m
    <3> SUFFICES ASSUME NEW i \in 1..n, H(i + 1) <= N, ~ (i <= m)
                 PROVE  FALSE
      OBVIOUS
    <3>1. m # n /\ m + 1 # 0 /\ m + 2 \in 1..(n + 1) /\ i + 1 \in 1..(n + 1) /\ m + 2 <= i + 1
      BY <1>4, <1>11
    <3>2. ~ (H(m + 2) <= N)
      BY <1>10, <1>14, <3>1
    <3>3. H(m + 2) <= H(i + 1) /\ H(m + 2) \in Nat /\ H(i + 1) \in Nat
      BY <1>5, <3>1
    <3> QED  BY <1>4, <3>2, <3>3
  <2>4. there = 1..m
    <3>1. \A i : i \in 1..m <=> i \in 1..n /\ i <= m
      BY <1>4, <1>11
    <3>2. \A i : i \in there <=> i \in 1..n /\ H(i + 1) <= N
      BY <1>12
    <3> HIDE DEF there
    <3> QED  BY <2>2, <2>3, <3>1, <3>2
  <2>5. kept = m
    <3>1. Cardinality(1..m) = m
      <4>1. 1 \in Int /\ m \in Int
        BY <1>11
      <4> QED  BY <1>11, <4>1, FS_Interval
    <3> QED  BY <2>4, <3>1
  <2>6. a.ok => \A i \in 1..n : N \notin (H(i) + 1)..(H(i) + z(i))
    <3> SUFFICES ASSUME a.ok, NEW i \in 1..n, N \in (H(i) + 1)..(H(i) + z(i))
                 PROVE  FALSE
      OBVIOUS
    <3>1. i \in 1..(n + 1) /\ i + 1 \in 1..(n + 1) /\ n + 1 \in 1..(n + 1) /\ i + 1 <= n + 1
      BY <1>4
    <3>2. H(i) \in Nat /\ H(i + 1) \in Nat /\ z(i) \in Nat /\ H(i + 1) = H(i) + 1 + z(i)
      BY <1>5, <3>1
    <3>3. H(i) < N /\ N < H(i + 1)
      BY <1>4, <3>2
    <3>4. CASE m = n
      <4>1. H(i + 1) <= H(n + 1) /\ H(n + 1) \in Nat
        BY <1>5, <3>1
      <4> QED  BY <1>4, <1>10, <1>14, <3>2, <3>3, <3>4, <4>1
    <3>5. CASE H(m + 1) = N
      <4>1. m + 1 \in 1..(n + 1)
        BY <1>4, <1>11
      <4>2. (m + 1 <= i => H(m + 1) <= H(i)) /\ (i + 1 <= m + 1 => H(i + 1) <= H(m + 1))
        BY <1>5, <3>1, <4>1
      <4>3. m + 1 <= i \/ i + 1 <= m + 1
        BY <1>4, <1>11
      <4> QED  BY <1>4, <3>2, <3>3, <3>5, <4>2, <4>3
    <3> QED  BY <1>9, <1>14, <3>4, <3>5
  <2> HIDE DEF kept
  <2>7. a.entries = FileEntries(s, IF N < 2 THEN 0 ELSE kept)
    BY <1>6, <1>7, <2>5
  <2> QED  BY <1>4, <2>6, <2>7 DEF n, N, L, H, z, a, kept
<1> QED  BY <1>4, <1>13, <1>14

\* The cells of what is given to the decoder.
LEMMA SpliceCells ==
  ASSUME NEW b, NEW z \in Nat, NEW p, p \in Seq({p[k] : k \in DOMAIN p}), Len(p) = z,
         NEW g, g = <<Marker, Main({}), b>> \o p
  PROVE  /\ Len(g) = 3 + z /\ \A k \in 1..z : g[3 + k] = p[k]
         /\ g[1] = Marker /\ g[2] = Main({}) /\ g[3] = b
<1> DEFINE h == <<Marker, Main({}), b>>
           S == {h[k] : k \in DOMAIN h} \cup {p[k] : k \in DOMAIN p}
<1>1. Len(h) = 3 /\ h[1] = Marker /\ h[2] = Main({}) /\ h[3] = b /\ DOMAIN h = 1..3
  <2> HIDE DEF Marker, Main
  <2> QED  OBVIOUS
<1>2. h \in Seq(S) /\ p \in Seq(S)
  <2>1. h = [k \in 1..3 |-> h[k]] /\ p = [k \in 1..z |-> p[k]]
    <3> HIDE DEF Marker, Main
    <3> QED  OBVIOUS
  <2>2. DOMAIN p = 1..z
    OBVIOUS
  <2> HIDE DEF h
  <2> QED  BY <1>1, <2>1, <2>2
<1> HIDE DEF h, S
<1>3. g = h \o p
  BY DEF h
<1>4. Len(g) = 3 + z /\ \A k \in 1..(3 + z) : g[k] = IF k <= 3 THEN h[k] ELSE p[k - 3]
  BY <1>1, <1>2, <1>3
<1>5. \A k \in 1..z : 3 + k \in 1..(3 + z) /\ ~ (3 + k <= 3) /\ (3 + k) - 3 = k
  OBVIOUS
<1>6. \A k \in 1..z : g[3 + k] = p[k]
  BY <1>4, <1>5
<1>7. g[1] = Marker /\ g[2] = Main({}) /\ g[3] = b
  <2>1. 1 \in 1..(3 + z) /\ 2 \in 1..(3 + z) /\ 3 \in 1..(3 + z) /\ 1 <= 3 /\ 2 <= 3 /\ 3 <= 3
    OBVIOUS
  <2> QED  BY <1>1, <1>4, <2>1
<1> QED  BY <1>4, <1>6, <1>7

\* What is given to the decoder is an archive of one file.
LEMMA SpliceIs ==
  ASSUME NEW b, NEW z \in Nat, NEW p, p \in Seq({p[k] : k \in DOMAIN p}), Len(p) = z,
         b.t = "file", b.add \in Nat, b.add <= z, PackSize(b) = z,
         b.flags \cap {"password", "solid", "split"} = {},
         NEW g, g = <<Marker, Main({}), b>> \o p
  PROVE  rarReadIndex(g) = [entries |-> <<[id |-> b.id, comp |-> z, off |-> 2]>>, ok |-> TRUE]
<1>1. Len(g) = 3 + z
  BY SpliceCells
<1>2. g[1] = Marker /\ g[2] = Main({}) /\ g[3] = b
  BY SpliceCells
<1>3. Item(g, 0) = Marker /\ Item(g, 1) = Main({}) /\ Item(g, 2) = b
  <2>1. 0 + 1 = 1 /\ 1 + 1 = 2 /\ 2 + 1 = 3
    OBVIOUS
  <2> QED  BY <1>2, <2>1 DEF Item
<1>4. Len(g) \in Nat /\ Len(g) > 1 /\ 2 \in 0..Len(g)
  BY <1>1
<1>5. walkStep(g, walkStart) = At(2, TRUE, <<>>)
  BY <1>3, <1>4, MainStep
<1> DEFINE e == EntryOf(b, 2)
           N == 3 + z
           final == [o |-> N, main |-> TRUE, entries |-> <<e>>, end |-> "done"]
           Q == [j \in 0..2 |-> IF j = 0 THEN walkStart ELSE IF j = 1 THEN At(2, TRUE, <<>>)
                                ELSE At(N, TRUE, <<e>>)]
<1>6. walkStep(g, At(2, TRUE, <<>>)) = At(N, TRUE, <<e>>)
  <2> DEFINE o == 2
             E == <<>>
  <2>1. o \in Nat /\ o + 1 + z = N /\ o + 1 + z <= Len(g) /\ Item(g, o) = b
    BY <1>1, <1>3
  <2>2. Append(E, EntryOf(b, o)) = <<e>>
    OBVIOUS
  <2> HIDE DEF o, E, N
  <2>3. walkStep(g, At(o, TRUE, E)) = At(o + 1 + z, TRUE, Append(E, EntryOf(b, o)))
    BY <1>4, <2>1, FileStep
  <2> HIDE DEF e
  <2> QED  BY <2>1, <2>2, <2>3 DEF o, E
<1>7. walkStep(g, At(N, TRUE, <<e>>)) = final
  <2> DEFINE E == <<e>>
  <2> HIDE DEF E
  <2>1. Outcome(g, N, TRUE) = "done"
    <3>1. \A x : x = Len(g) => Outcome(g, x, TRUE) = "done"
      BY DEF Outcome
    <3> HIDE DEF N
    <3>2. N = Len(g)
      BY <1>1 DEF N
    <3> QED  BY <3>1, <3>2
  <2> HIDE DEF N
  <2>2. walkStep(g, At(N, TRUE, E)) = [o |-> N, main |-> TRUE, entries |-> E, end |-> "done"]
    BY <2>1 DEF walkStep, At
  <2> QED  BY <2>2 DEF E
<1> HIDE DEF e, N
<1>8. Q[0] = walkStart /\ Q[1] = At(2, TRUE, <<>>) /\ Q[2] = At(N, TRUE, <<e>>) /\ final.end # "go"
  OBVIOUS
<1> HIDE DEF Q, final
<1>9. \A j \in 0..(2 - 1) : walkStep(g, Q[j]) = Q[j + 1]
  <2>1. \A j \in 0..(2 - 1) : (j = 0 /\ j + 1 = 1) \/ (j = 1 /\ j + 1 = 2)
    OBVIOUS
  <2> QED  BY <1>5, <1>6, <1>8, <2>1
<1>10. walkStep(g, Q[2]) = final /\ final.end # "go"
  BY <1>7, <1>8
<1>11. Walk(g) = final
  <2> DEFINE K == 2
  <2>1. K \in 0..Len(g) /\ walkStep(g, Q[K]) = final
    BY <1>4, <1>10
  <2>2. \A j \in 0..(K - 1) : walkStep(g, Q[j]) = Q[j + 1]
    BY <1>9
  <2>3. Q[0] = walkStart /\ final.end # "go" /\ Len(g) \in Nat
    BY <1>4, <1>8
  <2> HIDE DEF K
  <2> QED  BY ONLY <2>1, <2>2, <2>3, WalkEnds
<1>12. rarReadIndex(g) = [entries |-> <<e>>, ok |-> TRUE]
  <2>1. ~ (Len(g) < 2) /\ Is(g, 0, "Rar4")
    BY <1>3, <1>4 DEF Is, Marker
  <2>2. Walk(g).entries = <<e>> /\ Walk(g).end = "done"
    <3>1. final.entries = <<e>> /\ final.end = "done"
      BY DEF final
    <3> QED  BY ONLY <1>11, <3>1
  <2>3. rarReadIndex(g) = [entries |-> Walk(g).entries, ok |-> Walk(g).end = "done"]
    BY <2>1 DEF rarReadIndex
  <2>4. (Walk(g).end = "done") = TRUE
    BY <2>2
  <2> QED  BY <2>2, <2>3, <2>4
<1>13. e = [id |-> b.id, comp |-> z, off |-> 2]
  BY DEF EntryOf, e
<1> QED  BY <1>12, <1>13

\* A page that opens, of an entry listed earlier.
LEMMA RarPageIsItsOwn == RarInv => PageIsItsOwn
<1> SUFFICES ASSUME RarInv, NEW i \in DOMAIN rarIndex.entries,
                    rarOpenEntry(rarFile, rarIndex.entries[i]).ok
             PROVE  LET e == rarIndex.entries[i]
                        c == rarOpenEntry(rarFile, e).cells
                        one == rarReadIndex(splice(rarFile, e))
                    IN  /\ \A k \in DOMAIN c : c[k] = Byte(e.id, k, MethodStore)
                        /\ ~ hurt => Len(c) = e.comp
                        /\ (~ hurt /\ Item(rarFile, e.off).method # MethodStore) =>
                             one.ok /\ one.entries = <<[e EXCEPT !.off = 2]>>
  BY DEF PageIsItsOwn
<1> DEFINE s == packed
           f == rarFile
           e == rarIndex.entries[i]
           n == Len(s.sizes)
           N == Len(f)
           o == HeaderAt(s, i)
           z == s.sizes[i]
           b == Header(s, i)
           p == Section(f, o + 1, z)
           g == splice(f, e)
           r == rarOpenEntry(f, e)
           len == IF o + 1 + z < N THEN z ELSE N - (o + 1)
<1>1. s \in RarShapes /\ StartOf(f, Archive(s)) /\ (~ hurt => f = Archive(s))
  BY DEF RarInv
<1>2. Holds(f, s)
  BY <1>1, ArchiveHolds
<1>3. PICK m \in 0..n : /\ rarIndex.entries = FileEntries(s, m)
                        /\ m > 0 => s.main = {}
                        /\ \A k \in 1..m : k # s.odd
  <2>1. rarIndex # Unread
    <3>1. Unread.entries = <<>>
      BY DEF Unread
    <3>2. DOMAIN <<>> = {}
      OBVIOUS
    <3> QED  BY <3>1, <3>2
  <2> QED  BY <2>1 DEF RarInv
<1>4. n \in Nat
  BY <1>1, ShapesAre DEF HeadersAre
<1>5. i \in 1..m /\ i \in 1..n /\ i # s.odd /\ s.main = {}
  <2>1. i \in 1..m
    BY <1>3 DEF FileEntries
  <2>2. i \in 1..n /\ m > 0
    BY <1>4, <2>1
  <2> QED  BY <1>3, <2>1, <2>2
<1>6. e = [id |-> i, comp |-> z, off |-> o]
  BY <1>3, <1>5 DEF FileEntries
<1>7. N \in Nat /\ o \in Nat /\ z \in Nat /\ o > 0
  <2>1. HeadersAre(s)
    BY <1>1, ShapesAre
  <2>2. N \in Nat /\ z \in Nat
    BY <1>2, <1>5, <2>1 DEF Holds, HeadersAre
  <2>3. i \in 1..(n + 1) /\ i \in Nat /\ i >= 1
    BY <1>4, <1>5
  <2> DEFINE L == Len(Lead(s))
  <2>4. L = IF s.comment THEN 3 ELSE 2
    BY <2>1 DEF HeadersAre
  <2> HIDE DEF n, L
  <2>5. o \in Nat /\ L + i - 1 <= o
    BY <2>1, <2>3 DEF HeadersAre, n, L
  <2> HIDE DEF o
  <2> QED  BY <2>2, <2>3, <2>4, <2>5
<1>8. b.t = "file" /\ b.id = i /\ b.method = s.method /\ b.add \in Nat /\ b.add <= z /\ PackSize(b) = z
      /\ b.flags \cap {"password", "solid", "split"} = {}
  BY <1>1, <1>5, HeaderIs
<1>9. /\ o < N => Item(f, o) = b
      /\ \A k \in Nat \ {0} : k <= z /\ o + k < N => Item(f, o + k) = Byte(i, k, s.method)
      /\ f[1] = Marker /\ (1 < N => Item(f, 1) = Main({}))
  BY <1>2, <1>5 DEF Holds
<1>10. f \in Seq({f[k] : k \in DOMAIN f})
  BY <1>1 DEF StartOf
<1>11. Is(f, e.off, "file") /\ o < N
  <2>1. Is(f, e.off, "file")
    <3> SUFFICES ASSUME ~ Is(f, e.off, "file")
                 PROVE  FALSE
      OBVIOUS
    <3>1. r = rarNoStream
      BY DEF rarOpenEntry
    <3> QED  BY <3>1 DEF rarNoStream
  <2>2. e.off = o
    BY <1>6
  <2> QED  BY <2>1, <2>2 DEF Is
<1> HIDE DEF n, e, o, z, b, s, f, N
<1>12. Item(f, e.off) = b /\ e.off = o /\ e.comp = z /\ e.id = i /\ N = Len(f)
  BY <1>6, <1>9, <1>11 DEF N
<1>13. len \in Nat /\ len <= z /\ o + 1 + len <= N
  BY <1>7, <1>11
<1>14. Len(p) = len /\ (\A k \in 1..len : p[k] = f[o + k + 1]) /\ p \in Seq({p[k] : k \in DOMAIN p})
  <2> DEFINE from == o + 2
             to == o + 1 + len
  <2>1. p = SubSeq(f, from, to)
    <3>1. (o + 1) + 1 = from /\ (IF o + 1 + z < N THEN o + 1 + z ELSE N) = to
      BY <1>7, <1>11
    <3>2. p = SubSeq(f, (o + 1) + 1, IF o + 1 + z < N THEN o + 1 + z ELSE N)
      BY <1>12 DEF Section
    <3> QED  BY <3>1, <3>2
  <2>2. from \in Nat /\ to \in Nat /\ from >= 1 /\ to <= Len(f) /\ to - from + 1 = len
    <3> HIDE DEF len
    <3> QED  BY <1>7, <1>12, <1>13
  <2>3. \A k \in 1..len : from + k - 1 = o + k + 1
    BY <1>7, <1>13
  <2> HIDE DEF from, to, len, p
  <2>4. p = [k \in 1..len |-> f[from + k - 1]]
    BY <1>10, <1>13, <2>1, <2>2
  <2>5. Len(p) = len /\ \A k \in 1..len : p[k] = f[from + k - 1]
    BY <1>13, <2>4
  <2>6. p \in Seq({p[k] : k \in DOMAIN p})
    <3>1. p = [k \in 1..len |-> p[k]] /\ DOMAIN p = 1..len
      BY <2>4, <2>5
    <3> QED  BY <1>13, <3>1
  <2> QED  BY <2>3, <2>5, <2>6
<1> HIDE DEF p
<1>15. \A k \in 1..len : p[k] = Byte(i, k, s.method)
  <2> SUFFICES ASSUME NEW k \in 1..len
               PROVE  p[k] = Byte(i, k, s.method)
    OBVIOUS
  <2>1. k \in Nat \ {0} /\ k <= z /\ o + k < N
    BY <1>7, <1>13
  <2>2. Item(f, o + k) = Byte(i, k, s.method)
    BY <1>9, <2>1
  <2>3. p[k] = f[o + k + 1]
    BY <1>14
  <2> QED  BY <2>2, <2>3 DEF Item
<1>16. ~ hurt => len = z
  <2>1. ~ hurt => o + 1 + z <= N
    <3> SUFFICES ASSUME ~ hurt
                 PROVE  o + 1 + z <= N
      OBVIOUS
    <3>1. f = Archive(s) /\ s \in RarShapes /\ HeadersAre(s)
      BY <1>1, ShapesAre
    <3>2. HeaderAt(s, n + 1) <= N
      BY <3>1, <1>12, WholeStart DEF n
    <3>3. i + 1 \in 1..(n + 1) /\ n + 1 \in 1..(n + 1) /\ i + 1 <= n + 1
      BY <1>4, <1>5
    <3>4. HeaderAt(s, i + 1) <= HeaderAt(s, n + 1) /\ HeaderAt(s, i + 1) = o + 1 + z
          /\ HeaderAt(s, n + 1) \in Nat
      BY <1>5, <3>1, <3>3 DEF HeadersAre, n, o, z
    <3> QED  BY <1>7, <3>2, <3>4
  <2> QED  BY <1>7, <1>13, <2>1
<1> HIDE DEF len
<1>17. CASE s.method = MethodStore
  <2>1. r = [ok |-> TRUE, cells |-> p]
    BY <1>8, <1>11, <1>12, <1>17 DEF rarOpenEntry, p
  <2>2. DOMAIN p = 1..len
    BY <1>13, <1>14
  <2>3. Item(f, e.off).method = MethodStore
    BY <1>8, <1>12, <1>17
  <2>4. r.cells = p
    BY <2>1
  <2> HIDE DEF r
  <2>5. \A k \in DOMAIN r.cells : r.cells[k] = Byte(e.id, k, MethodStore)
    BY <1>12, <1>15, <1>17, <2>2, <2>4
  <2>6. ~ hurt => Len(r.cells) = e.comp
    BY <1>12, <1>14, <1>16, <2>4
  <2> QED  BY <2>3, <2>5, <2>6 DEF r, e, f
<1>18. CASE s.method # MethodStore
  <2>1. s.method \in PackedMethods /\ Is(f, 1, "main")
    <3> SUFFICES ASSUME ~ (s.method \in PackedMethods /\ Is(f, 1, "main"))
                 PROVE  FALSE
      OBVIOUS
    <3>1. r = rarNoStream
      BY <1>8, <1>11, <1>12, <1>18 DEF rarOpenEntry
    <3> QED  BY <3>1 DEF rarNoStream, e, f
  <2>2. r = [ok |-> TRUE, cells |-> Unpack(g)]
    BY <1>8, <1>11, <1>12, <1>18, <2>1 DEF rarOpenEntry
  <2>3. Item(f, 1) = Main({})
    BY <1>9, <2>1, <1>12 DEF Is
  <2>4. g = <<Marker, Main({}), b>> \o p
    BY <1>12, <2>3 DEF splice, p
  <2>5. /\ Len(g) = 3 + len /\ \A k \in 1..len : g[3 + k] = p[k]
    <3>1. len \in Nat /\ p \in Seq({p[k] : k \in DOMAIN p}) /\ Len(p) = len
      BY <1>13, <1>14
    <3> HIDE DEF g
    <3> QED  BY ONLY <2>4, <3>1, SpliceCells
  <2>6. Unpack(g) = [k \in 1..len |-> Byte(i, k, MethodStore)]
    <3>1. \A k \in 1..len : Byte(i, k, s.method).id = i /\ Byte(i, k, s.method).at = k
      BY DEF Byte
    <3>2. \A k \in 1..len : Item(g, k + 2) = Byte(i, k, s.method)
      <4>1. \A k \in 1..len : k + 2 + 1 = 3 + k
        BY <1>13
      <4> HIDE DEF g
      <4> QED  BY <1>15, <2>5, <4>1 DEF Item
    <3>3. Len(g) - 3 = len
      BY <1>13, <2>5
    <3> HIDE DEF g
    <3> QED  BY <3>1, <3>2, <3>3 DEF Unpack
  <2>7. \A k \in DOMAIN r.cells : r.cells[k] = Byte(e.id, k, MethodStore)
    <3>1. r.cells = [k \in 1..len |-> Byte(i, k, MethodStore)]
      BY <2>2, <2>6
    <3> HIDE DEF r
    <3> QED  BY <1>12, <3>1
  <2>8. ~ hurt => Len(r.cells) = e.comp
    <3>1. r.cells = [k \in 1..len |-> Byte(i, k, MethodStore)]
      BY <2>2, <2>6
    <3> HIDE DEF r
    <3>2. Len(r.cells) = len
      BY <1>13, <3>1
    <3> QED  BY <1>12, <1>16, <3>2
  <2>9. ~ hurt => rarReadIndex(g).ok /\ rarReadIndex(g).entries = <<[e EXCEPT !.off = 2]>>
    <3> SUFFICES ASSUME ~ hurt
                 PROVE  rarReadIndex(g).ok /\ rarReadIndex(g).entries = <<[e EXCEPT !.off = 2]>>
      OBVIOUS
    <3>1. Len(p) = z
      BY <1>14, <1>16
    <3>2. rarReadIndex(g) = [entries |-> <<[id |-> b.id, comp |-> z, off |-> 2]>>, ok |-> TRUE]
      <4>1. z \in Nat /\ p \in Seq({p[k] : k \in DOMAIN p}) /\ Len(p) = z
        BY <1>7, <1>14, <3>1
      <4>2. b.t = "file" /\ b.add \in Nat /\ b.add <= z /\ PackSize(b) = z
            /\ b.flags \cap {"password", "solid", "split"} = {}
        BY <1>8
      <4> HIDE DEF g
      <4> QED  BY ONLY <2>4, <4>1, <4>2, SpliceIs
    <3>3. [e EXCEPT !.off = 2] = [id |-> b.id, comp |-> z, off |-> 2]
      BY <1>6, <1>8
    <3> HIDE DEF g
    <3> QED  BY <3>2, <3>3
  <2> QED  BY <2>7, <2>8, <2>9 DEF r, g, e, f
<1> QED  BY <1>17, <1>18

\* Whatever the packer makes of the files and wherever the download stops, a RAR
\* container is listed for what is in it, and a page that opens is the one that
\* was listed.
THEOREM RarAlwaysRead == rarSpec => []RarIsRead
<1>1. RarInv => RarIsRead
  BY RarWalkIsExact, RarCutKeeps, RarPageIsItsOwn DEF RarIsRead
<1> QED  BY <1>1, RarInitInv, RarStep, PTL DEF rarSpec

-----------------------------------------------------------------------------

\* Where the parts of an HV3 container are.
HvPartsAre(s) ==
  LET n == Len(s.sizes)
      h == Len(Heading(s))
  IN  /\ n \in Nat /\ DOMAIN s.sizes = 1..n /\ h \in 2..4
      /\ \A i \in 1..n : s.sizes[i] \in Nat
      /\ BodyAt(s) = h + 1 + n /\ HvBlockAt(s, 1) = h + 1 + n
      /\ \A i \in 1..(n + 1) : HvBlockAt(s, i) \in Nat /\ h + 1 + n <= HvBlockAt(s, i)
      /\ \A i \in 1..n : HvBlockAt(s, i + 1) = HvBlockAt(s, i) + 1 + s.sizes[i]
      /\ \A i, j \in 1..(n + 1) : i <= j => HvBlockAt(s, i) <= HvBlockAt(s, j)

\* What a heading has: at most one stray LIST, before a title, and the ENCR chunk
\* at its end.
HeadingHas(s) ==
  LET h == Len(Heading(s))
      c == Heading(s)
  IN  /\ h \in 2..4 /\ c[1].t = "HV30"
      /\ \A k \in 1..h : /\ c[k].t \in {"HV30", "text", "LIST", "ENCR"}
                         /\ c[k].t = "LIST" => k = 2 /\ h >= 3 /\ c[3].t = "text" /\ c[k].len \in Nat
                         /\ c[k].t = "ENCR" => s.encr /\ k = h
      /\ s.encr => c[h].t = "ENCR" /\ c[h].mode = s.mode

LEMMA HeadingIs ==
  ASSUME NEW s, s.stray \in {"no", "bare", "fits", "huge"}, s.encr \in BOOLEAN
  PROVE  HeadingHas(s)
<1> DEFINE e == Encr(s.mode)
           l == IF s.stray = "bare" THEN ListChunk(0) ELSE IF s.stray = "fits" THEN ListChunk(1)
                ELSE ListChunk(99)
           sig == Signature
           text == Title
           c == Heading(s)
<1>1. sig.t = "HV30" /\ text.t = "text" /\ e.t = "ENCR" /\ e.mode = s.mode /\ l.t = "LIST" /\ l.len \in Nat
  BY DEF Signature, Title, Encr, ListChunk
<1>2. c = <<sig>> \o (IF s.stray = "no" THEN <<text>> ELSE <<l, text>>)
                  \o (IF s.encr THEN <<e>> ELSE <<>>)
  <2> DEFINE front == CASE s.stray = "no" -> <<text>>
                        [] s.stray = "bare" -> <<ListChunk(0), text>>
                        [] s.stray = "fits" -> <<ListChunk(1), text>>
                        [] s.stray = "huge" -> <<ListChunk(99), text>>
  <2>1. front = IF s.stray = "no" THEN <<text>> ELSE <<l, text>>
    <3> HIDE DEF sig, text
    <3> USE DEF ListChunk
    <3>1. CASE s.stray = "no"
      BY <3>1
    <3>2. CASE s.stray = "bare"
      BY <3>2
    <3>3. CASE s.stray = "fits"
      BY <3>3
    <3>4. CASE s.stray = "huge"
      BY <3>4
    <3> QED  BY <3>1, <3>2, <3>3, <3>4
  <2>2. c = <<sig>> \o front \o (IF s.encr THEN <<e>> ELSE <<>>)
    BY DEF Heading
  <2> HIDE DEF front, c
  <2> QED  BY <2>1, <2>2
<1> HIDE DEF e, l, sig, text, c
<1>3. CASE s.stray = "no" /\ s.encr
  <2>1. c = <<sig>> \o <<text>> \o <<e>>
    BY <1>2, <1>3
  <2>2. Len(c) = 3 /\ c[1] = sig /\ c[2] = text /\ c[3] = e
    BY ONLY <2>1
  <2> QED  BY <1>1, <1>3, <2>2 DEF HeadingHas, c
<1>4. CASE s.stray = "no" /\ ~ s.encr
  <2>1. c = <<sig>> \o <<text>> \o <<>>
    BY <1>2, <1>4
  <2>2. Len(c) = 2 /\ c[1] = sig /\ c[2] = text
    BY ONLY <2>1
  <2> QED  BY <1>1, <1>4, <2>2 DEF HeadingHas, c
<1>5. CASE s.stray # "no" /\ s.encr
  <2>1. c = <<sig>> \o <<l, text>> \o <<e>>
    BY <1>2, <1>5
  <2>2. Len(c) = 4 /\ c[1] = sig /\ c[2] = l /\ c[3] = text /\ c[4] = e
    BY ONLY <2>1
  <2> QED  BY <1>1, <1>5, <2>2 DEF HeadingHas, c
<1>6. CASE s.stray # "no" /\ ~ s.encr
  <2>1. c = <<sig>> \o <<l, text>> \o <<>>
    BY <1>2, <1>6
  <2>2. Len(c) = 3 /\ c[1] = sig /\ c[2] = l /\ c[3] = text
    BY ONLY <2>1
  <2> QED  BY <1>1, <1>6, <2>2 DEF HeadingHas, c
<1> QED  BY <1>3, <1>4, <1>5, <1>6

LEMMA HvShapesAre ==
  ASSUME NEW s \in HvShapes
  PROVE  HvPartsAre(s) /\ HeadingHas(s) /\ s.sizes \in Seq(Nat) /\ s.mode \in Nat /\ s.encr \in BOOLEAN
         /\ s.short \in Nat
<1>1. s.sizes \in UNION {[1..n -> HvPayloads] : n \in 0..MaxFiles} /\ s.encr \in BOOLEAN
      /\ s.stray \in {"no", "bare", "fits", "huge"} /\ s.mode \in Modes /\ s.short \in 0..MaxFiles
  BY DEF HvShapes
<1>2. s.sizes \in Seq(Nat) /\ DOMAIN s.sizes = 1..Len(s.sizes) /\ Len(s.sizes) \in Nat
  <2> DEFINE z == s.sizes
  <2>1. HvPayloads \in SUBSET Nat /\ MaxFiles \in Nat
    BY HvAssumption
  <2>2. z \in UNION {[1..n -> HvPayloads] : n \in 0..MaxFiles}
    BY <1>1
  <2> HIDE DEF z
  <2>3. z \in Seq(Nat) /\ DOMAIN z = 1..Len(z) /\ Len(z) \in Nat
    BY <2>1, <2>2, SizesAre
  <2> QED  BY <2>3 DEF z
<1> DEFINE n == Len(s.sizes)
           h == Len(Heading(s))
           b == BodyAt(s)
<1>3. HeadingHas(s)
  BY <1>1, HeadingIs
<1>4. h \in 2..4 /\ n \in Nat /\ b = h + 1 + n /\ b \in Nat
  <2>1. h \in 2..4 /\ n \in Nat
    BY <1>2, <1>3 DEF HeadingHas
  <2>2. b = h + 1 + n
    BY DEF BodyAt
  <2> HIDE DEF h, n, b
  <2> QED  BY <2>1, <2>2
<1>5. \A i \in 1..n : s.sizes[i] \in Nat
  BY <1>2
<1> HIDE DEF h, b
<1>6. /\ HvBlockAt(s, 1) = b
      /\ \A i \in 1..(n + 1) : HvBlockAt(s, i) \in Nat
      /\ \A i \in 1..n : HvBlockAt(s, i + 1) = HvBlockAt(s, i) + 1 + s.sizes[i]
  BY <1>2, <1>4, BlocksAreLaid DEF HvBlockAt, Laid, b
<1>7. \A i, j \in 1..(n + 1) : i <= j => HvBlockAt(s, i) <= HvBlockAt(s, j)
  BY <1>2, <1>4, BlocksRise DEF HvBlockAt, b
<1>8. \A i \in 1..(n + 1) : b <= HvBlockAt(s, i)
  <2>1. \A i \in 1..(n + 1) : 1 \in 1..(n + 1) /\ 1 <= i
    BY <1>4
  <2> QED  BY <1>6, <1>7, <2>1
<1>9. HvPartsAre(s)
  BY <1>2, <1>4, <1>5, <1>6, <1>7, <1>8 DEF HvPartsAre, h, b
<1>10. s.mode \in Nat /\ s.short \in Nat
  <2>1. Modes \subseteq Nat /\ MaxFiles \in Nat
    BY HvAssumption
  <2> DEFINE m == s.mode
             k == s.short
  <2>2. m \in Modes /\ k \in 0..MaxFiles
    BY <1>1
  <2> HIDE DEF m, k
  <2>3. m \in Nat
    BY <2>1, <2>2
  <2>4. k \in Nat
    BY <2>1, <2>2
  <2> QED  BY <2>3, <2>4 DEF m, k
<1> QED  BY <1>1, <1>2, <1>3, <1>9, <1>10

LEMMA ContainerIs ==
  ASSUME NEW s \in HvShapes
  PROVE  LET n == Len(s.sizes)
             h == Len(Heading(s))
             g == Container(s)
         IN  /\ Len(g) = HvBlockAt(s, n + 1) /\ Len(g) \in Nat \ {0}
             /\ g = [k \in 1..Len(g) |-> g[k]]
             /\ \A k \in 1..Len(g) : /\ k <= h => g[k] = Heading(s)[k]
                                     /\ k = h + 1 => g[k] = ListChunk(n)
                                     /\ k > h + 1 /\ k <= h + 1 + n => g[k] = RecordOf(s, k - h - 1)
                                     /\ k > h + 1 + n => g[k] = BodyCell(s, k - 1)
<1> DEFINE n == Len(s.sizes)
           h == Len(Heading(s))
           g == Container(s)
           N == HvBlockAt(s, n + 1)
<1>1. n \in Nat /\ h \in 2..4 /\ N \in Nat /\ h + 1 + n <= N
  <2>1. HvPartsAre(s)
    BY HvShapesAre
  <2>2. n \in Nat /\ h \in 2..4 /\ \A i \in 1..(n + 1) : HvBlockAt(s, i) \in Nat /\ h + 1 + n <= HvBlockAt(s, i)
    BY <2>1 DEF HvPartsAre
  <2> HIDE DEF n, h
  <2>3. n + 1 \in 1..(n + 1)
    BY <2>2
  <2> QED  BY <2>2, <2>3
<1>2. g = [k \in 1..N |->
         CASE k <= h -> Heading(s)[k]
           [] k = h + 1 -> ListChunk(n)
           [] k > h + 1 /\ k <= h + 1 + n -> RecordOf(s, k - h - 1)
           [] OTHER -> BodyCell(s, k - 1)]
  BY DEF Container
<1> HIDE DEF n, h, g, N
<1>3. Len(g) = N /\ g = [k \in 1..Len(g) |-> g[k]] /\ Len(g) \in Nat \ {0}
  BY <1>1, <1>2
<1>4. ASSUME NEW k \in 1..Len(g)
      PROVE  /\ k <= h => g[k] = Heading(s)[k]
             /\ k = h + 1 => g[k] = ListChunk(n)
             /\ k > h + 1 /\ k <= h + 1 + n => g[k] = RecordOf(s, k - h - 1)
             /\ k > h + 1 + n => g[k] = BodyCell(s, k - 1)
  <2>1. k \in Nat /\ h \in Nat
    BY <1>1, <1>3
  <2>2. g[k] = CASE k <= h -> Heading(s)[k]
                 [] k = h + 1 -> ListChunk(n)
                 [] k > h + 1 /\ k <= h + 1 + n -> RecordOf(s, k - h - 1)
                 [] OTHER -> BodyCell(s, k - 1)
    BY <1>2, <1>3
  <2>3. k <= h => g[k] = Heading(s)[k]
    BY <1>1, <2>1, <2>2
  <2>4. k = h + 1 => g[k] = ListChunk(n)
    BY <1>1, <2>1, <2>2
  <2>5. k > h + 1 /\ k <= h + 1 + n => g[k] = RecordOf(s, k - h - 1)
    BY <1>1, <2>1, <2>2
  <2>6. k > h + 1 + n => g[k] = BodyCell(s, k - 1)
    BY <1>1, <2>1, <2>2
  <2> QED  BY <2>3, <2>4, <2>5, <2>6
<1>5. /\ Len(g) = N /\ Len(g) \in Nat \ {0}
      /\ g = [k \in 1..Len(g) |-> g[k]]
      /\ \A k \in 1..Len(g) : /\ k <= h => g[k] = Heading(s)[k]
                              /\ k = h + 1 => g[k] = ListChunk(n)
                              /\ k > h + 1 /\ k <= h + 1 + n => g[k] = RecordOf(s, k - h - 1)
                              /\ k > h + 1 + n => g[k] = BodyCell(s, k - 1)
  BY <1>3, <1>4
<1> QED  BY <1>5 DEF n, h, g, N

\* What is in a container, as far as it goes.
BlockHas(f, s, i, o) ==
  Cell(f, o) = IF o = HvBlockAt(s, i) THEN FileBlock(s.sizes[i]) ELSE Stored(i, o - HvBlockAt(s, i) - 1, s.mode)
InBlock(s, i, o) == HvBlockAt(s, i) <= o /\ o < HvBlockAt(s, i + 1)
HvHolds(f, s) ==
  LET n == Len(s.sizes)
      h == Len(Heading(s))
      N == Len(f)
  IN  /\ N \in Nat \ {0}
      /\ \A k \in 1..N : k <= h => f[k] = Heading(s)[k]
      /\ h + 1 <= N => f[h + 1] = ListChunk(n)
      /\ \A i \in 1..n : h + 1 + i <= N => f[h + 1 + i] = RecordOf(s, i)
      /\ \A o \in Nat : h + 1 + n <= o /\ o < N => \E i \in 1..n : InBlock(s, i, o)
      /\ \A i \in 1..n, o \in Nat : o < N /\ InBlock(s, i, o) => BlockHas(f, s, i, o)

LEMMA ContainerHolds ==
  ASSUME NEW s \in HvShapes, NEW f, StartOf(f, Container(s))
  PROVE  HvHolds(f, s)
<1> DEFINE n == Len(s.sizes)
           h == Len(Heading(s))
           z == s.sizes
           b == BodyAt(s)
           g == Container(s)
           N == Len(f)
           B(i) == HvBlockAt(s, i)
<1>1. /\ n \in Nat /\ h \in 2..4 /\ b = h + 1 + n /\ z \in Seq(Nat) /\ DOMAIN z = 1..n
      /\ \A i \in 1..(n + 1) : B(i) \in Nat /\ b <= B(i)
  BY HvShapesAre DEF HvPartsAre
<1>2. /\ Len(g) = B(n + 1) /\ Len(g) \in Nat \ {0}
      /\ \A k \in 1..Len(g) : /\ k <= h => g[k] = Heading(s)[k]
                              /\ k = h + 1 => g[k] = ListChunk(n)
                              /\ k > h + 1 /\ k <= h + 1 + n => g[k] = RecordOf(s, k - h - 1)
                              /\ k > h + 1 + n => g[k] = BodyCell(s, k - 1)
  BY ContainerIs
<1>3. N \in Nat \ {0} /\ N <= Len(g) /\ \A k \in 1..N : f[k] = g[k]
  BY DEF StartOf
<1>4. \A i : B(i) = BlockAt(z, b, i)
  BY DEF HvBlockAt
<1>5. \A i, o : BlockOf(z, b, o) = i =>
        BodyCell(s, o) = IF o = B(i) THEN FileBlock(z[i]) ELSE Stored(i, o - B(i) - 1, s.mode)
  BY DEF BodyCell
<1> HIDE DEF n, h, z, b, g, N, B
<1>6. \A k \in 1..N : /\ k <= h => f[k] = Heading(s)[k]
                      /\ k = h + 1 => f[k] = ListChunk(n)
                      /\ k > h + 1 /\ k <= h + 1 + n => f[k] = RecordOf(s, k - h - 1)
                      /\ k > h + 1 + n => f[k] = BodyCell(s, k - 1)
  <2>1. \A k \in 1..N : k \in 1..Len(g)
    BY <1>2, <1>3
  <2> QED  BY <1>2, <1>3, <2>1
<1>7. h + 1 <= N => f[h + 1] = ListChunk(n)
  <2>1. h + 1 <= N => h + 1 \in 1..N
    BY <1>1, <1>3
  <2> QED  BY <1>6, <2>1
<1>8. ASSUME NEW i \in 1..n, h + 1 + i <= N
      PROVE  f[h + 1 + i] = RecordOf(s, i)
  <2>1. h \in Nat /\ n \in Nat /\ N \in Nat /\ i \in 1..n /\ h + 1 + i <= N
    BY <1>1, <1>3, <1>8
  <2>2. h + 1 + i \in 1..N /\ h + 1 + i > h + 1 /\ h + 1 + i <= h + 1 + n /\ (h + 1 + i) - h - 1 = i
    BY ONLY <2>1
  <2> QED  BY <1>6, <2>2
<1>9. b \in Nat
  BY <1>1
<1>10. \A o \in Nat : /\ \A i \in 1..n : B(i) <= o /\ o < B(i + 1) => BlockOf(z, b, o) = i
                      /\ b <= o /\ o < B(n + 1) => \E i \in 1..n : B(i) <= o /\ o < B(i + 1)
  <2>1. Len(z) = n
    BY DEF n, z
  <2> QED  BY <1>1, <1>4, <1>9, <2>1, BlockOfIs
<1>11. ASSUME NEW o \in Nat, b <= o, o < N
       PROVE  \E i \in 1..n : B(i) <= o /\ o < B(i + 1)
  <2>1. N \in Nat /\ N <= B(n + 1) /\ B(n + 1) \in Nat
    <3>1. n + 1 \in 1..(n + 1)
      BY <1>1
    <3> QED  BY <1>1, <1>2, <1>3, <3>1
  <2>2. o \in Nat /\ b <= o /\ o < N
    BY <1>11
  <2>3. o < B(n + 1)
    BY ONLY <2>1, <2>2
  <2> QED  BY <1>10, <2>2, <2>3
<1>12. ASSUME NEW i \in 1..n, NEW o \in Nat, o < N, B(i) <= o, o < B(i + 1)
       PROVE  Cell(f, o) = IF o = B(i) THEN FileBlock(z[i]) ELSE Stored(i, o - B(i) - 1, s.mode)
  <2>1. i \in 1..(n + 1)
    BY <1>1
  <2>2. b <= B(i) /\ B(i) \in Nat
    BY <1>1, <2>1
  <2>6. /\ h \in Nat /\ n \in Nat /\ N \in Nat /\ o \in Nat /\ b = h + 1 + n
        /\ o < N /\ b <= B(i) /\ B(i) <= o
    BY <1>1, <1>3, <1>12, <2>2
  <2>3. o + 1 \in 1..N /\ o + 1 > h + 1 + n /\ (o + 1) - 1 = o
    BY ONLY <2>2, <2>6
  <2>4. f[o + 1] = BodyCell(s, o)
    BY <1>6, <2>3
  <2>5. BlockOf(z, b, o) = i
    BY <1>10, <1>12
  <2> QED  BY <1>5, <2>4, <2>5 DEF Cell
<1>13. \A k \in 1..N : k <= h => f[k] = Heading(s)[k]
  BY <1>6
<1>14. \A o \in Nat : h + 1 + n <= o /\ o < N => \E i \in 1..n : InBlock(s, i, o)
  BY <1>1, <1>11 DEF InBlock, B
<1>15. \A i \in 1..n, o \in Nat : o < N /\ InBlock(s, i, o) => BlockHas(f, s, i, o)
  BY <1>12 DEF InBlock, BlockHas, B, z
<1> QED  BY <1>3, <1>7, <1>8, <1>13, <1>14, <1>15 DEF HvHolds, n, h, N

LEMMA LowestIs ==
  ASSUME NEW S \in SUBSET Int, NEW x \in S, \A y \in S : x <= y
  PROVE  Lowest(S) = x
<1>1. ASSUME NEW w \in S, \A y \in S : w <= y
      PROVE  w = x
  <2>1. w \in Int /\ x \in Int /\ w <= x /\ x <= w
    BY <1>1
  <2> QED  BY <2>1
<1> QED  BY <1>1 DEF Lowest

LEMMA LowestOf ==
  ASSUME NEW S \in SUBSET Nat, S # {}
  PROVE  Lowest(S) \in S /\ \A y \in S : Lowest(S) <= y
<1>1. \E x \in S : \A y \in S : x <= y
  BY Least
<1> QED  BY <1>1 DEF Lowest

\* What the cells of each part are.
LEMMA CellsAre ==
  ASSUME NEW s \in HvShapes, NEW f, HvHolds(f, s)
  PROVE  LET n == Len(s.sizes)
             h == Len(Heading(s))
             N == Len(f)
         IN  /\ \A k \in 1..N : /\ k <= h => f[k].t \in {"HV30", "text", "LIST", "ENCR"}
                                /\ k = h + 1 => f[k].t = "LIST" /\ f[k].len = n
                                /\ k > h + 1 /\ k <= h + 1 + n => f[k].t = "FINF"
                                /\ k > h + 1 + n => f[k].t \in {"FILE", "byte"}
                                /\ f[k].t = "LIST" => f[k].len \in Nat
                                /\ f[k].t = "FINF" => f[k].off \in Nat
             /\ \A o \in Nat : o < N /\ Cell(f, o).t = "FILE" =>
                  \E i \in 1..n : o = HvBlockAt(s, i) /\ Cell(f, o).len = s.sizes[i]
<1> DEFINE n == Len(s.sizes)
           h == Len(Heading(s))
           N == Len(f)
<1>1. n \in Nat /\ h \in 2..4 /\ \A i \in 1..(n + 1) : HvBlockAt(s, i) \in Nat
  BY HvShapesAre DEF HvPartsAre
<1>2. \A k \in 1..h : /\ Heading(s)[k].t \in {"HV30", "text", "LIST", "ENCR"}
                      /\ Heading(s)[k].t = "LIST" => Heading(s)[k].len \in Nat
  BY HvShapesAre DEF HeadingHas
<1>3. /\ N \in Nat \ {0}
      /\ \A k \in 1..N : k <= h => f[k] = Heading(s)[k]
      /\ h + 1 <= N => f[h + 1] = ListChunk(n)
      /\ \A i \in 1..n : h + 1 + i <= N => f[h + 1 + i] = RecordOf(s, i)
      /\ \A o \in Nat : h + 1 + n <= o /\ o < N => \E i \in 1..n : InBlock(s, i, o)
      /\ \A i \in 1..n, o \in Nat : o < N /\ InBlock(s, i, o) => BlockHas(f, s, i, o)
  BY DEF HvHolds
<1> HIDE DEF n, h, N
<1>4. ASSUME NEW k \in 1..N, k <= h
      PROVE  f[k].t \in {"HV30", "text", "LIST", "ENCR"} /\ (f[k].t = "LIST" => f[k].len \in Nat)
  <2>1. k \in 1..h
    BY <1>1, <1>3, <1>4
  <2> QED  BY <1>2, <1>3, <1>4, <2>1
<1>5. ASSUME NEW k \in 1..N, k = h + 1
      PROVE  f[k].t = "LIST" /\ f[k].len = n
  <2>1. f[k] = ListChunk(n)
    BY <1>3, <1>5
  <2> QED  BY <2>1 DEF ListChunk
<1>6. ASSUME NEW k \in 1..N, k > h + 1, k <= h + 1 + n
      PROVE  f[k].t = "FINF" /\ f[k].off \in Nat
  <2> DEFINE i == k - h - 1
  <2>1. i \in 1..n /\ k = h + 1 + i /\ i \in 1..(n + 1)
    BY <1>1, <1>3, <1>6
  <2>2. f[k] = RecordOf(s, i)
    BY <1>3, <2>1
  <2> HIDE DEF i
  <2>3. f[k].t = "FINF" /\ f[k].off = HvBlockAt(s, i)
    BY <2>2 DEF RecordOf, Finf
  <2> QED  BY <1>1, <2>1, <2>3
<1>7. ASSUME NEW o \in Nat, o < N, h + 1 + n <= o
      PROVE  /\ Cell(f, o).t \in {"FILE", "byte"}
             /\ Cell(f, o).t = "FILE" => \E i \in 1..n : o = HvBlockAt(s, i) /\ Cell(f, o).len = s.sizes[i]
  <2>1. PICK i \in 1..n : InBlock(s, i, o)
    BY <1>3, <1>7
  <2>2. Cell(f, o) = IF o = HvBlockAt(s, i) THEN FileBlock(s.sizes[i]) ELSE Stored(i, o - HvBlockAt(s, i) - 1, s.mode)
    BY <1>3, <1>7, <2>1 DEF BlockHas
  <2>3. CASE o = HvBlockAt(s, i)
    BY <2>2, <2>3 DEF FileBlock
  <2>4. CASE o # HvBlockAt(s, i)
    BY <2>2, <2>4 DEF Stored
  <2> QED  BY <2>3, <2>4
<1>8. ASSUME NEW k \in 1..N, k > h + 1 + n
      PROVE  f[k].t \in {"FILE", "byte"}
  <2>1. k - 1 \in Nat /\ k - 1 < N /\ h + 1 + n <= k - 1 /\ (k - 1) + 1 = k
    BY <1>1, <1>3, <1>8
  <2>2. Cell(f, k - 1).t \in {"FILE", "byte"}
    BY <1>7, <2>1
  <2> QED  BY <2>1, <2>2 DEF Cell
<1>9. ASSUME NEW k \in 1..N
      PROVE  /\ f[k].t = "LIST" => f[k].len \in Nat
             /\ f[k].t = "FINF" => f[k].off \in Nat
  <2>1. k <= h \/ k = h + 1 \/ (k > h + 1 /\ k <= h + 1 + n) \/ k > h + 1 + n
    BY <1>1, <1>3
  <2>2. CASE k <= h
    BY <1>4, <2>2
  <2>3. CASE k = h + 1
    BY <1>1, <1>5, <2>3
  <2>4. CASE k > h + 1 /\ k <= h + 1 + n
    BY <1>6, <2>4
  <2>5. CASE k > h + 1 + n
    BY <1>8, <2>5
  <2> QED  BY <2>1, <2>2, <2>3, <2>4, <2>5
<1>10. ASSUME NEW o \in Nat, o < N, Cell(f, o).t = "FILE"
       PROVE  \E i \in 1..n : o = HvBlockAt(s, i) /\ Cell(f, o).len = s.sizes[i]
  <2>1. CASE h + 1 + n <= o
    BY <1>7, <1>10, <2>1
  <2>2. CASE ~ (h + 1 + n <= o)
    <3> DEFINE k == o + 1
    <3>1. k \in 1..N /\ (k <= h \/ k = h + 1 \/ (k > h + 1 /\ k <= h + 1 + n))
      BY <1>1, <1>3, <1>10, <2>2
    <3>2. f[k].t = "FILE"
      BY <1>10 DEF Cell
    <3> HIDE DEF k
    <3>3. f[k].t \in {"HV30", "text", "LIST", "ENCR", "FINF"}
      BY <1>4, <1>5, <1>6, <3>1
    <3> QED  BY <3>2, <3>3
  <2> QED  BY <2>1, <2>2
<1> QED  BY <1>4, <1>5, <1>6, <1>8, <1>9, <1>10 DEF n, h, N

\* The window: the cells a container begins with.
LEMMA WindowIs ==
  ASSUME NEW f, f \in Seq({f[k] : k \in DOMAIN f}), Len(f) \in Nat \ {0}
  PROVE  LET w == readWindow(f)
         IN  /\ Len(w) \in Nat \ {0} /\ Len(w) <= Len(f)
             /\ Len(w) >= Window \/ Len(w) = Len(f)
             /\ \A k \in 1..Len(w) : w[k] = f[k]
<1> DEFINE m == IF Len(f) < Window THEN Len(f) ELSE Window
           w == readWindow(f)
           N == Len(f)
<1>1. Window \in Nat /\ Window >= 5
  BY HvAssumption
<1>2. m \in Nat \ {0} /\ m <= N /\ (m >= Window \/ m = N) /\ N \in Nat
  BY <1>1
<1>3. w = SubSeq(f, 1, m)
  BY DEF readWindow
<1> HIDE DEF m, w
<1>4. w = [k \in 1..m |-> f[k]]
  BY <1>2, <1>3
<1> HIDE DEF N
<1>5. Len(w) = m /\ \A k \in 1..m : w[k] = f[k]
  BY <1>2, <1>4
<1> QED  BY <1>2, <1>5 DEF N, w

\* The header of a container whose LIST has records, of which the first is there:
\* a stray LIST in a title is not taken for it.
LEMMA HeaderIsFound ==
  ASSUME NEW s \in HvShapes, WellMade(s), NEW f, StartOf(f, Container(s)), Len(s.sizes) # 0,
         Len(Heading(s)) + 2 <= Len(f),
         NEW size \in Int, size >= 0 => Len(Heading(s)) + 1 + Len(s.sizes) <= size
  PROVE  parseHeader(readWindow(f), size) =
           [found |-> TRUE, listOff |-> Len(Heading(s)), listSize |-> Len(s.sizes), mode |-> s.mode]
<1> DEFINE n == Len(s.sizes)
           h == Len(Heading(s))
           N == Len(f)
           c == Heading(s)
           w == readWindow(f)
           W == Len(w)
           backed == {o \in 1..(W - 1) : Backed(w, o, size)}
           encr == {o \in 0..(h - 1) : IsTag(w, o, "ENCR")}
<1>1. HvHolds(f, s)
  BY ContainerHolds
<1>2. /\ h \in 2..4 /\ c[1].t = "HV30" /\ n \in Nat /\ n > 0
      /\ \A k \in 1..h : /\ c[k].t = "LIST" => k = 2 /\ h >= 3 /\ c[3].t = "text"
                         /\ c[k].t = "ENCR" => s.encr /\ k = h
      /\ s.encr => c[h].t = "ENCR" /\ c[h].mode = s.mode
  <2>1. n \in Nat
    BY HvShapesAre DEF HvPartsAre
  <2>2. n > 0
    BY <2>1
  <2>3. HeadingHas(s)
    BY HvShapesAre
  <2> QED  BY <2>1, <2>2, <2>3 DEF HeadingHas
<1>3. /\ N \in Nat \ {0}
      /\ \A k \in 1..N : /\ k <= h => f[k] = c[k]
                         /\ k = h + 1 => f[k].t = "LIST" /\ f[k].len = n
                         /\ k > h + 1 /\ k <= h + 1 + n => f[k].t = "FINF"
  <2>1. N \in Nat \ {0} /\ \A k \in 1..N : k <= h => f[k] = c[k]
    BY <1>1 DEF HvHolds
  <2>2. \A k \in 1..N : /\ k = h + 1 => f[k].t = "LIST" /\ f[k].len = n
                        /\ k > h + 1 /\ k <= h + 1 + n => f[k].t = "FINF"
    BY <1>1, CellsAre
  <2> HIDE DEF n, h, N, c
  <2> QED  BY <2>1, <2>2
<1>4. f \in Seq({f[k] : k \in DOMAIN f})
  BY DEF StartOf
<1>5. /\ W \in Nat \ {0} /\ W <= N /\ h + 1 <= W
      /\ \A k \in 1..W : w[k] = f[k]
  <2>1. /\ W \in Nat \ {0} /\ W <= N /\ (W >= Window \/ W = N)
        /\ \A k \in 1..W : w[k] = f[k]
    BY <1>3, <1>4, WindowIs
  <2>2. Window \in Nat /\ Window >= 5
    BY HvAssumption
  <2> HIDE DEF W, N, h
  <2>3. h + 2 <= N
    BY DEF h, N
  <2>4. h + 1 <= W
    BY <1>2, <1>3, <2>1, <2>2, <2>3
  <2> QED  BY <2>1, <2>4
<1>6. h + 2 <= N /\ (size >= 0 => h + 1 + n <= size)
  OBVIOUS
<1>7. parseHeader(w, size) =
        LET bare == {o \in 1..(W - 1) : Bare(w, o, size)}
            at == IF backed # {} THEN Lowest(backed) ELSE IF bare # {} THEN Lowest(bare) ELSE -1
            limit == IF at >= 0 THEN at ELSE W
            e == {o \in 0..(limit - 1) : IsTag(w, o, "ENCR")}
        IN  [found |-> at >= 0, listOff |-> at,
             listSize |-> IF at >= 0 THEN Cell(w, at).len ELSE 0,
             mode |-> IF e = {} THEN modePlain ELSE Cell(w, Lowest(e)).mode]
  BY DEF parseHeader
<1> HIDE DEF n, h, N, c, w, W
<1>8. \A k \in 1..W : k \in 1..N
  BY <1>3, <1>5
<1>9. w[h + 1].t = "LIST" /\ w[h + 1].len = n
  <2>1. h + 1 \in 1..W
    BY <1>2, <1>5
  <2> QED  BY <1>3, <1>5, <1>8, <2>1
<1>10. Backed(w, h, size)
  <2>1. h >= 0 /\ h < W
    BY <1>2, <1>5
  <2>2. IsTag(w, h, "LIST") /\ Cell(w, h).len = n
    BY <1>9, <2>1 DEF IsTag, Cell, W
  <2>3. h + 1 < W => IsTag(w, h + 1, "FINF")
    <3>1. SUFFICES ASSUME h + 1 < W
                   PROVE  IsTag(w, h + 1, "FINF")
      OBVIOUS
    <3> DEFINE k == h + 2
    <3>2. k \in 1..W /\ k \in 1..N /\ k > h + 1 /\ k <= h + 1 + n /\ (h + 1) + 1 = k /\ h + 1 >= 0
      BY <1>2, <1>5, <1>8, <3>1
    <3> HIDE DEF k
    <3>3. w[k].t = "FINF"
      BY <1>3, <1>5, <3>2
    <3> QED  BY <3>1, <3>2, <3>3 DEF IsTag, Cell, W
  <2> QED  BY <1>2, <1>6, <2>2, <2>3 DEF Backed, W
<1>11. ASSUME NEW o \in 1..(W - 1), Backed(w, o, size)
       PROVE  h <= o
  <2> SUFFICES ASSUME ~ (h <= o)
               PROVE  FALSE
    OBVIOUS
  <2> DEFINE k == o + 1
  <2>1. k \in 1..W /\ k \in 1..h /\ o \in Nat
    BY <1>2, <1>5
  <2>2. w[k].t = "LIST"
    BY <1>11 DEF Backed, IsTag, Cell
  <2>3. c[k].t = "LIST"
    BY <1>3, <1>5, <1>8, <2>1, <2>2
  <2>4. k = 2 /\ h >= 3 /\ c[3].t = "text"
    BY <1>2, <2>1, <2>3
  <2>5. 3 \in 1..W /\ 3 \in 1..h /\ o = 1 /\ o + 1 < W /\ (o + 1) + 1 = 3
    BY <1>2, <1>5, <2>1, <2>4
  <2>6. w[3].t = "text"
    BY <1>3, <1>5, <1>8, <2>4, <2>5
  <2>7. IsTag(w, o + 1, "FINF")
    BY <1>11, <2>5 DEF Backed, W
  <2>8. w[(o + 1) + 1].t = "FINF"
    BY <2>7 DEF IsTag, Cell
  <2> QED  BY <2>5, <2>6, <2>8
<1>12. backed # {} /\ Lowest(backed) = h
  <2>1. h \in backed
    BY <1>2, <1>5, <1>10
  <2>2. \A o \in backed : h <= o
    BY <1>11
  <2>3. backed \in SUBSET Int
    BY <1>5
  <2> HIDE DEF backed
  <2> QED  BY <2>1, <2>2, <2>3, LowestIs
<1>13. Cell(w, h).len = n
  BY <1>9 DEF Cell
<1>14. (IF encr = {} THEN modePlain ELSE Cell(w, Lowest(encr)).mode) = s.mode
  <2>1. ASSUME NEW o \in 0..(h - 1), IsTag(w, o, "ENCR")
        PROVE  s.encr /\ o = h - 1
    <3> DEFINE k == o + 1
    <3>1. k \in 1..W /\ k \in 1..h
      BY <1>2, <1>5
    <3>2. w[k].t = "ENCR"
      BY <2>1 DEF IsTag, Cell
    <3>3. c[k].t = "ENCR"
      BY <1>3, <1>5, <1>8, <3>1, <3>2
    <3> QED  BY <1>2, <3>1, <3>3
  <2>2. CASE s.encr
    <3>1. h \in 1..W /\ h \in 1..h
      BY <1>2, <1>5
    <3>2. w[h].t = "ENCR" /\ w[h].mode = s.mode
      BY <1>2, <1>3, <1>5, <1>8, <2>2, <3>1
    <3>3. h - 1 \in 0..(h - 1) /\ (h - 1) + 1 = h /\ h - 1 < W /\ h - 1 >= 0
      BY <1>2, <1>5
    <3>4. IsTag(w, h - 1, "ENCR") /\ Cell(w, h - 1).mode = s.mode
      BY <3>2, <3>3 DEF IsTag, Cell, W
    <3>5. h - 1 \in encr
      BY <3>3, <3>4
    <3>6. \A o \in encr : h - 1 <= o
      BY <2>1, <3>3
    <3>7. encr \in SUBSET Int
      BY <1>2
    <3> HIDE DEF encr
    <3>8. Lowest(encr) = h - 1
      BY <3>5, <3>6, <3>7, LowestIs
    <3> QED  BY <3>4, <3>5, <3>8
  <2>3. CASE ~ s.encr
    <3>1. s.mode = modePlain
      BY <2>3 DEF WellMade
    <3>2. encr = {}
      BY <2>1, <2>3
    <3> QED  BY <3>1, <3>2
  <2> QED  BY <2>2, <2>3
<1>15. h >= 0
  BY <1>2
<1> HIDE DEF backed
<1>16. parseHeader(w, size) = [found |-> TRUE, listOff |-> h, listSize |-> n, mode |-> s.mode]
  BY <1>7, <1>12, <1>13, <1>14, <1>15
<1> QED  BY <1>16 DEF n, h, w

\* The records of a directory: what is read of them ends before the first that
\* lacks a field.
LEMMA RecordsLie ==
  ASSUME NEW m \in Nat, NEW meta, meta = [k \in 1..m |-> meta[k]], NEW mode, NEW size
  PROVE  LET r == parseRecords(meta, mode, size)
         IN  \A i \in DOMAIN r.entries : /\ i \in 1..m /\ Usable(meta[i], size)
                                         /\ r.entries[i].off = meta[i].off
<1> DEFINE r == parseRecords(meta, mode, size)
           bad == {k \in 1..m : ~ Usable(meta[k], size)}
           n == IF bad = {} THEN m ELSE Lowest(bad) - 1
           entry(k) == [id |-> meta[k].id, size |-> meta[k].size, off |-> meta[k].off, mode |-> mode]
<1>1. DOMAIN meta = 1..m /\ Len(meta) = m
  <2>1. DOMAIN meta = 1..m
    OBVIOUS
  <2>2. Len(meta) = m
    OBVIOUS
  <2> QED  BY <2>1, <2>2
<1>2. r = [entries |-> [k \in 1..n |-> entry(k)], ok |-> (bad = {})]
  BY <1>1 DEF parseRecords
<1>3. bad \in SUBSET Nat /\ bad \subseteq 1..m
  OBVIOUS
<1> HIDE DEF bad, n, entry, r
<1>4. bad # {} => Lowest(bad) \in bad /\ \A y \in bad : Lowest(bad) <= y
  BY <1>3, LowestOf
<1>5. ASSUME NEW i \in 1..n
      PROVE  i \in 1..m /\ Usable(meta[i], size)
  <2>1. CASE bad = {}
    BY <1>5, <2>1 DEF n, bad
  <2>2. CASE bad # {}
    <3>1. n = Lowest(bad) - 1 /\ Lowest(bad) \in 1..m
      BY <1>3, <1>4, <2>2 DEF n
    <3>2. i \in 1..m /\ ~ (Lowest(bad) <= i)
      BY <3>1
    <3>3. i \notin bad
      BY <1>4, <2>2, <3>2
    <3> QED  BY <3>2, <3>3 DEF bad
  <2> QED  BY <2>1, <2>2
<1>6. r.entries = [k \in 1..n |-> entry(k)] /\ r.ok = (bad = {})
  BY <1>2
<1>7. ASSUME NEW i \in DOMAIN r.entries
      PROVE  i \in 1..m /\ Usable(meta[i], size) /\ r.entries[i].off = meta[i].off
  <2>1. i \in 1..n
    BY <1>6
  <2>2. r.entries[i] = entry(i)
    BY <1>6, <2>1
  <2>3. entry(i).off = meta[i].off
    BY DEF entry
  <2> QED  BY <1>5, <2>1, <2>2, <2>3
<1> QED  BY <1>7 DEF r

\* A directory of which one record, or none, lacks a field.
ReadTo(meta, m, mode, size, short) ==
  LET r == parseRecords(meta, mode, size)
  IN  /\ r.ok = (short = 0)
      /\ r.entries = [k \in 1..(IF short = 0 THEN m ELSE short - 1) |->
                        [id |-> meta[k].id, size |-> meta[k].size, off |-> meta[k].off, mode |-> mode]]
LEMMA RecordsAre ==
  ASSUME NEW m \in Nat, NEW meta, meta = [k \in 1..m |-> meta[k]], NEW mode, NEW size,
         NEW short \in 0..m, \A k \in 1..m : Usable(meta[k], size) <=> k # short
  PROVE  ReadTo(meta, m, mode, size, short)
<1> DEFINE r == parseRecords(meta, mode, size)
           bad == {k \in 1..m : ~ Usable(meta[k], size)}
           n == IF bad = {} THEN m ELSE Lowest(bad) - 1
           entry(k) == [id |-> meta[k].id, size |-> meta[k].size, off |-> meta[k].off, mode |-> mode]
<1>1. DOMAIN meta = 1..m /\ Len(meta) = m
  <2>1. DOMAIN meta = 1..m
    OBVIOUS
  <2>2. Len(meta) = m
    OBVIOUS
  <2> QED  BY <2>1, <2>2
<1>2. r = [entries |-> [k \in 1..n |-> entry(k)], ok |-> (bad = {})]
  BY <1>1 DEF parseRecords
<1>3. bad \in SUBSET Nat /\ bad \subseteq 1..m
  OBVIOUS
<1> HIDE DEF bad, n, entry, r
<1>4. bad # {} => Lowest(bad) \in bad /\ \A y \in bad : Lowest(bad) <= y
  BY <1>3, LowestOf
<1>6. r.entries = [k \in 1..n |-> entry(k)] /\ r.ok = (bad = {})
  BY <1>2
<1>8. /\ r.ok = (short = 0)
      /\ r.entries = [k \in 1..(IF short = 0 THEN m ELSE short - 1) |-> entry(k)]
  <2>1. CASE short = 0
    <3>1. bad = {}
      BY <2>1 DEF bad
    <3>2. n = m
      BY <3>1 DEF n
    <3>3. r.ok = TRUE
      BY <1>6, <3>1
    <3>4. (short = 0) = TRUE
      BY <2>1
    <3> QED  BY <1>6, <2>1, <3>2, <3>3, <3>4
  <2>2. CASE short # 0
    <3>1. short \in 1..m
      BY <2>2
    <3>2. bad = {short}
      BY <3>1 DEF bad
    <3>3. Lowest(bad) = short
      BY <1>4, <3>2
    <3>4. n = short - 1
      BY <3>2, <3>3 DEF n
    <3>5. (bad = {}) = FALSE
      BY <3>2
    <3>6. (short = 0) = FALSE
      BY <2>2
    <3> QED  BY <1>6, <2>2, <3>4, <3>5, <3>6
  <2> QED  BY <2>1, <2>2
<1> QED  BY <1>8 DEF ReadTo, r, entry

\* The part of a container a directory is read from.
LEMMA MetaIs ==
  ASSUME NEW f, f \in Seq({f[k] : k \in DOMAIN f}), NEW a \in Nat, NEW m \in Nat, a + 1 + m <= Len(f)
  PROVE  LET meta == SubSeq(f, a + 2, a + 1 + m)
         IN  meta = [k \in 1..m |-> meta[k]] /\ \A k \in 1..m : meta[k] = f[a + 1 + k]
<1> DEFINE from == a + 2
           to == a + 1 + m
           N == Len(f)
           meta == SubSeq(f, from, to)
<1>1. from \in Nat /\ to \in Nat /\ from >= 1 /\ to <= N /\ to - from + 1 = m /\ N \in Nat
  OBVIOUS
<1>2. \A k \in 1..m : from + k - 1 = a + 1 + k
  OBVIOUS
<1> HIDE DEF from, to
<1>3. meta = [k \in 1..m |-> f[from + k - 1]]
  BY <1>1
<1> HIDE DEF meta
<1>4. meta = [k \in 1..m |-> meta[k]] /\ \A k \in 1..m : meta[k] = f[a + 1 + k]
  BY <1>2, <1>3
<1> QED  BY <1>4 DEF meta, from, to

LEMMA WholeContainer ==
  ASSUME NEW s \in HvShapes
  PROVE  StartOf(Container(s), Container(s))
<1> DEFINE g == Container(s)
<1>1. Len(g) \in Nat \ {0} /\ g = [k \in 1..Len(g) |-> g[k]]
  BY ContainerIs
<1> HIDE DEF g
<1>2. g \in Seq({g[k] : k \in DOMAIN g})
  BY <1>1
<1>3. Len(g) <= Len(g)
  BY <1>1
<1> QED  BY <1>1, <1>2, <1>3 DEF StartOf, g

------------------------------------------------------------------------------
HvInv ==
  /\ hvMade \in HvShapes /\ WellMade(hvMade) /\ cut \in BOOLEAN
  /\ StartOf(hvFile, Container(hvMade))
  /\ ~ cut => hvFile = Container(hvMade)
  /\ \A i \in DOMAIN listed.entries : listed.entries[i].off \in Nat

LEMMA HvInitInv == hvInit => HvInv
<1> SUFFICES ASSUME hvInit
             PROVE  HvInv
  OBVIOUS
<1>1. hvMade \in HvShapes /\ WellMade(hvMade) /\ hvFile = Container(hvMade) /\ cut = FALSE /\ listed = NotRead
  BY DEF hvInit
<1>2. StartOf(hvFile, Container(hvMade))
  BY <1>1, WholeContainer
<1>3. DOMAIN listed.entries = {}
  BY <1>1 DEF NotRead
<1> QED  BY <1>1, <1>2, <1>3 DEF HvInv

\* Whatever is listed of a container, cut or not, lies somewhere in a file.
LEMMA ListedLies ==
  ASSUME NEW s \in HvShapes, NEW f, StartOf(f, Container(s))
  PROVE  LET r == hvReadIndex(f)
         IN  \A i \in DOMAIN r.entries : r.entries[i].off \in Nat
<1> DEFINE r == hvReadIndex(f)
           w == readWindow(f)
           W == Len(w)
           N == Len(f)
           backed == {o \in 1..(W - 1) : Backed(w, o, N)}
           bare == {o \in 1..(W - 1) : Bare(w, o, N)}
           at == IF backed # {} THEN Lowest(backed) ELSE IF bare # {} THEN Lowest(bare) ELSE -1
           h == parseHeader(w, N)
           a == h.listOff
           m == h.listSize
           meta == SubSeq(f, a + 2, a + 1 + m)
<1>1. HvHolds(f, s) /\ f \in Seq({f[k] : k \in DOMAIN f}) /\ N \in Nat \ {0}
  BY ContainerHolds DEF StartOf
<1>2. \A k \in 1..N : /\ f[k].t = "LIST" => f[k].len \in Nat
                      /\ f[k].t = "FINF" => f[k].off \in Nat
  <2> HIDE DEF N
  <2> QED  BY <1>1, CellsAre DEF N
<1>3. /\ W \in Nat \ {0} /\ W <= N
      /\ \A k \in 1..W : w[k] = f[k]
  BY <1>1, WindowIs
<1>4. h.found = (at >= 0) /\ a = at /\ m = IF at >= 0 THEN Cell(w, at).len ELSE 0
  BY DEF parseHeader
<1>5. CASE r = Refused
  <2>1. DOMAIN r.entries = {}
    BY <1>5 DEF Refused
  <2> QED  BY <2>1
<1>6. CASE r # Refused
  <2>1. h.found /\ ~ (a + 1 + m > N) /\ r = parseRecords(meta, h.mode, N)
    BY <1>6 DEF hvReadIndex
  <2> DEFINE mode == h.mode
  <2> HIDE DEF r, h, a, m, backed, bare, W, N, meta
  <2>2. at >= 0 /\ a = at /\ m = Cell(w, at).len
    BY <1>4, <2>1
  <2>3. at \in 1..(W - 1) /\ IsTag(w, at, "LIST")
    <3>1. backed \in SUBSET Nat /\ bare \in SUBSET Nat
      BY <1>3 DEF backed, bare
    <3>2. backed # {} => Lowest(backed) \in backed
      BY <3>1, LowestOf
    <3>3. bare # {} => Lowest(bare) \in bare
      BY <3>1, LowestOf
    <3>4. at \in backed \/ at \in bare
      BY <2>2, <3>2, <3>3
    <3> QED  BY <3>4 DEF backed, bare, Backed, Bare
  <2>4. a \in Nat /\ m \in Nat /\ a + 1 + m <= N
    <3> HIDE DEF at
    <3>1. at + 1 \in 1..W /\ at + 1 \in 1..N /\ at \in Nat
      BY <1>1, <1>3, <2>3
    <3>2. w[at + 1].t = "LIST"
      BY <2>3 DEF IsTag, Cell
    <3>3. m \in Nat
      BY <1>2, <1>3, <2>2, <3>1, <3>2 DEF Cell
    <3>4. a \in Nat
      BY <2>2, <3>1
    <3> QED  BY <1>1, <2>1, <3>3, <3>4
  <2> HIDE DEF at
  <2>5. meta = [k \in 1..m |-> meta[k]] /\ \A k \in 1..m : meta[k] = f[a + 1 + k]
    BY <1>1, <2>4, MetaIs DEF meta, N
  <2>7. \A i \in DOMAIN r.entries : i \in 1..m /\ Usable(meta[i], N) /\ r.entries[i].off = meta[i].off
    <3>1. r = parseRecords(meta, mode, N)
      BY <2>1
    <3> HIDE DEF mode
    <3>2. m \in Nat /\ meta = [k \in 1..m |-> meta[k]]
      BY <2>4, <2>5
    <3> HIDE DEF N
    <3>3. LET q == parseRecords(meta, mode, N)
          IN  \A i \in DOMAIN q.entries : i \in 1..m /\ Usable(meta[i], N) /\ q.entries[i].off = meta[i].off
      BY ONLY <3>2, RecordsLie
    <3> QED  BY <3>1, <3>3
  <2> QED
    <3> SUFFICES ASSUME NEW i \in DOMAIN r.entries
                 PROVE  r.entries[i].off \in Nat
      BY DEF r
    <3>1. i \in 1..m /\ meta[i].t = "FINF" /\ r.entries[i].off = meta[i].off
      BY <2>7 DEF Usable
    <3>2. a + 1 + i \in 1..N /\ meta[i] = f[a + 1 + i]
      BY <1>1, <2>4, <2>5, <3>1
    <3> QED  BY <1>2, <3>1, <3>2
<1> QED  BY <1>5, <1>6

LEMMA HvStep == HvInv /\ [hvNext]_hvVars => HvInv'
<1> SUFFICES ASSUME HvInv, [hvNext]_hvVars
             PROVE  HvInv'
  OBVIOUS
<1>0. hvMade \in HvShapes /\ StartOf(hvFile, Container(hvMade))
  BY DEF HvInv
<1>1. CASE Index
  <2> DEFINE r == hvReadIndex(hvFile)
  <2>1. \A i \in DOMAIN r.entries : r.entries[i].off \in Nat
    BY <1>0, ListedLies
  <2>2. listed' = [entries |-> r.entries, ok |-> r.ok, read |-> TRUE]
        /\ hvMade' = hvMade /\ hvFile' = hvFile /\ cut' = cut
    BY <1>1 DEF Index
  <2> HIDE DEF r
  <2>3. listed'.entries = r.entries
    BY <2>2
  <2> QED  BY <2>1, <2>2, <2>3 DEF HvInv
<1>2. CASE Cut
  <2>1. PICK k \in 1..(Len(hvFile) - 1) : hvFile' = SubSeq(hvFile, 1, k)
    BY <1>2 DEF Cut
  <2>2. StartOf(hvFile', Container(hvMade))
    BY <1>0, <2>1, StartOfStart
  <2>3. cut' = TRUE /\ hvMade' = hvMade /\ listed' = listed
    BY <1>2 DEF Cut
  <2> QED  BY <2>2, <2>3 DEF HvInv
<1>3. CASE Repack
  <2>1. PICK s \in HvShapes : WellMade(s) /\ hvMade' = s /\ hvFile' = Container(s)
    BY <1>3 DEF Repack
  <2>2. StartOf(hvFile', Container(hvMade'))
    BY <2>1, WholeContainer
  <2>3. cut' = cut /\ listed' = listed
    BY <1>3 DEF Repack
  <2> QED  BY <2>1, <2>2, <2>3 DEF HvInv
<1>4. CASE UNCHANGED hvVars
  BY <1>4 DEF HvInv, hvVars
<1> QED  BY <1>1, <1>2, <1>3, <1>4 DEF hvNext

\* A file that has the block of an entry is one that has its directory, and
\* what the block has is what was packed.
LEMMA HvServesNoNoise == HvInv => NeverServesNoise
<1> SUFFICES ASSUME HvInv, NEW i \in DOMAIN listed.entries, hvOpenEntry(hvFile, listed.entries[i]).ok
             PROVE  LET s == hvOpenEntry(hvFile, listed.entries[i])
                    IN  \A pos \in 0..(s.size - 1) :
                          LET bytes == ReadFrom(hvFile, s, pos, s.size)
                          IN  /\ \A k \in DOMAIN bytes :
                                   bytes[k].t = "byte" /\ ~ bytes[k].masked /\ bytes[k].at = k
                              /\ \A k, l \in DOMAIN bytes : bytes[k].id = bytes[l].id
                              /\ ~ cut => DOMAIN bytes = pos..(s.size - 1)
  BY DEF NeverServesNoise
<1> DEFINE e == listed.entries[i]
           f == hvFile
           p == hvMade
           n == Len(p.sizes)
           h == Len(Heading(p))
           N == Len(f)
           r == hvOpenEntry(f, e)
           off == e.off
           z == e.size
           mode == p.mode
           B(j) == HvBlockAt(p, j)
<1>1. p \in HvShapes /\ WellMade(p) /\ StartOf(f, Container(p)) /\ (~ cut => f = Container(p)) /\ off \in Nat
  BY DEF HvInv
<1>2. HvHolds(f, p)
  BY <1>1, ContainerHolds
<1>3. n \in Nat /\ h \in 2..4 /\ N \in Nat
      /\ (\A j \in 1..n : p.sizes[j] \in Nat)
      /\ (\A j \in 1..(n + 1) : B(j) \in Nat /\ h + 1 + n <= B(j))
      /\ (\A j \in 1..n : B(j + 1) = B(j) + 1 + p.sizes[j])
      /\ \A j, k \in 1..(n + 1) : j <= k => B(j) <= B(k)
  <2>1. HvPartsAre(p)
    BY <1>1, HvShapesAre
  <2>2. N \in Nat
    BY <1>2 DEF HvHolds
  <2> QED  BY <2>1, <2>2 DEF HvPartsAre
<1>4. IsTag(f, off, "FILE") /\ Cell(f, off).len = z
      /\ parseHeader(readWindow(f), -1).mode \in {modePlain, modeMasked}
      /\ r = [ok |-> TRUE, base |-> off + 1, size |-> z, mode |-> parseHeader(readWindow(f), -1).mode]
  <2>1. r.ok
    OBVIOUS
  <2>2. r # hvNoStream
    BY <2>1 DEF hvNoStream
  <2> HIDE DEF r
  <2> QED  BY <2>2 DEF hvOpenEntry, r
<1>5. off < N /\ Cell(f, off).t = "FILE"
  BY <1>4 DEF IsTag
<1> HIDE DEF n, h, N, r, off, z, mode, B, e, f, p
<1>6. PICK j \in 1..n : off = B(j) /\ z = p.sizes[j]
  <2>1. \A o \in Nat : o < N /\ Cell(f, o).t = "FILE" =>
          \E k \in 1..n : o = B(k) /\ Cell(f, o).len = p.sizes[k]
    BY <1>1, <1>2, CellsAre DEF n, N, B
  <2> QED  BY <1>1, <1>4, <1>5, <2>1
<1>7. j \in 1..(n + 1) /\ j + 1 \in 1..(n + 1) /\ n + 1 \in 1..(n + 1) /\ j + 1 <= n + 1 /\ n # 0 /\ n >= 1
  BY <1>3
<1>8. z \in Nat /\ B(j + 1) = off + 1 + z /\ h + 1 + n <= off
  BY <1>3, <1>6, <1>7
<1>9. parseHeader(readWindow(f), -1).mode = mode
  <2> DEFINE size == -1
  <2>1. size \in Int /\ ~ (size >= 0)
    OBVIOUS
  <2>2. h + 2 <= N
    BY <1>1, <1>3, <1>5, <1>7, <1>8
  <2> HIDE DEF size
  <2>3. Len(p.sizes) # 0 /\ Len(Heading(p)) + 2 <= Len(f)
    BY <1>7, <2>2 DEF n, h, N
  <2>4. size >= 0 => Len(Heading(p)) + 1 + Len(p.sizes) <= size
    BY <2>1
  <2>5. parseHeader(readWindow(f), size) =
           [found |-> TRUE, listOff |-> Len(Heading(p)), listSize |-> Len(p.sizes), mode |-> p.mode]
    BY <1>1, <2>1, <2>3, <2>4, HeaderIsFound
  <2>6. parseHeader(readWindow(f), size).mode = mode
    BY <2>5 DEF mode
  <2> QED  BY <2>6 DEF size
<1>10. r.base = off + 1 /\ r.size = z /\ r.mode = mode /\ mode \in {modePlain, modeMasked}
  BY <1>4, <1>9
<1>11. ASSUME NEW k \in Nat, k < z, off + 1 + k < N
       PROVE  Cell(f, off + 1 + k) = Stored(j, k, mode)
  <2> DEFINE o == off + 1 + k
  <2>1. o \in Nat /\ o < N /\ off <= o /\ o < off + 1 + z /\ o # off /\ o - off - 1 = k
    BY <1>1, <1>8, <1>11
  <2> HIDE DEF o
  <2>2. InBlock(p, j, o)
    BY <1>6, <1>8, <2>1 DEF InBlock, B
  <2>3. BlockHas(f, p, j, o)
    BY <1>2, <2>1, <2>2 DEF HvHolds, n, N
  <2>4. Cell(f, o) = Stored(j, o - off - 1, mode)
    BY <1>6, <2>1, <2>3 DEF BlockHas, B, mode
  <2> QED  BY <2>1, <2>4 DEF o
<1>12. ASSUME NEW pos \in 0..(z - 1)
       PROVE  LET bytes == ReadFrom(f, r, pos, z)
              IN  /\ \A k \in DOMAIN bytes :
                       bytes[k].t = "byte" /\ ~ bytes[k].masked /\ bytes[k].at = k
                  /\ \A k, l \in DOMAIN bytes : bytes[k].id = bytes[l].id
                  /\ ~ cut => DOMAIN bytes = pos..(z - 1)
  <2> DEFINE got == {k \in pos..(pos + z - 1) : k < z /\ off + 1 + k < N}
             bytes == ReadFrom(f, r, pos, z)
  <2>1. bytes = [k \in got |-> IF mode = modePlain THEN Cell(f, off + 1 + k) ELSE unmask(Cell(f, off + 1 + k), k)]
    BY <1>10 DEF ReadFrom, N
  <2>2. ASSUME NEW k \in got
        PROVE  bytes[k] = Stored(j, k, modePlain)
    <3>1. k \in Nat /\ k < z /\ off + 1 + k < N
      BY <1>8
    <3>2. Cell(f, off + 1 + k) = Stored(j, k, mode)
      BY <1>11, <3>1
    <3>3. bytes[k] = IF mode = modePlain THEN Stored(j, k, mode) ELSE unmask(Stored(j, k, mode), k)
      BY <2>1, <3>2
    <3>4. unmask(Stored(j, k, modeMasked), k) = Stored(j, k, modePlain)
      BY DEF unmask, Stored
    <3> QED  BY <1>10, <3>3, <3>4
  <2>3. \A k : Stored(j, k, modePlain).t = "byte" /\ Stored(j, k, modePlain).masked = FALSE
               /\ Stored(j, k, modePlain).at = k /\ Stored(j, k, modePlain).id = j
    <3>1. (modePlain = modeMasked) = FALSE
      BY DEF modePlain, modeMasked
    <3> QED  BY <3>1 DEF Stored
  <2>4. DOMAIN bytes = got
    BY <2>1
  <2>5. ~ cut => got = pos..(z - 1)
    <3> SUFFICES ASSUME ~ cut
                 PROVE  got = pos..(z - 1)
      OBVIOUS
    <3>1. N = B(n + 1)
      <4>1. Len(Container(p)) = HvBlockAt(p, Len(p.sizes) + 1)
        BY <1>1, ContainerIs
      <4> QED  BY <1>1, <4>1 DEF N, B, n
    <3>2. off + 1 + z <= N
      BY <1>3, <1>7, <1>8, <3>1
    <3>3. pos \in Nat
      BY <1>8
    <3>4. \A k \in pos..(z - 1) : k \in got
      BY <1>1, <1>3, <1>8, <3>2, <3>3
    <3>5. \A k \in got : k \in pos..(z - 1)
      BY <1>8, <3>3
    <3> HIDE DEF got
    <3> QED  BY <3>4, <3>5
  <2> HIDE DEF bytes, got
  <2> QED  BY <2>2, <2>3, <2>4, <2>5 DEF bytes
<1> QED  BY <1>10, <1>12 DEF r, e, f

\* A container of no files: its LIST is empty, as a stray one may be, and either
\* of them is a directory of nothing.
LEMMA EmptyIsListed ==
  ASSUME NEW s \in HvShapes, WellMade(s), Len(s.sizes) = 0
  PROVE  LET r == hvReadIndex(Container(s))
         IN  /\ DOMAIN r.entries = {} /\ r.entries = <<>>
             /\ s.mode \in {modePlain, modeMasked} => r.ok
<1> DEFINE f == Container(s)
           c == Heading(s)
           h == Len(c)
           w == readWindow(f)
           W == Len(w)
           N == Len(f)
           backed == {o \in 1..(W - 1) : Backed(w, o, N)}
           bare == {o \in 1..(W - 1) : Bare(w, o, N)}
           at == IF backed # {} THEN Lowest(backed) ELSE IF bare # {} THEN Lowest(bare) ELSE -1
           limit == IF at >= 0 THEN at ELSE W
           encr == {o \in 0..(limit - 1) : IsTag(w, o, "ENCR")}
           H == parseHeader(w, N)
           a == H.listOff
           m == H.listSize
           r == hvReadIndex(f)
<1>1. StartOf(f, f) /\ HvHolds(f, s)
  BY WholeContainer, ContainerHolds
<1>2. h \in 2..4 /\ N = h + 1
  <2>1. h \in 2..4 /\ HvBlockAt(s, 1) = h + 1 + Len(s.sizes)
    BY HvShapesAre DEF HvPartsAre
  <2>2. N = HvBlockAt(s, Len(s.sizes) + 1)
    BY ContainerIs
  <2>3. Len(s.sizes) + 1 = 1
    OBVIOUS
  <2> HIDE DEF h, N
  <2> QED  BY <2>1, <2>2, <2>3
<1>3. /\ c[1].t = "HV30"
      /\ \A k \in 1..h : /\ c[k].t \in {"HV30", "text", "LIST", "ENCR"}
                         /\ c[k].t = "LIST" => k = 2 /\ h >= 3 /\ c[3].t = "text" /\ c[k].len \in Nat
                         /\ c[k].t = "ENCR" => s.encr /\ k = h
      /\ s.encr => c[h].mode = s.mode
  BY HvShapesAre DEF HeadingHas
<1>4. /\ \A k \in 1..N : k <= h => f[k] = c[k]
      /\ f[h + 1].t = "LIST" /\ f[h + 1].len = 0
  <2>1. \A k \in 1..N : k <= h => f[k] = c[k]
    BY <1>1 DEF HvHolds
  <2>2. h + 1 <= N => f[h + 1] = ListChunk(Len(s.sizes))
    BY <1>1 DEF HvHolds
  <2>3. h + 1 <= N
    BY <1>2
  <2> HIDE DEF h, f, N
  <2>4. f[h + 1] = ListChunk(0)
    BY <2>2, <2>3
  <2> QED  BY <2>1, <2>4 DEF ListChunk
<1>5. W = N /\ \A k \in 1..N : w[k] = f[k]
  <2>1. f \in Seq({f[k] : k \in DOMAIN f}) /\ N \in Nat \ {0}
    BY <1>1 DEF StartOf
  <2>2. /\ W \in Nat \ {0} /\ W <= N /\ (W >= Window \/ W = N)
        /\ \A k \in 1..W : w[k] = f[k]
    BY <2>1, WindowIs
  <2>3. Window \in Nat /\ Window >= 5
    BY HvAssumption
  <2> HIDE DEF W, N, h, w, f
  <2> QED  BY <1>2, <2>1, <2>2, <2>3
<1>6. /\ H.found = (at >= 0) /\ a = at
      /\ m = (IF at >= 0 THEN Cell(w, at).len ELSE 0)
      /\ H.mode = IF encr = {} THEN modePlain ELSE Cell(w, Lowest(encr)).mode
  BY DEF parseHeader
<1>7. r = IF ~ Signed(f) THEN Refused
          ELSE IF ~ H.found \/ H.mode \notin {modePlain, modeMasked} \/ a + 1 + m > N
            THEN Refused
          ELSE parseRecords(SubSeq(f, a + 2, a + 1 + m), H.mode, N)
  BY DEF hvReadIndex
<1>8. f \in Seq({f[k] : k \in DOMAIN f})
  BY <1>1 DEF StartOf
<1> HIDE DEF r, a, m, H, encr, limit, at, backed, bare, W, w, h, c, N, f
\* Cell k of the window is that of the heading, or the LIST.
<1>9. \A k \in 1..h : k \in 1..N /\ w[k] = c[k]
  <2>1. \A k \in 1..h : k \in 1..N /\ k <= h
    BY <1>2
  <2> QED  BY <1>4, <1>5, <2>1
<1>10. w[h + 1].t = "LIST" /\ w[h + 1].len = 0
  <2>1. h + 1 \in 1..N
    BY <1>2
  <2> QED  BY <1>4, <1>5, <2>1
<1>11. backed = {}
  <2> SUFFICES ASSUME NEW o \in 1..(W - 1), Backed(w, o, N)
               PROVE  FALSE
    BY DEF backed
  <2> DEFINE k == o + 1
  <2>1. k \in 1..(h + 1) /\ k >= 2
    BY <1>2, <1>5
  <2>2. w[k].t = "LIST" /\ w[k].len > 0 /\ (o + 1 < W => w[o + 2].t = "FINF")
    <3>1. (o + 1) + 1 = o + 2
      BY <1>2, <1>5
    <3> QED  BY <3>1 DEF Backed, IsTag, Cell, W
  <2>3. CASE k = h + 1
    BY <1>10, <2>2, <2>3
  <2>4. CASE k \in 1..h
    <3>1. c[k].t = "LIST"
      BY <1>9, <2>2, <2>4
    <3>2. k = 2 /\ h >= 3 /\ c[3].t = "text"
      BY <1>3, <2>4, <3>1
    <3>3. o + 1 < W /\ o + 2 = 3 /\ 3 \in 1..h
      BY <1>2, <1>5, <3>2
    <3> QED  BY <1>9, <2>2, <3>2, <3>3
  <2> QED  BY <1>2, <2>1, <2>3, <2>4
<1>12. h \in bare
  <2>1. h \in 1..(W - 1) /\ h >= 0 /\ h < W /\ h + 1 <= N
    BY <1>2, <1>5
  <2>2. IsTag(w, h, "LIST") /\ Cell(w, h).len = 0
    BY <1>10, <2>1 DEF IsTag, Cell, W
  <2> QED  BY <2>1, <2>2 DEF bare, Bare
<1>13. at \in bare
  <2>1. bare \in SUBSET Nat
    BY <1>2, <1>5 DEF bare
  <2>2. Lowest(bare) \in bare
    BY <1>12, <2>1, LowestOf
  <2> QED  BY <1>11, <1>12, <2>2 DEF at
<1>14. at \in Nat /\ at >= 0 /\ at <= h /\ Cell(w, at).len = 0
  <2>1. at \in 1..(W - 1) /\ Cell(w, at).len = 0
    BY <1>13 DEF bare, Bare
  <2> QED  BY <1>2, <1>5, <2>1
<1>15. H.found /\ a = at /\ m = 0 /\ ~ (a + 1 + m > N)
  <2>1. H.found = TRUE /\ a = at /\ m = 0
    <3>1. (at >= 0) = TRUE
      BY <1>14
    <3> QED  BY <1>6, <1>14, <3>1
  <2> QED  BY <1>2, <1>14, <2>1
<1>16. Signed(f)
  <2>1. f[1].t = "HV30" /\ 0 < N
    <3>1. 1 \in 1..h /\ 1 \in 1..N /\ 0 < N
      BY <1>2
    <3> QED  BY <1>3, <1>5, <1>9, <3>1
  <2> QED  BY <2>1 DEF Signed, IsTag, Cell, N
<1>17. H.mode \in {modePlain, s.mode}
  <2>1. CASE encr = {}
    BY <1>6, <2>1
  <2>2. CASE encr # {}
    <3>1. encr \in SUBSET Nat
      BY <1>14 DEF encr, limit
    <3> DEFINE o == Lowest(encr)
    <3>2. o \in encr
      BY <2>2, <3>1, LowestOf
    <3> HIDE DEF o
    <3>3. o \in 0..(at - 1) /\ IsTag(w, o, "ENCR")
      BY <1>14, <3>2 DEF encr, limit
    <3>4. o + 1 \in 1..h /\ w[o + 1].t = "ENCR"
      BY <1>2, <1>14, <3>3 DEF IsTag, Cell
    <3>5. w[o + 1] = c[o + 1]
      BY <1>9, <3>4
    <3>6. s.encr /\ o + 1 = h
      BY <1>3, <3>4, <3>5
    <3>7. Cell(w, o).mode = s.mode
      BY <1>3, <3>5, <3>6 DEF Cell
    <3> QED  BY <1>6, <2>2, <3>7 DEF o
  <2> QED  BY <2>1, <2>2
<1>18. CASE r = Refused
  <2>1. DOMAIN r.entries = {} /\ r.entries = <<>>
    BY <1>18 DEF Refused
  <2>2. H.mode \notin {modePlain, modeMasked}
    <3> SUFFICES ASSUME H.mode \in {modePlain, modeMasked}
                 PROVE  FALSE
      OBVIOUS
    <3> DEFINE q == parseRecords(SubSeq(f, a + 2, a + 1 + m), H.mode, N)
               meta == SubSeq(f, a + 2, a + 1 + m)
    <3>1. r = q
      BY <1>7, <1>15, <1>16
    <3>2. a \in Nat /\ m \in Nat /\ m = 0 /\ a + 1 + m <= N
      BY <1>2, <1>14, <1>15
    <3>3. meta = [k \in 1..m |-> meta[k]]
      BY <1>8, <3>2, MetaIs DEF N
    <3> HIDE DEF meta
    <3>4. DOMAIN meta = {} /\ q = parseRecords(meta, H.mode, N)
      BY <3>2, <3>3 DEF meta
    <3>5. q.ok = TRUE
      BY <3>4 DEF parseRecords
    <3> QED  BY <1>18, <3>1, <3>5 DEF Refused
  <2>3. s.mode \notin {modePlain, modeMasked}
    BY <1>17, <2>2
  <2> QED  BY <2>1, <2>3 DEF r, f
<1>19. CASE r # Refused
  <2> DEFINE meta == SubSeq(f, a + 2, a + 1 + m)
             mode == H.mode
  <2>1. r = parseRecords(meta, mode, N)
    BY <1>7, <1>19
  <2>2. a \in Nat /\ m \in Nat /\ m = 0 /\ a + 1 + m <= N
    BY <1>2, <1>14, <1>15
  <2>3. meta = [k \in 1..m |-> meta[k]]
    BY <1>8, <2>2, MetaIs DEF N
  <2> HIDE DEF meta, mode
  <2>4. DOMAIN meta = {} /\ Len(meta) = 0
    BY <2>2, <2>3
  <2>5. r.ok = TRUE /\ r.entries = [k \in 1..0 |-> [id |-> meta[k].id, size |-> meta[k].size,
                                                    off |-> meta[k].off, mode |-> mode]]
    BY <2>1, <2>4 DEF parseRecords
  <2>6. DOMAIN r.entries = {} /\ r.entries = <<>>
    <3>1. 1..0 = {}
      OBVIOUS
    <3>2. DOMAIN r.entries = {}
      BY <2>5, <3>1
    <3>3. r.entries = [k \in {} |-> 0]
      BY <2>5, <3>1
    <3> QED  BY <3>2, <3>3
  <2> QED  BY <2>5, <2>6 DEF r, f
<1> QED  BY <1>18, <1>19

\* A container of some files, whole.
LEMMA FullIsListed ==
  ASSUME NEW s \in HvShapes, WellMade(s), Len(s.sizes) # 0
  PROVE  LET r == hvReadIndex(Container(s))
             n == Len(s.sizes)
         IN  /\ s.mode \notin {modePlain, modeMasked} => r = Refused
             /\ s.mode \in {modePlain, modeMasked} =>
                  /\ r.ok = (s.short = 0)
                  /\ r.entries = [i \in 1..(IF s.short = 0 THEN n ELSE s.short - 1) |->
                                    [id |-> i, size |-> s.sizes[i], off |-> HvBlockAt(s, i), mode |-> s.mode]]
<1> DEFINE f == Container(s)
           n == Len(s.sizes)
           h == Len(Heading(s))
           N == Len(f)
           H == parseHeader(readWindow(f), N)
           r == hvReadIndex(f)
           short == s.short
           mode == s.mode
           meta == SubSeq(f, h + 2, h + 1 + n)
           B(i) == HvBlockAt(s, i)
           top == IF short = 0 THEN n ELSE short - 1
<1>1. StartOf(f, f) /\ HvHolds(f, s)
  BY WholeContainer, ContainerHolds
<1>2. n \in Nat /\ n > 0 /\ h \in 2..4 /\ N \in Nat /\ N = B(n + 1)
      /\ (\A i \in 1..n : s.sizes[i] \in Nat)
      /\ (\A i \in 1..(n + 1) : B(i) \in Nat /\ h + 1 + n <= B(i))
      /\ (\A i \in 1..n : B(i + 1) = B(i) + 1 + s.sizes[i])
      /\ \A i, j \in 1..(n + 1) : i <= j => B(i) <= B(j)
  <2>1. HvPartsAre(s)
    BY HvShapesAre
  <2>2. N \in Nat /\ N = B(n + 1)
    BY ContainerIs
  <2>3. n \in Nat
    BY <2>1 DEF HvPartsAre
  <2>4. n > 0
    BY <2>3
  <2> HIDE DEF N
  <2> QED  BY <2>1, <2>2, <2>4 DEF HvPartsAre
<1>3. short \in 0..n
  <2>1. short \in Nat /\ short <= n
    BY HvShapesAre DEF WellMade
  <2> HIDE DEF short, n
  <2> QED  BY <1>2, <2>1
<1>4. f \in Seq({f[k] : k \in DOMAIN f})
  BY <1>1 DEF StartOf
<1>5. \A i \in 1..n : h + 1 + i <= N => f[h + 1 + i] = RecordOf(s, i)
  BY <1>1 DEF HvHolds
<1>6. f[1].t = "HV30"
  <2>1. Heading(s)[1].t = "HV30"
    BY HvShapesAre DEF HeadingHas
  <2>2. \A k \in 1..N : k <= h => f[k] = Heading(s)[k]
    BY <1>1 DEF HvHolds
  <2>3. n + 1 \in 1..(n + 1)
    BY <1>2
  <2>4. 1 \in 1..N /\ 1 <= h
    <3> HIDE DEF N, n, h, B
    <3> QED  BY <1>2, <2>3
  <2> QED  BY <2>1, <2>2, <2>4
<1>7. r = IF ~ Signed(f) THEN Refused
          ELSE IF ~ H.found \/ H.mode \notin {modePlain, modeMasked} \/ H.listOff + 1 + H.listSize > N
            THEN Refused
          ELSE parseRecords(SubSeq(f, H.listOff + 2, H.listOff + 1 + H.listSize), H.mode, N)
  BY DEF hvReadIndex
<1>8. n # 0 /\ h = Len(Heading(s)) /\ n = Len(s.sizes) /\ N = Len(f)
  OBVIOUS
<1>9. \A i : RecordOf(s, i) = Finf(i, s.sizes[i], B(i), i # short)
  BY DEF RecordOf
<1> HIDE DEF f, n, h, N, H, r, short, mode, meta, B, top
<1>10. h + 2 <= N /\ h + 1 + n <= N /\ N > 0
  <2>1. n + 1 \in 1..(n + 1)
    BY <1>2
  <2> QED  BY <1>2, <2>1
<1>11. Signed(f)
  BY <1>6, <1>8, <1>10 DEF Signed, IsTag, Cell
<1>12. H = [found |-> TRUE, listOff |-> h, listSize |-> n, mode |-> mode]
  <2>1. StartOf(f, Container(s))
    BY <1>1 DEF f
  <2>2. N \in Int
    BY <1>2
  <2>3. N >= 0 => Len(Heading(s)) + 1 + Len(s.sizes) <= N
    BY <1>8, <1>10
  <2>4. Len(Heading(s)) + 2 <= Len(f) /\ Len(s.sizes) # 0
    BY <1>8, <1>10
  <2>5. parseHeader(readWindow(f), N) =
           [found |-> TRUE, listOff |-> Len(Heading(s)), listSize |-> Len(s.sizes), mode |-> s.mode]
    BY <2>1, <2>2, <2>3, <2>4, HeaderIsFound
  <2> QED  BY <2>5 DEF H, h, n, mode
<1>13. CASE mode \notin {modePlain, modeMasked}
  <2>1. r = Refused
    BY <1>7, <1>11, <1>12, <1>13
  <2> QED  BY <1>13, <2>1 DEF r, f, mode
<1>14. CASE mode \in {modePlain, modeMasked}
  <2>1. r = parseRecords(meta, mode, N)
    BY <1>2, <1>7, <1>10, <1>11, <1>12, <1>14 DEF meta
  <2>2. meta = [k \in 1..n |-> meta[k]] /\ \A k \in 1..n : meta[k] = f[h + 1 + k]
    <3>1. h \in Nat /\ n \in Nat /\ h + 1 + n <= Len(f)
      BY <1>2, <1>10 DEF N
    <3> QED  BY <1>4, <3>1, MetaIs DEF meta
  <2>3. ASSUME NEW k \in 1..n
        PROVE  meta[k] = Finf(k, s.sizes[k], B(k), k # short)
    <3>1. h + 1 + k <= N
      BY <1>2, <1>10
    <3> QED  BY <1>5, <1>9, <2>2, <3>1
  <2>4. ASSUME NEW k \in 1..n
        PROVE  B(k) >= 0 /\ B(k) + 1 + s.sizes[k] <= N
    <3>1. k \in 1..(n + 1) /\ k + 1 \in 1..(n + 1) /\ n + 1 \in 1..(n + 1) /\ k + 1 <= n + 1
      BY <1>2
    <3> QED  BY <1>2, <3>1
  <2>5. ASSUME NEW k \in 1..n
        PROVE  Usable(meta[k], N) <=> k # short
    <3> DEFINE q == Finf(k, s.sizes[k], B(k), k # short)
    <3>1. q.t = "FINF" /\ q.off = B(k) /\ q.size = s.sizes[k] /\ q.whole = (k # short)
      BY DEF Finf
    <3>2. meta[k] = q
      BY <2>3
    <3> HIDE DEF q
    <3>3. Usable(q, N) <=> q.whole
      BY <2>4, <3>1 DEF Usable
    <3> QED  BY <3>1, <3>2, <3>3
  <2>6. /\ r.ok = (short = 0)
        /\ r.entries = [k \in 1..top |->
             [id |-> meta[k].id, size |-> meta[k].size, off |-> meta[k].off, mode |-> mode]]
    <3>1. n \in Nat /\ meta = [k \in 1..n |-> meta[k]] /\ short \in 0..n
      BY <1>2, <1>3, <2>2
    <3>2. \A k \in 1..n : Usable(meta[k], N) <=> k # short
      BY <2>5
    <3> HIDE DEF meta, mode, N, short, n
    <3>3. ReadTo(meta, n, mode, N, short)
      BY ONLY <3>1, <3>2, RecordsAre
    <3> QED  BY <2>1, <3>3 DEF ReadTo, top
  <2>7. \A k \in 1..top : k \in 1..n
    BY <1>2, <1>3 DEF top
  <2>8. ASSUME NEW k \in 1..top
        PROVE  meta[k].id = k /\ meta[k].size = s.sizes[k] /\ meta[k].off = B(k)
    <3> DEFINE q == Finf(k, s.sizes[k], B(k), k # short)
    <3>1. q.id = k /\ q.size = s.sizes[k] /\ q.off = B(k)
      BY DEF Finf
    <3> HIDE DEF q
    <3>2. meta[k] = q
      BY <2>3, <2>7 DEF q
    <3> QED  BY <3>1, <3>2
  <2>9. r.entries = [k \in 1..top |-> [id |-> k, size |-> s.sizes[k], off |-> B(k), mode |-> mode]]
    BY <2>6, <2>8
  <2> QED  BY <1>14, <2>6, <2>9 DEF r, f, mode, short, top, n, B
<1> QED  BY <1>13, <1>14

LEMMA HvDirectoryIsFound == HvInv => DirectoryIsFound
<1> SUFFICES ASSUME HvInv, ~ cut, ~ listed.read
             PROVE  LET r == hvReadIndex(hvFile)
                        n == IF hvMade.short = 0 THEN Len(hvMade.sizes) ELSE hvMade.short - 1
                    IN  IF hvMade.mode \notin {modePlain, modeMasked}
                          THEN r.entries = <<>> /\ (hvMade.sizes # <<>> => ~ r.ok)
                        ELSE /\ r.ok = (hvMade.short = 0)
                             /\ r.entries = [i \in 1..n |-> [id |-> i, size |-> hvMade.sizes[i],
                                                             off |-> HvBlockAt(hvMade, i), mode |-> hvMade.mode]]
  BY DEF DirectoryIsFound
<1> DEFINE s == hvMade
           r == hvReadIndex(Container(s))
           n == Len(s.sizes)
           entry(i) == [id |-> i, size |-> s.sizes[i], off |-> HvBlockAt(s, i), mode |-> s.mode]
           top == IF s.short = 0 THEN n ELSE s.short - 1
<1>1. s \in HvShapes /\ WellMade(s) /\ hvFile = Container(s)
  BY DEF HvInv
<1>2. s.short \in Nat /\ n \in Nat /\ s.short <= n /\ s.sizes \in Seq(Nat)
  <2>1. HvPartsAre(s) /\ s.short \in Nat /\ s.sizes \in Seq(Nat)
    BY <1>1, HvShapesAre
  <2> QED  BY <1>1, <2>1 DEF HvPartsAre, WellMade
<1>3. CASE n = 0
  <2>1. DOMAIN r.entries = {} /\ r.entries = <<>> /\ (s.mode \in {modePlain, modeMasked} => r.ok)
    BY <1>1, <1>3, EmptyIsListed
  <2>2. s.sizes = <<>> /\ s.short = 0
    <3> HIDE DEF n
    <3>1. s.short = 0
      BY <1>2, <1>3
    <3>2. Len(s.sizes) = 0
      BY <1>3 DEF n
    <3> QED  BY <1>2, <3>1, <3>2
  <2>3. 1..top = {}
    BY <1>3, <2>2
  <2> HIDE DEF r, top, entry
  <2>4. r.entries = [i \in 1..top |-> entry(i)]
    <3>1. [i \in 1..top |-> entry(i)] = [i \in {} |-> entry(i)]
      BY <2>3
    <3>2. [i \in {} |-> entry(i)] = <<>>
      OBVIOUS
    <3> QED  BY <2>1, <3>1, <3>2
  <2>5. s.mode \in {modePlain, modeMasked} => r.ok = (s.short = 0)
    <3>1. r.ok \in BOOLEAN
      BY DEF r, hvReadIndex, Refused, parseRecords
    <3>2. (s.short = 0) = TRUE
      BY <2>2
    <3> QED  BY <2>1, <3>1, <3>2
  <2> QED  BY <1>1, <2>1, <2>2, <2>4, <2>5 DEF r, top, entry
<1>4. CASE n # 0
  <2>1. /\ s.mode \notin {modePlain, modeMasked} => r = Refused
        /\ s.mode \in {modePlain, modeMasked} => r.ok = (s.short = 0) /\ r.entries = [i \in 1..top |-> entry(i)]
    BY <1>1, <1>4, FullIsListed
  <2>2. Refused.entries = <<>> /\ Refused.ok = FALSE
    BY DEF Refused
  <2> HIDE DEF r
  <2> QED  BY <1>1, <2>1, <2>2 DEF r
<1> QED  BY <1>3, <1>4

\* However a container is packed, cut or packed again: read whole, it is listed
\* for what is in it, a stray LIST in a title or not, and no page is served under
\* the wrong mask.
THEOREM HvAlwaysRead == hvSpec => []HvIsRead
<1>1. HvInv => HvIsRead
  BY HvDirectoryIsFound, HvServesNoNoise DEF HvIsRead
<1> QED  BY <1>1, HvInitInv, HvStep, PTL DEF hvSpec

------------------------------------------------------------------------------
\* ZIP.  Where the parts of a container are.
EndAt(s) == DirAt(s) + Len(s.sizes) + (IF s.zip64 = "no" THEN 0 ELSE 2)
ZipLen(s) == EndAt(s) + 1 + s.comment
ZipParts(s) ==
  LET n == Len(s.sizes)
  IN  /\ n \in 0..MaxEntries /\ s.sizes \in Seq(Nat) /\ DOMAIN s.sizes = 1..n
      /\ \A i \in 1..n : s.sizes[i] \in Nat
      /\ s.stub \in {0, 1} /\ s.comment \in {0, 1} /\ s.desc \in BOOLEAN
      /\ s.zip64 \in {"no", "off", "all"}
      /\ EntryAt(s, 1) = s.stub /\ EntryAt(s, n + 1) = DirAt(s)
      /\ \A i \in 1..(n + 1) : EntryAt(s, i) \in Nat /\ s.stub <= EntryAt(s, i) /\ EntryAt(s, i) <= DirAt(s)
      /\ \A i \in 1..n : EntryAt(s, i + 1) = EntryAt(s, i) + 1 + s.sizes[i]
      /\ \A i, j \in 1..(n + 1) : i <= j => EntryAt(s, i) <= EntryAt(s, j)

\* What the packer was asked for, and where the parts of the container then are.
LEMMA ZipShapesAre ==
  ASSUME NEW s \in ZipShapes
  PROVE  ZipParts(s) /\ s.phantom \in BOOLEAN
<1>1. s.sizes \in UNION {[1..n -> Payloads] : n \in 0..MaxEntries} /\ s.stub \in {0, 1} /\ s.comment \in {0, 1}
      /\ s.desc \in BOOLEAN /\ s.phantom \in BOOLEAN /\ s.zip64 \in {"no", "off", "all"}
  BY DEF ZipShapes
<1>2. s.sizes \in Seq(Nat) /\ DOMAIN s.sizes = 1..Len(s.sizes) /\ Len(s.sizes) \in Nat
  <2> DEFINE z == s.sizes
  <2>1. Payloads \in SUBSET Nat /\ MaxEntries \in Nat
    BY ZipAssumption
  <2>2. z \in UNION {[1..n -> Payloads] : n \in 0..MaxEntries}
    BY <1>1
  <2> HIDE DEF z
  <2>3. z \in Seq(Nat) /\ DOMAIN z = 1..Len(z) /\ Len(z) \in Nat
    BY <2>1, <2>2, SizesAre
  <2> QED  BY <2>3 DEF z
<1> DEFINE n == Len(s.sizes)
           b == s.stub
<1>3. n \in 0..MaxEntries
  <2>1. PICK m \in 0..MaxEntries : s.sizes \in [1..m -> Payloads]
    BY <1>1
  <2>2. DOMAIN s.sizes = 1..m
    BY <2>1
  <2>3. m \in Nat /\ 1..m = 1..n
    BY <1>2, <2>1, <2>2
  <2>4. m = n
    <3> HIDE DEF n
    <3> QED  BY <1>2, <2>3 DEF n
  <2> QED  BY <2>1, <2>4
<1>4. \A i \in 1..n : s.sizes[i] \in Nat
  BY <1>2
<1>5. b \in Nat
  BY <1>1
<1> HIDE DEF b
<1>6. /\ EntryAt(s, 1) = b
      /\ \A i \in 1..(n + 1) : EntryAt(s, i) \in Nat
      /\ \A i \in 1..n : EntryAt(s, i + 1) = EntryAt(s, i) + 1 + s.sizes[i]
  BY <1>2, <1>5, BlocksAreLaid DEF EntryAt, Laid, b
<1>7. \A i, j \in 1..(n + 1) : i <= j => EntryAt(s, i) <= EntryAt(s, j)
  BY <1>2, <1>5, BlocksRise DEF EntryAt, b
<1>8. \A i \in 1..(n + 1) : 1 \in 1..(n + 1) /\ 1 <= i /\ n + 1 \in 1..(n + 1) /\ i <= n + 1
  BY <1>2
<1>9. \A i \in 1..(n + 1) : b <= EntryAt(s, i) /\ EntryAt(s, i) <= EntryAt(s, n + 1)
  BY <1>6, <1>7, <1>8
<1>10. DirAt(s) = EntryAt(s, n + 1)
  BY DEF DirAt
<1> QED  BY <1>1, <1>2, <1>3, <1>4, <1>6, <1>7, <1>9, <1>10 DEF ZipParts, b

\* The cells of the end records and the comment.
LEMMA TrailingIs ==
  ASSUME NEW s \in ZipShapes
  PROVE  LET n == Len(s.sizes)
             t == Trailing(s)
             m == IF s.zip64 = "no" THEN 1 ELSE 3
         IN  /\ Len(t) = m + s.comment
             /\ s.zip64 = "no" => t[1] = EndRecord(n % Wrap, n, DirAt(s) - s.stub, s.comment)
             /\ s.zip64 # "no" => /\ t[1] = End64(n, n, DirAt(s) - s.stub)
                                  /\ t[2] = Locator(DirAt(s) + n, 1)
                                  /\ t[3] = EndRecord(Wrap - 1, Saturated, Saturated, s.comment)
             /\ s.comment = 1 => t[m + 1] = Data
<1> DEFINE n == Len(s.sizes)
           a == EndRecord(n % Wrap, n, DirAt(s) - s.stub, s.comment)
           x == End64(n, n, DirAt(s) - s.stub)
           y == Locator(DirAt(s) + n, 1)
           z == EndRecord(Wrap - 1, Saturated, Saturated, s.comment)
           t == Trailing(s)
<1>1. s.comment \in {0, 1}
  BY ZipShapesAre DEF ZipParts
<1>2. t = (IF s.zip64 = "no" THEN <<a>> ELSE <<x, y, z>>) \o (IF s.comment = 1 THEN <<Data>> ELSE <<>>)
  BY DEF Trailing
<1> HIDE DEF a, x, y, z, t
<1>3. s.zip64 = "no" => /\ Len(t) = 1 + s.comment /\ t[1] = a
                        /\ s.comment = 1 => t[2] = Data
  <2> SUFFICES ASSUME s.zip64 = "no"
               PROVE  Len(t) = 1 + s.comment /\ t[1] = a /\ (s.comment = 1 => t[2] = Data)
    OBVIOUS
  <2>1. CASE s.comment = 1
    BY <1>2, <2>1
  <2>2. CASE s.comment = 0
    BY <1>2, <2>2
  <2> QED  BY <1>1, <2>1, <2>2
<1>4. s.zip64 # "no" => /\ Len(t) = 3 + s.comment /\ t[1] = x /\ t[2] = y /\ t[3] = z
                        /\ s.comment = 1 => t[4] = Data
  <2> SUFFICES ASSUME s.zip64 # "no"
               PROVE  Len(t) = 3 + s.comment /\ t[1] = x /\ t[2] = y /\ t[3] = z /\ (s.comment = 1 => t[4] = Data)
    OBVIOUS
  <2>1. CASE s.comment = 1
    BY <1>2, <2>1
  <2>2. CASE s.comment = 0
    BY <1>2, <2>2
  <2> QED  BY <1>1, <2>1, <2>2
<1> DEFINE m == IF s.zip64 = "no" THEN 1 ELSE 3
<1>5. Len(t) = m + s.comment /\ (s.comment = 1 => t[m + 1] = Data)
  <2>1. CASE s.zip64 = "no"
    BY <1>3, <2>1
  <2>2. CASE s.zip64 # "no"
    BY <1>4, <2>2
  <2> QED  BY <2>1, <2>2
<1> HIDE DEF m
<1>6. /\ Len(t) = m + s.comment
      /\ s.zip64 = "no" => t[1] = a
      /\ s.zip64 # "no" => t[1] = x /\ t[2] = y /\ t[3] = z
      /\ s.comment = 1 => t[m + 1] = Data
  BY <1>3, <1>4, <1>5
<1> QED  BY <1>6 DEF t, a, x, y, z, m

\* Every cell of a container by its position.
LEMMA ZipContainerIs ==
  ASSUME NEW s \in ZipShapes
  PROVE  LET n == Len(s.sizes)
             d == DirAt(s)
             g == ZipContainer(s)
         IN  /\ Len(g) = ZipLen(s) /\ ZipLen(s) \in Nat /\ EndAt(s) \in Nat /\ d + n <= EndAt(s)
             /\ Len(g) = d + n + Len(Trailing(s)) /\ g = [k \in 1..Len(g) |-> g[k]]
             /\ \A k \in 1..Len(g) : /\ k <= s.stub => g[k] = Data
                                     /\ s.stub < k /\ k <= d => g[k] = EntryCell(s, k - 1)
                                     /\ d < k /\ k <= d + n => g[k] = DirRecord(s, k - d)
                                     /\ d + n < k => g[k] = Trailing(s)[k - d - n]
<1> DEFINE n == Len(s.sizes)
           d == DirAt(s)
           g == ZipContainer(s)
           t == Trailing(s)
           b == s.stub
           N == d + n + Len(t)
<1>1. n \in Nat /\ d \in Nat /\ b \in Nat /\ b <= d
  <2>1. ZipParts(s)
    BY ZipShapesAre
  <2>2. n \in 0..MaxEntries /\ MaxEntries \in Nat /\ b \in {0, 1} /\ EntryAt(s, n + 1) = d
        /\ \A i \in 1..(n + 1) : EntryAt(s, i) \in Nat /\ b <= EntryAt(s, i)
    BY <2>1, ZipAssumption DEF ZipParts
  <2> HIDE DEF n, d, b
  <2>3. n \in Nat /\ n + 1 \in 1..(n + 1)
    BY <2>2
  <2> QED  BY <2>2, <2>3
<1>2. Len(t) \in Nat /\ Len(t) = (IF s.zip64 = "no" THEN 1 ELSE 3) + s.comment /\ s.comment \in Nat
  <2>1. Len(t) = (IF s.zip64 = "no" THEN 1 ELSE 3) + s.comment
    BY TrailingIs
  <2>2. s.comment \in {0, 1}
    BY ZipShapesAre DEF ZipParts
  <2> HIDE DEF t
  <2> QED  BY <2>1, <2>2
<1>3. g = [k \in 1..N |->
         CASE k <= b -> Data
           [] k > b /\ k <= d -> EntryCell(s, k - 1)
           [] k > d /\ k <= d + n -> DirRecord(s, k - d)
           [] OTHER -> t[k - d - n]]
  BY DEF ZipContainer
<1>4. ZipLen(s) = d + n + (IF s.zip64 = "no" THEN 0 ELSE 2) + 1 + s.comment
      /\ EndAt(s) = d + n + (IF s.zip64 = "no" THEN 0 ELSE 2)
  BY DEF ZipLen, EndAt
<1> HIDE DEF n, d, g, t, b
<1>5. N \in Nat /\ N = ZipLen(s) /\ EndAt(s) \in Nat /\ d + n <= EndAt(s)
  BY <1>1, <1>2, <1>4
<1> HIDE DEF N
<1>6. Len(g) = N /\ g = [k \in 1..Len(g) |-> g[k]]
  BY <1>3, <1>5
<1>7. ASSUME NEW k \in 1..Len(g)
      PROVE  /\ k <= b => g[k] = Data
             /\ b < k /\ k <= d => g[k] = EntryCell(s, k - 1)
             /\ d < k /\ k <= d + n => g[k] = DirRecord(s, k - d)
             /\ d + n < k => g[k] = t[k - d - n]
  <2>1. k \in Nat
    BY <1>5, <1>6
  <2>2. g[k] = CASE k <= b -> Data
                 [] k > b /\ k <= d -> EntryCell(s, k - 1)
                 [] k > d /\ k <= d + n -> DirRecord(s, k - d)
                 [] OTHER -> t[k - d - n]
    BY <1>3, <1>6
  <2>3. k <= b => g[k] = Data
    BY <1>1, <2>1, <2>2
  <2>4. b < k /\ k <= d => g[k] = EntryCell(s, k - 1)
    BY <1>1, <2>1, <2>2
  <2>5. d < k /\ k <= d + n => g[k] = DirRecord(s, k - d)
    BY <1>1, <2>1, <2>2
  <2>6. d + n < k => g[k] = t[k - d - n]
    BY <1>1, <2>1, <2>2
  <2> QED  BY <2>3, <2>4, <2>5, <2>6
<1>8. /\ Len(g) = ZipLen(s) /\ ZipLen(s) \in Nat /\ EndAt(s) \in Nat /\ d + n <= EndAt(s)
      /\ Len(g) = d + n + Len(t) /\ g = [k \in 1..Len(g) |-> g[k]]
      /\ \A k \in 1..Len(g) : /\ k <= b => g[k] = Data
                              /\ b < k /\ k <= d => g[k] = EntryCell(s, k - 1)
                              /\ d < k /\ k <= d + n => g[k] = DirRecord(s, k - d)
                              /\ d + n < k => g[k] = t[k - d - n]
  BY <1>5, <1>6, <1>7 DEF N
<1> QED  BY <1>8 DEF n, d, g, t, b

\* What is at each offset of a container.
InEntry(s, i, o) == EntryAt(s, i) < o /\ o < EntryAt(s, i + 1)
ZipHolds(g, s) ==
  LET n == Len(s.sizes)
      d == DirAt(s)
  IN  /\ s.stub = 1 => CellAt(g, 0) = Data
      /\ \A o \in Nat : s.stub <= o /\ o < d => \E i \in 1..n : o = EntryAt(s, i) \/ InEntry(s, i, o)
      /\ \A i \in 1..n : CellAt(g, EntryAt(s, i)) = Loc(i, s.sizes[i], s.desc)
      /\ \A i \in 1..n, o \in Nat : InEntry(s, i, o) => CellAt(g, o) \in {Data, Loc(Phantom, 0, FALSE)}
      /\ \A i \in 1..n : CellAt(g, d + i - 1) = DirRecord(s, i)
      /\ \A k \in 1..Len(Trailing(s)) : CellAt(g, d + n + k - 1) = Trailing(s)[k]

LEMMA ZipContainerHolds ==
  ASSUME NEW s \in ZipShapes
  PROVE  ZipHolds(ZipContainer(s), s)
<1> DEFINE n == Len(s.sizes)
           d == DirAt(s)
           g == ZipContainer(s)
           t == Trailing(s)
           b == s.stub
           z == s.sizes
           P(i) == EntryAt(s, i)
<1>1. /\ n \in 0..MaxEntries /\ z \in Seq(Nat) /\ DOMAIN z = 1..n /\ b \in {0, 1}
      /\ P(n + 1) = d /\ P(1) = b
      /\ \A i \in 1..(n + 1) : P(i) \in Nat /\ b <= P(i) /\ P(i) <= d
      /\ \A i \in 1..n : P(i + 1) = P(i) + 1 + z[i] /\ z[i] \in Nat
  BY ZipShapesAre DEF ZipParts
<1>2. /\ Len(g) = d + n + Len(t)
      /\ \A k \in 1..Len(g) : /\ k <= b => g[k] = Data
                              /\ b < k /\ k <= d => g[k] = EntryCell(s, k - 1)
                              /\ d < k /\ k <= d + n => g[k] = DirRecord(s, k - d)
                              /\ d + n < k => g[k] = t[k - d - n]
  BY ZipContainerIs
<1>3. Len(t) \in Nat
  <2>1. Len(t) = (IF s.zip64 = "no" THEN 1 ELSE 3) + s.comment
    BY TrailingIs
  <2>2. s.comment \in {0, 1}
    BY ZipShapesAre DEF ZipParts
  <2> HIDE DEF t
  <2> QED  BY <2>1, <2>2
<1>4. \A i : P(i) = BlockAt(z, b, i)
  BY DEF EntryAt
<1>5. \A i, o : BlockOf(z, b, o) = i =>
        EntryCell(s, o) = IF o = P(i) THEN Loc(i, z[i], s.desc)
                          ELSE IF s.phantom /\ o = P(i) + 1 THEN Loc(Phantom, 0, FALSE) ELSE Data
  BY DEF EntryCell
<1>6. Len(z) = n
  OBVIOUS
<1> HIDE DEF n, d, g, t, b, z, P
<1>7. n \in Nat /\ b \in Nat /\ \A i \in 1..n : i \in 1..(n + 1) /\ i + 1 \in 1..(n + 1)
  BY <1>1, ZipAssumption
<1>8. d \in Nat /\ b <= d
  <2>1. n + 1 \in 1..(n + 1)
    BY <1>7
  <2> QED  BY <1>1, <2>1
<1>9. \A o \in Nat : /\ \A i \in 1..n : P(i) <= o /\ o < P(i + 1) => BlockOf(z, b, o) = i
                     /\ b <= o /\ o < d => \E i \in 1..n : P(i) <= o /\ o < P(i + 1)
  <2>1. \A o \in Nat : /\ \A i \in 1..n : P(i) <= o /\ o < P(i + 1) => BlockOf(z, b, o) = i
                       /\ b <= o /\ o < P(n + 1) => \E i \in 1..n : P(i) <= o /\ o < P(i + 1)
    <3>1. z \in Seq(Nat) /\ DOMAIN z = 1..n
      BY <1>1
    <3> QED  BY <1>4, <1>6, <1>7, <3>1, BlockOfIs
  <2>2. P(n + 1) = d
    BY <1>1
  <2> QED  BY <2>1, <2>2
<1>10. ASSUME NEW i \in 1..n, NEW o \in Nat, P(i) <= o, o < P(i + 1)
       PROVE  CellAt(g, o) = IF o = P(i) THEN Loc(i, z[i], s.desc)
                          ELSE IF s.phantom /\ o = P(i) + 1 THEN Loc(Phantom, 0, FALSE) ELSE Data
  <2>1. b <= P(i) /\ P(i + 1) <= d /\ P(i) \in Nat /\ P(i + 1) \in Nat
    BY <1>1, <1>7
  <2>2. o + 1 \in 1..Len(g) /\ b < o + 1 /\ o + 1 <= d /\ (o + 1) - 1 = o
    BY <1>2, <1>3, <1>7, <1>8, <1>10, <2>1
  <2>3. g[o + 1] = EntryCell(s, o)
    BY <1>2, <2>2
  <2>4. BlockOf(z, b, o) = i
    BY <1>9, <1>10
  <2> QED  BY <1>5, <2>3, <2>4 DEF CellAt
<1>11. b = 1 => CellAt(g, 0) = Data
  <2>1. b = 1 => 1 \in 1..Len(g) /\ 1 <= b /\ 0 + 1 = 1
    BY <1>2, <1>3, <1>7, <1>8
  <2> QED  BY <1>2, <2>1 DEF CellAt
<1>12. ASSUME NEW o \in Nat, b <= o, o < d
       PROVE  \E i \in 1..n : o = P(i) \/ (P(i) < o /\ o < P(i + 1))
  <2>1. PICK i \in 1..n : P(i) <= o /\ o < P(i + 1)
    BY <1>9, <1>12
  <2>2. P(i) \in Nat
    BY <1>1, <1>7
  <2> QED  BY <2>1, <2>2
<1>13. ASSUME NEW i \in 1..n
       PROVE  CellAt(g, P(i)) = Loc(i, z[i], s.desc)
  <2>1. P(i) \in Nat /\ P(i) <= P(i) /\ P(i) < P(i + 1)
    <3>1. P(i) \in Nat /\ z[i] \in Nat /\ P(i + 1) = P(i) + 1 + z[i]
      BY <1>1, <1>7
    <3> QED  BY <3>1
  <2> QED  BY <1>10, <2>1
<1>14. ASSUME NEW i \in 1..n, NEW o \in Nat, P(i) < o, o < P(i + 1)
       PROVE  CellAt(g, o) \in {Data, Loc(Phantom, 0, FALSE)}
  <2>1. P(i) \in Nat /\ P(i) <= o /\ o # P(i)
    <3>1. P(i) \in Nat
      BY <1>1, <1>7
    <3> QED  BY <1>14, <3>1
  <2> QED  BY <1>10, <1>14, <2>1
<1>15. ASSUME NEW i \in 1..n
       PROVE  CellAt(g, d + i - 1) = DirRecord(s, i)
  <2>1. d + i \in 1..Len(g) /\ d < d + i /\ d + i <= d + n /\ (d + i) - d = i /\ (d + i - 1) + 1 = d + i
    BY <1>2, <1>3, <1>7, <1>8
  <2> QED  BY <1>2, <2>1 DEF CellAt
<1>16. ASSUME NEW k \in 1..Len(t)
       PROVE  CellAt(g, d + n + k - 1) = t[k]
  <2>1. d + n + k \in 1..Len(g) /\ d + n < d + n + k /\ (d + n + k) - d - n = k /\ (d + n + k - 1) + 1 = d + n + k
    BY <1>2, <1>3, <1>7, <1>8
  <2> QED  BY <1>2, <2>1 DEF CellAt
<1>17. \A o \in Nat : b <= o /\ o < d => \E i \in 1..n : o = P(i) \/ InEntry(s, i, o)
  BY <1>12 DEF InEntry, P
<1>18. \A i \in 1..n, o \in Nat : InEntry(s, i, o) => CellAt(g, o) \in {Data, Loc(Phantom, 0, FALSE)}
  BY <1>14 DEF InEntry, P
<1> QED  BY <1>11, <1>13, <1>15, <1>16, <1>17, <1>18 DEF ZipHolds, n, d, g, t, b, z, P

\* The end records, and what the cells of each part are.
ZipEnd(s) ==
  IF s.zip64 = "no" THEN EndRecord(Len(s.sizes) % Wrap, Len(s.sizes), DirAt(s) - s.stub, s.comment)
  ELSE EndRecord(Wrap - 1, Saturated, Saturated, s.comment)
ZipTypes(g, s) ==
  LET n == Len(s.sizes)
      d == DirAt(s)
      E == EndAt(s)
  IN  /\ CellAt(g, E) = ZipEnd(s)
      /\ s.zip64 # "no" => /\ CellAt(g, d + n) = End64(n, n, d - s.stub)
                           /\ CellAt(g, d + n + 1) = Locator(d + n, 1)
      /\ \A o \in 0..(ZipLen(s) - 1) :
           /\ CellAt(g, o).t = "end" => o = E
           /\ CellAt(g, o).t = "loc" => o < d
           /\ CellAt(g, o).t = "cd" => d <= o /\ o < d + n
           /\ CellAt(g, o).t = "locator" => s.zip64 # "no" /\ o = d + n + 1

LEMMA ZipTypesAre ==
  ASSUME NEW s \in ZipShapes
  PROVE  ZipTypes(ZipContainer(s), s)
<1> DEFINE n == Len(s.sizes)
           d == DirAt(s)
           g == ZipContainer(s)
           t == Trailing(s)
           b == s.stub
           E == EndAt(s)
           P(i) == EntryAt(s, i)
           C(o) == CellAt(g, o)
<1>1. /\ n \in Nat /\ d \in Nat /\ b \in {0, 1} /\ s.comment \in {0, 1}
      /\ \A i \in 1..(n + 1) : P(i) \in Nat
  <2>1. ZipParts(s)
    BY ZipShapesAre
  <2>2. n \in 0..MaxEntries /\ MaxEntries \in Nat /\ b \in {0, 1} /\ P(n + 1) = d /\ s.comment \in {0, 1}
        /\ \A i \in 1..(n + 1) : P(i) \in Nat
    BY <2>1, ZipAssumption DEF ZipParts
  <2> HIDE DEF n, d, b, P
  <2>3. n \in Nat /\ n + 1 \in 1..(n + 1)
    BY <2>2
  <2> QED  BY <2>2, <2>3
<1>2. /\ E = d + n + (IF s.zip64 = "no" THEN 0 ELSE 2)
      /\ ZipLen(s) = E + 1 + s.comment
      /\ Len(t) = (IF s.zip64 = "no" THEN 1 ELSE 3) + s.comment
  BY TrailingIs DEF EndAt, ZipLen
<1>3. /\ s.zip64 = "no" => t[1] = ZipEnd(s)
      /\ s.zip64 # "no" => /\ t[1] = End64(n, n, d - b)
                           /\ t[2] = Locator(d + n, 1)
                           /\ t[3] = ZipEnd(s)
      /\ s.comment = 1 => t[(IF s.zip64 = "no" THEN 1 ELSE 3) + 1] = Data
  BY TrailingIs DEF ZipEnd
<1>4. ZipHolds(g, s)
  BY ZipContainerHolds
<1>5. /\ b = 1 => C(0) = Data
      /\ \A o \in Nat : b <= o /\ o < d => \E i \in 1..n : o = P(i) \/ InEntry(s, i, o)
      /\ \A i \in 1..n : C(P(i)) = Loc(i, s.sizes[i], s.desc)
      /\ \A i \in 1..n, o \in Nat : InEntry(s, i, o) => C(o) \in {Data, Loc(Phantom, 0, FALSE)}
      /\ \A i \in 1..n : C(d + i - 1) = DirRecord(s, i)
      /\ \A k \in 1..Len(t) : C(d + n + k - 1) = t[k]
  BY <1>4 DEF ZipHolds
<1>6. \A i : DirRecord(s, i).t = "cd"
  <2>1. s.zip64 \in {"no", "off", "all"}
    BY ZipShapesAre DEF ZipParts
  <2> QED  BY <2>1 DEF DirRecord, Cd
<1>7. /\ Data.t = "data" /\ ZipEnd(s).t = "end" /\ \A x, y, z : End64(x, y, z).t = "end64" /\ Loc(x, y, z).t = "loc"
      /\ \A x, y : Locator(x, y).t = "locator"
  BY DEF Data, ZipEnd, EndRecord, End64, Locator, Loc
<1> HIDE DEF n, d, g, t, b, E, P, C
<1>8. ASSUME NEW o \in Nat, o < d
      PROVE  C(o).t \in {"data", "loc"}
  <2>1. CASE o < b
    <3>1. o = 0 /\ b = 1
      BY <1>1, <2>1
    <3> QED  BY <1>5, <1>7, <3>1
  <2>2. CASE ~ (o < b)
    <3>1. b <= o
      BY <1>1, <2>2
    <3>2. PICK i \in 1..n : o = P(i) \/ InEntry(s, i, o)
      BY <1>5, <1>8, <3>1
    <3>3. CASE o = P(i)
      BY <1>5, <1>7, <3>3
    <3>4. CASE InEntry(s, i, o)
      <4>1. C(o) \in {Data, Loc(Phantom, 0, FALSE)}
        BY <1>5, <3>4
      <4> QED  BY <1>7, <4>1
    <3> QED  BY <3>2, <3>3, <3>4
  <2> QED  BY <2>1, <2>2
<1>9. ASSUME NEW o \in Nat, d <= o, o < d + n
      PROVE  C(o).t = "cd"
  <2>1. o - d + 1 \in 1..n /\ d + (o - d + 1) - 1 = o
    BY <1>1, <1>9
  <2>2. C(o) = DirRecord(s, o - d + 1)
    BY <1>5, <2>1
  <2> QED  BY <1>6, <2>2
<1>10. CASE s.zip64 = "no"
  <2>1. E = d + n /\ ZipLen(s) = d + n + 1 + s.comment /\ Len(t) = 1 + s.comment /\ t[1] = ZipEnd(s)
        /\ (s.comment = 1 => t[2] = Data)
    <3>1. E = d + n + 0 /\ ZipLen(s) = E + 1 + s.comment /\ Len(t) = 1 + s.comment
      BY <1>2, <1>10
    <3>2. ZipLen(s) = d + n + 1 + s.comment /\ E = d + n
      BY <1>1, <3>1
    <3>3. s.comment = 1 => t[2] = Data
      BY <1>3, <1>10
    <3> QED  BY <1>3, <1>10, <3>1, <3>2, <3>3
  <2>2. 1 \in 1..Len(t) /\ d + n + 1 - 1 = d + n /\ (s.comment = 1 => 2 \in 1..Len(t) /\ d + n + 2 - 1 = d + n + 1)
    BY <1>1, <2>1
  <2>3. C(E) = ZipEnd(s) /\ (s.comment = 1 => C(E + 1) = Data)
    BY <1>5, <2>1, <2>2
  <2>4. ASSUME NEW o \in 0..(ZipLen(s) - 1)
        PROVE  /\ C(o).t = "end" => o = E
               /\ C(o).t = "loc" => o < d
               /\ C(o).t = "cd" => d <= o /\ o < d + n
               /\ C(o).t = "locator" => s.zip64 # "no" /\ o = d + n + 1
    <3>1. o \in Nat /\ (o < d \/ (d <= o /\ o < d + n) \/ o = E \/ (s.comment = 1 /\ o = E + 1))
      BY <1>1, <2>1
    <3>2. CASE o < d
      BY <1>8, <3>1, <3>2
    <3>3. CASE d <= o /\ o < d + n
      BY <1>9, <3>1, <3>3
    <3>4. CASE o = E
      BY <1>7, <2>3, <3>4
    <3>5. CASE s.comment = 1 /\ o = E + 1
      BY <1>7, <2>3, <3>5
    <3> QED  BY <3>1, <3>2, <3>3, <3>4, <3>5
  <2> QED  BY <1>10, <2>3, <2>4 DEF ZipTypes, n, d, E, b, C, g
<1>11. CASE s.zip64 # "no"
  <2>1. E = d + n + 2 /\ ZipLen(s) = d + n + 3 + s.comment /\ Len(t) = 3 + s.comment /\ t[1] = End64(n, n, d - b)
        /\ t[2] = Locator(d + n, 1) /\ t[3] = ZipEnd(s) /\ (s.comment = 1 => t[4] = Data)
    <3>1. E = d + n + 2 /\ ZipLen(s) = E + 1 + s.comment /\ Len(t) = 3 + s.comment
      BY <1>2, <1>11
    <3>2. ZipLen(s) = d + n + 3 + s.comment
      BY <1>1, <3>1
    <3>3. s.comment = 1 => t[4] = Data
      BY <1>3, <1>11
    <3> QED  BY <1>3, <1>11, <3>1, <3>2, <3>3
  <2>2. 1 \in 1..Len(t) /\ 2 \in 1..Len(t) /\ 3 \in 1..Len(t) /\ (s.comment = 1 => 4 \in 1..Len(t))
        /\ d + n + 1 - 1 = d + n /\ d + n + 2 - 1 = d + n + 1 /\ d + n + 3 - 1 = d + n + 2 /\ d + n + 4 - 1 = d + n + 3
    BY <1>1, <2>1
  <2>3. C(d + n) = End64(n, n, d - b) /\ C(d + n + 1) = Locator(d + n, 1) /\ C(d + n + 2) = ZipEnd(s)
        /\ (s.comment = 1 => C(d + n + 3) = Data)
    BY <1>5, <2>1, <2>2
  <2>4. ASSUME NEW o \in 0..(ZipLen(s) - 1)
        PROVE  /\ C(o).t = "end" => o = E
               /\ C(o).t = "loc" => o < d
               /\ C(o).t = "cd" => d <= o /\ o < d + n
               /\ C(o).t = "locator" => s.zip64 # "no" /\ o = d + n + 1
    <3>1. o \in Nat /\ (o < d \/ (d <= o /\ o < d + n) \/ o = d + n \/ o = d + n + 1 \/ o = d + n + 2
                        \/ (s.comment = 1 /\ o = d + n + 3))
      BY <1>1, <2>1
    <3>2. CASE o < d
      BY <1>8, <3>1, <3>2
    <3>3. CASE d <= o /\ o < d + n
      BY <1>9, <3>1, <3>3
    <3>4. CASE o = d + n
      BY <1>7, <2>3, <3>4
    <3>5. CASE o = d + n + 1
      BY <1>7, <1>11, <2>3, <3>5
    <3>6. CASE o = d + n + 2
      BY <1>7, <2>1, <2>3, <3>6
    <3>7. CASE s.comment = 1 /\ o = d + n + 3
      BY <1>7, <2>3, <3>7
    <3> QED  BY <3>1, <3>2, <3>3, <3>4, <3>5, <3>6, <3>7
  <2>5. C(E) = ZipEnd(s)
    BY <2>1, <2>3
  <2> QED  BY <1>11, <2>3, <2>4, <2>5 DEF ZipTypes, n, d, E, b, C, g
<1> QED  BY <1>10, <1>11

\* The search for the end record.
LEMMA OneEndIsFound ==
  ASSUME NEW g, Len(g) \in Nat, NEW E \in Nat, \A o \in Int : Reads(g, o, "end") <=> o = E,
         CellAt(g, E).cmt \in Nat, NEW n \in Nat
  PROVE  findEOCD(g, n) = IF Len(g) - n <= E /\ E + 1 + CellAt(g, E).cmt <= Len(g) THEN E ELSE -1
<1> DEFINE found == {o \in (Len(g) - n)..(Len(g) - 1) : Reads(g, o, "end")}
           x == CHOOSE p \in found : \A q \in found : q <= p
           c == CellAt(g, E).cmt
<1>1. findEOCD(g, n) = IF found = {} \/ x + 1 + CellAt(g, x).cmt > Len(g) THEN -1 ELSE x
  BY DEF findEOCD
<1>2. E < Len(g)
  BY DEF Reads
<1>3. found = IF Len(g) - n <= E THEN {E} ELSE {}
  <2>1. \A o \in (Len(g) - n)..(Len(g) - 1) : o \in Int
    OBVIOUS
  <2>2. Len(g) - n <= E <=> E \in (Len(g) - n)..(Len(g) - 1)
    BY <1>2
  <2>3. \A o : o \in found <=> o = E /\ Len(g) - n <= E
    BY <2>1, <2>2
  <2> HIDE DEF found
  <2> QED  BY <2>3
<1> HIDE DEF found
<1>4. CASE Len(g) - n <= E
  <2>1. found = {E} /\ found # {}
    BY <1>3, <1>4
  <2>2. x = E
    BY <2>1
  <2> HIDE DEF x
  <2>3. findEOCD(g, n) = IF E + 1 + c > Len(g) THEN -1 ELSE E
    BY <1>1, <2>1, <2>2
  <2> HIDE DEF c
  <2>4. E + 1 + c > Len(g) <=> ~ (E + 1 + c <= Len(g))
    BY DEF c
  <2> QED  BY <1>4, <2>3, <2>4 DEF c
<1>5. CASE ~ (Len(g) - n <= E)
  BY <1>1, <1>3, <1>5
<1> QED  BY <1>4, <1>5

\* Without an end record there is no answer to readEnd.
LEMMA ReadEndNot ==
  ASSUME NEW g, \A n : findEOCD(g, n) = -1
  PROVE  readEnd(g) = NoEnd
BY DEF readEnd

LEMMA ReadEndAt ==
  ASSUME NEW g, NEW E \in Nat, findEOCD(g, Smaller(TailSmall, Len(g))) \in {E, -1},
         findEOCD(g, Smaller(TailLarge, Len(g))) = E
  PROVE  LET e == CellAt(g, E)
             big == e.size = Saturated \/ e.off = Saturated \/ e.n = Wrap - 1
             o64 == IF big THEN findZIP64End(g, E) ELSE -1
         IN  readEnd(g) = IF o64 < 0 THEN EndOf(e, E)
                          ELSE IF Reads(g, o64, "end64") THEN EndOf(CellAt(g, o64), o64) ELSE NoEnd
<1> DEFINE small == findEOCD(g, Smaller(TailSmall, Len(g)))
           o == IF small >= 0 THEN small ELSE findEOCD(g, Smaller(TailLarge, Len(g)))
           e(p) == CellAt(g, p)
           big(p) == e(p).size = Saturated \/ e(p).off = Saturated \/ e(p).n = Wrap - 1
           o64(p) == IF big(p) THEN findZIP64End(g, p) ELSE -1
           FoundAt(p) == IF p < 0 THEN NoEnd
                      ELSE IF o64(p) < 0 THEN EndOf(e(p), p)
                      ELSE IF Reads(g, o64(p), "end64") THEN EndOf(CellAt(g, o64(p)), o64(p)) ELSE NoEnd
<1>1. readEnd(g) = FoundAt(o)
  BY DEF readEnd
<1>2. o = E
  <2> HIDE DEF small
  <2>1. small \in {E, -1}
    BY DEF small
  <2>2. CASE small = E
    BY <2>2
  <2>3. CASE small = -1
    BY <2>3
  <2> QED  BY <2>1, <2>2, <2>3
<1> HIDE DEF o
<1>3. readEnd(g) = FoundAt(E)
  BY <1>1, <1>2
<1>4. ~ (E < 0)
  OBVIOUS
<1> QED  BY <1>3, <1>4

\* An accident that wiped some cells out.
Faded(g, c) ==
  /\ Len(g) = Len(c)
  /\ \A o \in 0..(Len(c) - 1) : CellAt(g, o) = CellAt(c, o) \/ CellAt(g, o) = Zero

\* The end record that is found, if it is that of the directory.
TrueEnd(e, s) ==
  /\ e.ok = TRUE /\ e.n \in Nat /\ e.n % Wrap = Len(s.sizes) % Wrap
  /\ e.size = Len(s.sizes) /\ e.off = DirAt(s) - s.stub /\ e.at = DirAt(s) + Len(s.sizes)

\* An end record that is found is the one the packer wrote, with its 64-bit record.
LEMMA ReadEndIs ==
  ASSUME NEW s \in ZipShapes, NEW g, Faded(g, ZipContainer(s))
  PROVE  LET e == readEnd(g)
         IN  /\ e = NoEnd \/ (e.ok = TRUE /\ e.size = Saturated) \/ TrueEnd(e, s)
             /\ g = ZipContainer(s) => TrueEnd(e, s)
<1> DEFINE n == Len(s.sizes)
           d == DirAt(s)
           c == ZipContainer(s)
           b == s.stub
           E == EndAt(s)
           L == ZipLen(s)
           m == s.comment
<1>1. /\ n \in Nat /\ d \in Nat /\ b \in {0, 1} /\ m \in {0, 1}
  <2>1. ZipParts(s)
    BY ZipShapesAre
  <2>2. n \in 0..MaxEntries /\ MaxEntries \in Nat /\ b \in {0, 1} /\ EntryAt(s, n + 1) = d /\ m \in {0, 1}
        /\ \A i \in 1..(n + 1) : EntryAt(s, i) \in Nat
    BY <2>1, ZipAssumption DEF ZipParts
  <2> HIDE DEF n, d, b, m
  <2>3. n \in Nat /\ n + 1 \in 1..(n + 1)
    BY <2>2
  <2> QED  BY <2>2, <2>3
<1>2. /\ E = d + n + (IF s.zip64 = "no" THEN 0 ELSE 2) /\ L = E + 1 + m
      /\ Len(c) = L
  BY ZipContainerIs DEF EndAt, ZipLen
<1>3. /\ CellAt(c, E) = ZipEnd(s)
      /\ s.zip64 # "no" => /\ CellAt(c, d + n) = End64(n, n, d - b)
                           /\ CellAt(c, d + n + 1) = Locator(d + n, 1)
      /\ \A o \in 0..(L - 1) :
           /\ CellAt(c, o).t = "end" => o = E
           /\ CellAt(c, o).t = "locator" => s.zip64 # "no" /\ o = d + n + 1
  BY ZipTypesAre DEF ZipTypes
<1>4. Len(g) = L /\ \A o \in 0..(L - 1) : CellAt(g, o) = CellAt(c, o) \/ CellAt(g, o) = Zero
  BY <1>2 DEF Faded
<1>5. /\ ZipEnd(s).t = "end" /\ ZipEnd(s).cmt = m /\ Zero.t = "zero"
      /\ s.zip64 = "no" => ZipEnd(s).n = n % Wrap /\ ZipEnd(s).size = n /\ ZipEnd(s).off = d - b
      /\ s.zip64 # "no" => ZipEnd(s).size = Saturated
  BY DEF ZipEnd, EndRecord, Zero
<1> HIDE DEF n, d, b, c, E, L, m
<1>6. E \in Nat /\ L \in Nat /\ E \in 0..(L - 1) /\ d + n <= E
  BY <1>1, <1>2
<1>7. \A o \in Int : Reads(g, o, "end") => o = E /\ CellAt(g, E) = ZipEnd(s)
  <2> SUFFICES ASSUME NEW o \in Int, Reads(g, o, "end")
               PROVE  o = E /\ CellAt(g, E) = ZipEnd(s)
    OBVIOUS
  <2>1. o \in 0..(L - 1) /\ CellAt(g, o).t = "end"
    BY <1>4, <1>6 DEF Reads
  <2>2. CellAt(g, o) = CellAt(c, o)
    BY <1>4, <1>5, <2>1
  <2>3. o = E
    BY <1>3, <2>1, <2>2
  <2> QED  BY <1>3, <2>2, <2>3
<1>8. CASE CellAt(g, E) # ZipEnd(s)
  <2>1. \A o \in Int : ~ Reads(g, o, "end")
    BY <1>7, <1>8
  <2>2. \A k : findEOCD(g, k) = -1
    <3> SUFFICES ASSUME NEW k
                 PROVE  findEOCD(g, k) = -1
      OBVIOUS
    <3>1. {o \in (Len(g) - k)..(Len(g) - 1) : Reads(g, o, "end")} = {}
      BY <2>1
    <3> QED  BY <3>1 DEF findEOCD
  <2>3. readEnd(g) = NoEnd
    BY <2>2, ReadEndNot
  <2>4. g # c
    BY <1>3, <1>8
  <2>5. g # ZipContainer(s)
    BY <2>4 DEF c
  <2> QED  BY <2>3, <2>5, Zenon
<1>9. CASE CellAt(g, E) = ZipEnd(s)
  <2>1. \A o \in Int : Reads(g, o, "end") <=> o = E
    <3>1. Reads(g, E, "end")
      BY <1>4, <1>5, <1>6, <1>9 DEF Reads
    <3> QED  BY <1>7, <3>1
  <2>2. CellAt(g, E).cmt = m /\ CellAt(g, E).cmt \in Nat
    BY <1>1, <1>5, <1>9
  <2>3. \A k \in Nat : findEOCD(g, k) = IF L - k <= E /\ E + 1 + m <= L THEN E ELSE -1
    <3> SUFFICES ASSUME NEW k \in Nat
                 PROVE  findEOCD(g, k) = IF L - k <= E /\ E + 1 + m <= L THEN E ELSE -1
      OBVIOUS
    <3>1. Len(g) \in Nat /\ Len(g) = L
      BY <1>4, <1>6
    <3>2. findEOCD(g, k) = IF Len(g) - k <= E /\ E + 1 + CellAt(g, E).cmt <= Len(g) THEN E ELSE -1
      BY <1>6, <2>1, <2>2, <3>1, OneEndIsFound
    <3> QED  BY <2>2, <3>1, <3>2
  <2>4. TailSmall \in Nat /\ TailLarge \in Nat /\ TailLarge >= 2
    BY ZipAssumption
  <2>5. Smaller(TailSmall, Len(g)) \in Nat
    BY <1>4, <1>6, <2>4 DEF Smaller
  <2>6. Smaller(TailLarge, Len(g)) \in Nat /\ L - Smaller(TailLarge, Len(g)) <= E /\ E + 1 + m <= L
    <3>1. L = E + 1 + m
      BY <1>2
    <3>2. L - 2 <= E /\ L - L <= E /\ E + 1 + m <= L
      BY <1>1, <1>6, <3>1
    <3>3. Smaller(TailLarge, Len(g)) = IF TailLarge < L THEN TailLarge ELSE L
      BY <1>4 DEF Smaller
    <3> QED  BY <1>6, <2>4, <3>2, <3>3
  <2>7. findEOCD(g, Smaller(TailSmall, Len(g))) \in {E, -1}
    BY <2>3, <2>5
  <2>8. findEOCD(g, Smaller(TailLarge, Len(g))) = E
    BY <2>3, <2>6
  <2> DEFINE e == CellAt(g, E)
             big == e.size = Saturated \/ e.off = Saturated \/ e.n = Wrap - 1
             o64 == IF big THEN findZIP64End(g, E) ELSE -1
  <2>9. readEnd(g) = IF o64 < 0 THEN EndOf(e, E)
                     ELSE IF Reads(g, o64, "end64") THEN EndOf(CellAt(g, o64), o64) ELSE NoEnd
    BY <1>6, <2>7, <2>8, ReadEndAt
  <2>10. e = ZipEnd(s)
    BY <1>9
  <2> HIDE DEF o64, e
  <2>11. \A x, o : /\ EndOf(x, o).ok = TRUE /\ EndOf(x, o).n = x.n /\ EndOf(x, o).size = x.size
                   /\ EndOf(x, o).off = x.off /\ EndOf(x, o).at = o
    BY DEF EndOf
  <2>12. CASE s.zip64 = "no"
    <3>1. ~ Reads(g, E - 1, "locator")
      <4> SUFFICES ASSUME Reads(g, E - 1, "locator")
                   PROVE  FALSE
        OBVIOUS
      <4>1. E - 1 \in 0..(L - 1) /\ CellAt(g, E - 1).t = "locator"
        BY <1>4, <1>6 DEF Reads
      <4>2. CellAt(c, E - 1).t = "locator"
        BY <1>4, <1>5, <4>1
      <4> QED  BY <1>3, <2>12, <4>1, <4>2
    <3>2. o64 = -1
      BY <3>1 DEF o64, findZIP64End
    <3>3. readEnd(g) = EndOf(e, E)
      BY <2>9, <3>2
    <3>4. E = d + n
      BY <1>1, <1>2, <2>12
    <3>5. e.n = n % Wrap /\ e.size = n /\ e.off = d - b
      BY <1>5, <2>10, <2>12
    <3>6. n % Wrap \in Nat /\ (n % Wrap) % Wrap = n % Wrap
      BY <1>1, ZipAssumption
    <3>7. TrueEnd(readEnd(g), s)
      BY <2>11, <3>3, <3>4, <3>5, <3>6 DEF TrueEnd, n, d, b
    <3> QED  BY <3>7
  <2>13. CASE s.zip64 # "no"
    <3>1. e.size = Saturated /\ E = d + n + 2
      BY <1>2, <1>5, <2>10, <2>13
    <3>2. d + n \in 0..(L - 1) /\ d + n + 1 \in 0..(L - 1) /\ E - 1 = d + n + 1 /\ d + n \in Nat /\ ~ (d + n < 0)
          /\ 0 <= d + n /\ d + n < L /\ 0 <= d + n + 1 /\ d + n + 1 < L
      BY <1>1, <1>6, <3>1
    <3>3. /\ CellAt(c, d + n) = End64(n, n, d - b) /\ CellAt(c, d + n + 1) = Locator(d + n, 1)
      BY <1>3, <2>13
    <3>4. o64 = findZIP64End(g, E)
      BY <3>1 DEF o64
    <3>5. CASE CellAt(g, d + n + 1) = Zero
      <4>1. ~ Reads(g, E - 1, "locator")
        BY <1>5, <3>2, <3>5 DEF Reads
      <4>2. o64 = -1
        BY <3>4, <4>1 DEF findZIP64End
      <4>3. readEnd(g) = EndOf(e, E)
        BY <2>9, <4>2
      <4>4. g # c
        <5>1. Locator(d + n, 1).t # Zero.t
          BY DEF Locator, Zero
        <5> QED  BY <3>3, <3>5, <5>1
      <4> QED  BY <2>11, <3>1, <4>3, <4>4 DEF c
    <3>6. CASE CellAt(g, d + n + 1) = CellAt(c, d + n + 1)
      <4>1. Locator(d + n, 1).t = "locator" /\ Locator(d + n, 1).disks = 1 /\ Locator(d + n, 1).off = d + n
        BY DEF Locator
      <4>2. Reads(g, E - 1, "locator") /\ CellAt(g, E - 1).disks = 1 /\ CellAt(g, E - 1).off = d + n
        BY <1>4, <3>2, <3>3, <3>6, <4>1 DEF Reads
      <4>3. o64 = d + n
        BY <3>4, <4>2 DEF findZIP64End
      <4>4. readEnd(g) = IF Reads(g, d + n, "end64") THEN EndOf(CellAt(g, d + n), d + n) ELSE NoEnd
        BY <2>9, <3>2, <4>3
      <4>5. End64(n, n, d - b).t = "end64" /\ End64(n, n, d - b).n = n /\ End64(n, n, d - b).size = n
            /\ End64(n, n, d - b).off = d - b
        BY DEF End64
      <4>6. CASE CellAt(g, d + n) = Zero
        <5>1. ~ Reads(g, d + n, "end64")
          BY <1>5, <4>6 DEF Reads
        <5>2. g # c
          BY <1>5, <3>3, <4>5, <4>6
        <5>3. g # ZipContainer(s)
          BY <5>2 DEF c
        <5>4. readEnd(g) = NoEnd
          BY <4>4, <5>1
        <5> QED  BY <5>3, <5>4, Zenon
      <4>7. CASE CellAt(g, d + n) = CellAt(c, d + n)
        <5>1. Reads(g, d + n, "end64")
          BY <1>4, <3>2, <3>3, <4>5, <4>7 DEF Reads
        <5>2. readEnd(g) = EndOf(End64(n, n, d - b), d + n)
          BY <3>3, <4>4, <4>7, <5>1
        <5>3. TrueEnd(readEnd(g), s)
          BY <1>1, <2>11, <4>5, <5>2 DEF TrueEnd, n, d, b
        <5> QED  BY <5>3
      <4> QED  BY <1>4, <3>2, <4>6, <4>7
    <3> QED  BY <1>4, <3>2, <3>5, <3>6
  <2> QED  BY <2>12, <2>13
<1> QED  BY <1>8, <1>9

\* What a list has of a set that has every element of it is the list.
LEMMA SelectedAll ==
  ASSUME NEW s, Len(s) \in Nat, DOMAIN s = 1..Len(s), s = [k \in 1..Len(s) |-> s[k]], NEW T,
         \A k \in 1..Len(s) : s[k] \in T
  PROVE  Selected(s, T) = s
<1> DEFINE N == Len(s)
           at == {i \in DOMAIN s : s[i] \in T}
           R == {p \in at \X at : p[1] < p[2]}
           order == InOrder(at, R)
<1>1. Selected(s, T) = [k \in DOMAIN order |-> s[order[k]]]
  BY DEF Selected
<1>2. at = 1..N
  OBVIOUS
<1> HIDE DEF N
<1>3. N \in Nat
  BY DEF N
<1>4. \A e, f \in 1..N : <<e, f>> \in R <=> e < f
  BY <1>2
<1> HIDE DEF at, R
<1>5. ASSUME NEW e \in 1..N
      PROVE  Rank(1..N, R, e) = e - 1
  <2>1. \A x \in 1..N : <<x, e>> \in R <=> x < e
    BY <1>4
  <2>2. {x \in 1..N : <<x, e>> \in R} = 1..(e - 1)
    <3>1. \A x : x \in 1..N /\ x < e <=> x \in 1..(e - 1)
      BY <1>3
    <3> QED  BY <2>1, <3>1
  <2>3. Cardinality(1..(e - 1)) = e - 1
    <3>1. 1 \in Int /\ e - 1 \in Int /\ ~ (1 > e - 1 + 1)
      BY <1>3
    <3>2. Cardinality(1..(e - 1)) = IF 1 > e - 1 THEN 0 ELSE (e - 1) - 1 + 1
      BY <3>1, FS_Interval
    <3>3. e \in Nat /\ e >= 1
      BY <1>3
    <3> QED  BY <3>2, <3>3
  <2> QED  BY <2>2, <2>3 DEF Rank
<1>6. Cardinality(1..N) = N
  <2>1. 1 \in Int /\ N \in Int
    BY <1>3
  <2>2. Cardinality(1..N) = IF 1 > N THEN 0 ELSE N - 1 + 1
    BY <2>1, FS_Interval
  <2>3. N >= 1 \/ N = 0
    BY <1>3
  <2> QED  BY <1>3, <2>2, <2>3
<1>7. order = [k \in 1..N |-> CHOOSE e \in 1..N : Rank(1..N, R, e) = k - 1]
  BY <1>2, <1>6 DEF InOrder
<1>8. ASSUME NEW k \in 1..N
      PROVE  order[k] = k
  <2>1. order[k] = CHOOSE e \in 1..N : Rank(1..N, R, e) = k - 1
    BY <1>7
  <2>2. \A e \in 1..N : Rank(1..N, R, e) = k - 1 <=> e = k
    <3>1. \A e \in 1..N : e - 1 = k - 1 <=> e = k
      BY <1>3
    <3> QED  BY <1>5, <3>1
  <2> QED  BY <2>1, <2>2
<1>9. DOMAIN order = 1..N
  BY <1>7
<1> HIDE DEF order
<1>10. Selected(s, T) = [k \in 1..N |-> s[k]]
  BY <1>1, <1>8, <1>9
<1> QED  BY <1>10 DEF N

\* A directory record says what the entry is, from the end of the stub.
LEMMA DirRecordIs ==
  ASSUME NEW s \in ZipShapes, Fits(s), NEW i \in 1..Len(s.sizes)
  PROVE  LET r == DirRecord(s, i)
         IN  /\ r.t = "cd" /\ Len(r.extra) >= Len(Escalated(r))
             /\ Resolve(r) = [id |-> i, comp |-> s.sizes[i], off |-> EntryAt(s, i) - s.stub]
<1> DEFINE n == Len(s.sizes)
           d == DirAt(s)
           b == s.stub
           z == s.sizes[i]
           p == EntryAt(s, i)
           q == EntryAt(s, i + 1)
           f == p - b
           r == DirRecord(s, i)
           x == IF r.comp = Saturated THEN <<"comp">> ELSE <<>>
           y == IF r.off = Saturated THEN <<"off">> ELSE <<>>
<1>1. s.zip64 \in {"no", "off", "all"} /\ b \in Nat /\ p \in Nat /\ z \in Nat /\ q = p + 1 + z
      /\ q \in Nat /\ b <= p /\ q <= d /\ p <= d /\ d \in Nat /\ n \in Nat
  <2>1. ZipParts(s)
    BY ZipShapesAre
  <2>2. /\ n \in 0..MaxEntries /\ DOMAIN s.sizes = 1..n
        /\ s.sizes[i] \in Nat
        /\ b \in {0, 1}
        /\ s.zip64 \in {"no", "off", "all"}
        /\ EntryAt(s, n + 1) = d
        /\ \A j \in 1..(n + 1) : EntryAt(s, j) \in Nat /\ b <= EntryAt(s, j) /\ EntryAt(s, j) <= d
        /\ EntryAt(s, i + 1) = EntryAt(s, i) + 1 + s.sizes[i]
    BY <2>1 DEF ZipParts
  <2> HIDE DEF n, d, b
  <2>3. n \in Nat /\ i \in 1..n
    BY <2>2, ZipAssumption DEF n
  <2>4. i \in 1..(n + 1) /\ i + 1 \in 1..(n + 1) /\ n + 1 \in 1..(n + 1)
    BY <2>3
  <2> QED  BY <2>2, <2>3, <2>4
<1>2. Saturated \in Nat
  BY ZipAssumption
<1>3. /\ s.zip64 = "no" => d < Saturated /\ r = Cd(i, z, f, <<>>)
      /\ s.zip64 = "off" => z < Saturated /\ r = Cd(i, z, Saturated, <<f>>)
      /\ s.zip64 = "all" => r = Cd(i, Saturated, Saturated, <<z, f>>)
  <2>1. i \in DOMAIN s.sizes
    BY ZipShapesAre DEF ZipParts
  <2> QED  BY <2>1 DEF Fits, DirRecord
<1>4. Escalated(r) = x \o y /\ Resolve(r) = [id |-> r.id, comp |-> IF r.comp = Saturated THEN r.extra[1] ELSE r.comp,
                                             off |-> IF r.off = Saturated THEN r.extra[Len(Escalated(r))] ELSE r.off]
  BY DEF Escalated, Resolve
<1>5. \A c, o, e : /\ Cd(i, c, o, e).t = "cd" /\ Cd(i, c, o, e).id = i /\ Cd(i, c, o, e).comp = c
                   /\ Cd(i, c, o, e).off = o /\ Cd(i, c, o, e).extra = e
  BY DEF Cd
<1> DEFINE X == Escalated(r)
<1> HIDE DEF n, d, b, z, p, q, r, f, X
<1>6. CASE s.zip64 = "no"
  <2>1. z # Saturated /\ f # Saturated
    BY <1>1, <1>2, <1>3, <1>6 DEF f
  <2>2. r.t = "cd" /\ r.id = i /\ r.comp = z /\ r.off = f /\ r.extra = <<>>
    BY <1>3, <1>5, <1>6
  <2>3. X = <<>>
    BY <1>4, <2>1, <2>2 DEF X
  <2>4. Resolve(r) = [id |-> i, comp |-> z, off |-> f]
    BY <1>4, <2>1, <2>2
  <2>5. Len(r.extra) >= Len(X)
    BY <2>2, <2>3
  <2> QED  BY <2>2, <2>4, <2>5 DEF r, z, f, p, b, X
<1>7. CASE s.zip64 = "off"
  <2>1. z # Saturated
    BY <1>1, <1>2, <1>3, <1>7
  <2>2. r.t = "cd" /\ r.id = i /\ r.comp = z /\ r.off = Saturated /\ r.extra = <<f>>
    BY <1>3, <1>5, <1>7
  <2>3. X = <<"off">>
    BY <1>4, <2>1, <2>2 DEF X
  <2>4. Len(X) = 1 /\ r.extra[1] = f /\ Len(r.extra) = 1
    BY <2>2, <2>3
  <2>5. Resolve(r) = [id |-> i, comp |-> z, off |-> f]
    BY <1>4, <2>1, <2>2, <2>4 DEF X
  <2>6. Len(r.extra) >= Len(X)
    BY <2>4
  <2> QED  BY <2>2, <2>5, <2>6 DEF r, z, f, p, b, X
<1>8. CASE s.zip64 = "all"
  <2>2. r.t = "cd" /\ r.id = i /\ r.comp = Saturated /\ r.off = Saturated /\ r.extra = <<z, f>>
    BY <1>3, <1>5, <1>8
  <2>1. x = <<"comp">> /\ y = <<"off">>
    BY <2>2
  <2>3. Len(X) = 2
    <3> HIDE DEF x, y
    <3>1. X = x \o y
      BY <1>4 DEF X
    <3>2. \A u, v : Len(<<u>> \o <<v>>) = 2
      OBVIOUS
    <3>3. Len(x \o y) = 2
      BY <2>1, <3>2, Zenon
    <3> QED  BY <3>1, <3>3
  <2>4. Len(X) = 2 /\ r.extra[1] = z /\ r.extra[2] = f /\ Len(r.extra) = 2
    BY <2>2, <2>3
  <2>5. Resolve(r) = [id |-> i, comp |-> z, off |-> f]
    BY <1>4, <2>2, <2>4 DEF X
  <2>6. Len(r.extra) >= Len(X)
    BY <2>4
  <2> QED  BY <2>2, <2>5, <2>6 DEF r, z, f, p, b, X
<1> QED  BY <1>1, <1>6, <1>7, <1>8

\* The records that are read: the first of those that were written.
Told(all, s, m) == all = [k \in 1..m |-> PackedEntries(s)[k]]
\* The directory of a faded container tells its first m entries.
LEMMA DirectoryIs ==
  ASSUME NEW s \in ZipShapes, Fits(s), NEW g, Faded(g, ZipContainer(s)), NEW e, TrueEnd(e, s)
  PROVE  \E m \in 0..Len(s.sizes) : /\ Told(Records(g, e, baseOffset(g, e)), s, m)
                                    /\ g = ZipContainer(s) => m = Len(s.sizes)
<1> DEFINE n == Len(s.sizes)
           d == DirAt(s)
           c == ZipContainer(s)
           b == s.stub
           L == ZipLen(s)
           P(i) == EntryAt(s, i)
           z == s.sizes
           D(i) == DirRecord(s, i)
<1>1. n \in Nat /\ d \in Nat /\ b \in {0, 1} /\ b <= d /\ DOMAIN z = 1..n
      /\ \A i \in 1..n : P(i) \in Nat
  <2>1. ZipParts(s)
    BY ZipShapesAre
  <2>2. n \in 0..MaxEntries /\ MaxEntries \in Nat /\ b \in {0, 1} /\ EntryAt(s, n + 1) = d /\ DOMAIN z = 1..n
        /\ \A i \in 1..(n + 1) : EntryAt(s, i) \in Nat /\ b <= EntryAt(s, i)
    BY <2>1, ZipAssumption DEF ZipParts
  <2> HIDE DEF n, d, b, z
  <2>3. n \in Nat /\ n + 1 \in 1..(n + 1)
    BY <2>2
  <2>4. \A i \in 1..n : i \in 1..(n + 1)
    BY <2>3
  <2> QED  BY <2>2, <2>3, <2>4
<1>2. Len(g) = L /\ (\A o \in 0..(L - 1) : CellAt(g, o) = CellAt(c, o) \/ CellAt(g, o) = Zero)
  <2>1. Len(c) = L
    BY ZipContainerIs
  <2> QED  BY <2>1 DEF Faded
<1>3. L \in Nat /\ d + n < L
  <2>1. L \in Nat /\ d + n <= EndAt(s) /\ EndAt(s) \in Nat /\ L = EndAt(s) + 1 + s.comment
    BY ZipContainerIs DEF ZipLen
  <2>2. s.comment \in {0, 1}
    BY ZipShapesAre DEF ZipParts
  <2> HIDE DEF L, d, n
  <2>3. EndAt(s) < L
    BY <2>1, <2>2
  <2> QED  BY <1>1, <2>1, <2>3
<1>4. \A o \in 0..(L - 1) : CellAt(c, o).t = "cd" => d <= o /\ o < d + n
  BY ZipTypesAre DEF ZipTypes
<1>5. \A i \in 1..n : CellAt(c, d + i - 1) = D(i)
  BY ZipContainerHolds DEF ZipHolds
<1>6. \A i \in 1..n : /\ D(i).t = "cd" /\ Len(D(i).extra) >= Len(Escalated(D(i)))
                      /\ Resolve(D(i)) = [id |-> i, comp |-> z[i], off |-> P(i) - b]
  BY DirRecordIs
<1>7. e.size = n /\ e.off = d - b /\ e.at = d + n
  BY DEF TrueEnd
<1>8. PackedEntries(s) = [i \in 1..n |-> [id |-> i, comp |-> z[i], off |-> P(i)]]
  BY <1>1 DEF PackedEntries
<1> HIDE DEF n, d, c, b, L, P, z, D
<1>9. \A o \in Int : ParsesAt(g, o) => d <= o /\ o < d + n /\ CellAt(g, o) = CellAt(c, o)
  <2> SUFFICES ASSUME NEW o \in Int, ParsesAt(g, o)
               PROVE  d <= o /\ o < d + n /\ CellAt(g, o) = CellAt(c, o)
    OBVIOUS
  <2>1. o \in 0..(L - 1) /\ CellAt(g, o).t = "cd"
    BY <1>2, <1>3 DEF ParsesAt, Reads
  <2>2. CellAt(g, o) = CellAt(c, o)
    BY <1>2, <2>1 DEF Zero
  <2> QED  BY <1>4, <2>1, <2>2
<1>10. baseOffset(g, e) = b
  <2>1. e.at - e.size - e.off = b
    BY <1>1, <1>7
  <2>2. b > 0 => ~ ParsesAt(g, e.off)
    <3>1. b > 0 => e.off \in Int /\ ~ (d <= e.off)
      BY <1>1, <1>7
    <3> QED  BY <1>9, <3>1
  <2> QED  BY <2>1, <2>2 DEF baseOffset
<1> DEFINE start == b + e.off
           stop == Smaller(start + e.size + (Len(g) - e.at), Len(g))
           bad == {o \in start..(stop - 1) : ~ ParsesAt(g, o)}
           past == IF bad = {} THEN stop ELSE Lowest(bad)
           record(i) == Resolve(CellAt(g, start + i - 1))
<1>11. Records(g, e, b) = [i \in 1..(past - start) |->
                            [id |-> record(i).id, comp |-> record(i).comp, off |-> record(i).off + b]]
  BY DEF Records
<1>12. start = d
  BY <1>1, <1>7
<1>13. stop = L
  <2>1. start + e.size + (Len(g) - e.at) = L
    BY <1>1, <1>2, <1>3, <1>7, <1>12
  <2> HIDE DEF start
  <2> QED  BY <1>2, <2>1 DEF Smaller
<1> HIDE DEF start, stop
<1>14. bad \in SUBSET Nat /\ d + n \in bad /\ \A o \in bad : d <= o
  <2>1. \A o \in d..(L - 1) : o \in Nat /\ d <= o
    BY <1>1, <1>3
  <2>2. d + n \in d..(L - 1) /\ d + n \in Int /\ ~ (d + n < d + n)
    BY <1>1, <1>3
  <2>3. ~ ParsesAt(g, d + n)
    BY <1>9, <2>2
  <2> QED  BY <1>12, <1>13, <2>1, <2>2, <2>3
<1>15. \A o \in d..(L - 1) : o \notin bad => ParsesAt(g, o)
  BY <1>12, <1>13
<1>16. g = c => \A o \in bad : d + n <= o
  <2> SUFFICES ASSUME g = c, NEW o \in bad
               PROVE  d + n <= o
    OBVIOUS
  <2>1. o \in d..(L - 1) /\ ~ ParsesAt(g, o)
    BY <1>12, <1>13
  <2>2. CASE o < d + n
    <3>1. o - d + 1 \in 1..n /\ d + (o - d + 1) - 1 = o /\ o >= 0 /\ o < L
      BY <1>1, <1>3, <2>1, <2>2
    <3>2. CellAt(g, o) = D(o - d + 1)
      BY <1>5, <2>1, <3>1
    <3>3. ParsesAt(g, o)
      BY <1>2, <1>6, <3>1, <3>2 DEF ParsesAt, Reads
    <3> QED  BY <2>1, <3>3
  <2>3. o \in Nat
    BY <1>14
  <2> QED  BY <1>1, <2>2, <2>3
<1> HIDE DEF bad
<1>17. past = Lowest(bad) /\ past \in bad /\ \A o \in bad : past <= o
  BY <1>14, LowestOf
<1> HIDE DEF past
<1> DEFINE m == past - d
<1>18. m \in 0..n /\ (g = c => m = n) /\ past \in Nat /\ past <= d + n
  <2>1. past \in Nat /\ d <= past /\ past <= d + n /\ (g = c => d + n <= past)
    BY <1>14, <1>16, <1>17
  <2> QED  BY <1>1, <2>1
<1>19. ASSUME NEW k \in 1..m
       PROVE  record(k) = [id |-> k, comp |-> z[k], off |-> P(k) - b] /\ P(k) - b + b = P(k) /\ k \in 1..n
  <2>1. k \in 1..n /\ d + k - 1 \in d..(L - 1) /\ d + k - 1 < past /\ d + k - 1 \in Int
    BY <1>1, <1>3, <1>18
  <2>2. d + k - 1 \notin bad
    <3>1. d + k - 1 \in bad => past <= d + k - 1
      BY <1>17
    <3> QED  BY <1>1, <1>18, <2>1, <3>1
  <2>3. CellAt(g, d + k - 1) = D(k)
    BY <1>5, <1>9, <1>15, <2>1, <2>2
  <2>4. P(k) - b + b = P(k)
    BY <1>1, <2>1
  <2> QED  BY <1>6, <1>12, <2>1, <2>3, <2>4
<1>20. Records(g, e, b) = [k \in 1..m |-> PackedEntries(s)[k]]
  <2> DEFINE row(k) == [id |-> record(k).id, comp |-> record(k).comp, off |-> record(k).off + b]
  <2>1. ASSUME NEW k \in 1..m
        PROVE  row(k) = PackedEntries(s)[k]
    <3>1. record(k).id = k /\ record(k).comp = z[k] /\ record(k).off = P(k) - b
      <4>1. record(k) = [id |-> k, comp |-> z[k], off |-> P(k) - b]
        BY <1>19
      <4> HIDE DEF record, m
      <4> QED  BY <4>1
    <3>2. row(k) = [id |-> k, comp |-> z[k], off |-> P(k)]
      BY <1>19, <3>1
    <3> QED  BY <1>8, <1>19, <3>2
  <2>2. past - start = m
    BY <1>12
  <2> HIDE DEF m, record
  <2>3. Records(g, e, b) = [k \in 1..m |-> row(k)]
    BY <1>11, <2>2 DEF record
  <2> HIDE DEF row
  <2> QED  BY <2>1, <2>3
<1> HIDE DEF m
<1>21. Told(Records(g, e, b), s, m)
  BY <1>20 DEF Told
<1> QED  BY <1>10, <1>18, <1>21 DEF n, c

\* What is read of a container that lost some cells: a salvage, nothing, or the
\* first records of its directory; of a whole one, all of them.
ReadAs(a, s, m) ==
  /\ Told(a.entries, s, m) /\ a.salvaged = FALSE /\ a.read = TRUE
  /\ a.ok = (m % Wrap = Len(s.sizes) % Wrap)
LEMMA AnswerIs ==
  ASSUME NEW entries, NEW ok, NEW salvaged
  PROVE  /\ ZipAnswer(entries, ok, salvaged).entries = entries /\ ZipAnswer(entries, ok, salvaged).ok = ok
         /\ ZipAnswer(entries, ok, salvaged).salvaged = salvaged /\ ZipAnswer(entries, ok, salvaged).read = TRUE
BY DEF ZipAnswer

\* What ReadCentralDirectory answers of a faded container.
LEMMA ReadIs ==
  ASSUME NEW s \in ZipShapes, Fits(s), NEW g, Faded(g, ZipContainer(s))
  PROVE  LET a == ReadCentralDirectory(g)
         IN  /\ \/ a = ZipAnswer(Salvage(g), FALSE, TRUE)
                \/ a = ZipAnswer(<<>>, FALSE, FALSE)
                \/ \E m \in 0..Len(s.sizes) : ReadAs(a, s, m)
             /\ g = ZipContainer(s) => ReadAs(a, s, Len(s.sizes))
<1> DEFINE n == Len(s.sizes)
           d == DirAt(s)
           c == ZipContainer(s)
           L == ZipLen(s)
           P(i) == EntryAt(s, i)
           e == readEnd(g)
           all == Records(g, e, baseOffset(g, e))
           usable == InFile(all, g)
           start == e.at - e.size
           a == ReadCentralDirectory(g)
           ok == CountAgrees(all, e) /\ Len(usable) = Len(all)
<1>1. /\ n \in 0..MaxEntries /\ MaxEntries \in Nat /\ DOMAIN s.sizes = 1..n /\ P(n + 1) = d
      /\ \A i \in 1..(n + 1) : P(i) \in Nat
      /\ \A i \in 1..n : P(i + 1) = P(i) + 1 + s.sizes[i] /\ s.sizes[i] \in Nat
      /\ \A i, j \in 1..(n + 1) : i <= j => P(i) <= P(j)
  BY ZipShapesAre, ZipAssumption DEF ZipParts
<1>2. L \in Nat /\ Len(g) = L /\ d + n < L
  <2>1. L \in Nat /\ d + n <= EndAt(s) /\ EndAt(s) \in Nat /\ L = EndAt(s) + 1 + s.comment /\ Len(c) = L
    BY ZipContainerIs DEF ZipLen
  <2>2. s.comment \in {0, 1}
    BY ZipShapesAre DEF ZipParts
  <2>3. Len(g) = L
    BY <2>1 DEF Faded
  <2> HIDE DEF L, d, n, P
  <2>4. EndAt(s) < L
    BY <2>1, <2>2
  <2>5. d \in Nat /\ n \in Nat
    <3>1. n \in Nat /\ n + 1 \in 1..(n + 1)
      BY <1>1
    <3> QED  BY <1>1, <3>1
  <2> QED  BY <2>1, <2>3, <2>4, <2>5
<1>3. PackedEntries(s) = [i \in 1..n |-> [id |-> i, comp |-> s.sizes[i], off |-> P(i)]]
  BY <1>1 DEF PackedEntries
<1>4. /\ e = NoEnd \/ (e.ok = TRUE /\ e.size = Saturated) \/ TrueEnd(e, s)
      /\ g = c => TrueEnd(e, s)
  BY ReadEndIs
<1>5. TrueEnd(e, s) => \E m \in 0..n : Told(all, s, m) /\ (g = c => m = n)
  <2> HIDE DEF e
  <2> QED  BY DirectoryIs
<1>6. a = IF Len(g) = 0 THEN ZipAnswer(<<>>, FALSE, FALSE)
          ELSE IF ~ e.ok THEN ZipAnswer(Salvage(g), FALSE, TRUE)
          ELSE IF start < 0 \/ start >= Len(g) \/ e.size > MaxDir THEN ZipAnswer(<<>>, FALSE, FALSE)
          ELSE ZipAnswer(usable, ok, FALSE)
  BY DEF ReadCentralDirectory
<1>7. TrueEnd(e, s) => e.ok = TRUE /\ e.size = n /\ e.at = d + n /\ e.n \in Nat /\ e.n % Wrap = n % Wrap
  <2> HIDE DEF e
  <2> QED  BY DEF TrueEnd
<1>8. usable = Selected(all, {x \in {all[k] : k \in DOMAIN all} : usableEntry(x, Len(g))})
  BY DEF InFile
<1>9. CountAgrees(all, e) <=> Len(all) % Wrap = e.n % Wrap
  BY DEF CountAgrees
<1> HIDE DEF n, d, c, L, P, e, all, usable, a
<1>10. n \in Nat /\ d \in Nat /\ \A i \in 1..n : i \in 1..(n + 1) /\ i + 1 \in 1..(n + 1) /\ i + 1 <= n + 1
  <2>1. n \in Nat
    BY <1>1
  <2>2. n + 1 \in 1..(n + 1) /\ \A i \in 1..n : i \in 1..(n + 1) /\ i + 1 \in 1..(n + 1) /\ i + 1 <= n + 1
    BY <2>1
  <2> QED  BY <1>1, <2>1, <2>2
<1>11. Len(g) # 0 /\ MaxDir \in Nat /\ Saturated \in Nat /\ n <= MaxDir /\ MaxDir < Saturated
  BY <1>1, <1>2, <1>10, ZipAssumption
<1>12. CASE e = NoEnd
  <2>1. ~ e.ok
    BY <1>12 DEF NoEnd
  <2>2. a = ZipAnswer(Salvage(g), FALSE, TRUE)
    BY <1>6, <1>11, <2>1
  <2>3. ~ TrueEnd(e, s)
    BY <2>1 DEF TrueEnd
  <2>4. g # ZipContainer(s)
    BY <1>4, <2>3 DEF c
  <2> QED  BY <2>2, <2>4, Zenon DEF a
<1>13. CASE e.ok = TRUE /\ e.size = Saturated
  <2>1. e.size > MaxDir /\ e.size # n
    BY <1>10, <1>11, <1>13
  <2>2. a = ZipAnswer(<<>>, FALSE, FALSE)
    BY <1>6, <1>11, <1>13, <2>1
  <2>3. ~ TrueEnd(e, s)
    BY <1>7, <2>1
  <2>4. g # ZipContainer(s)
    BY <1>4, <2>3 DEF c
  <2> QED  BY <2>2, <2>4, Zenon DEF a
<1>14. CASE TrueEnd(e, s)
  <2>1. PICK m \in 0..n : Told(all, s, m) /\ (g = c => m = n)
    BY <1>5, <1>14
  <2>2. m \in Nat /\ m <= n
    BY <1>10
  <2>3. all = [k \in 1..m |-> PackedEntries(s)[k]]
    BY <2>1 DEF Told
  <2>4. Len(all) = m /\ DOMAIN all = 1..m /\ all = [k \in 1..m |-> all[k]]
    BY <2>2, <2>3
  <2>5. ASSUME NEW k \in 1..m
        PROVE  usableEntry(all[k], Len(g))
    <3>1. k \in 1..n /\ k \in 1..(n + 1) /\ k + 1 \in 1..(n + 1) /\ k + 1 <= n + 1 /\ n + 1 \in 1..(n + 1)
      BY <1>10, <2>2
    <3>2. all[k] = [id |-> k, comp |-> s.sizes[k], off |-> P(k)]
      BY <1>3, <2>3, <3>1
    <3>3. P(k) \in Nat /\ s.sizes[k] \in Nat /\ P(k + 1) = P(k) + 1 + s.sizes[k] /\ P(k + 1) <= d
      BY <1>1, <3>1
    <3>4. all[k].off = P(k) /\ all[k].comp = s.sizes[k]
      BY <3>2
    <3>5. P(k) < L /\ s.sizes[k] <= L
      BY <1>2, <1>10, <3>3
    <3> QED  BY <1>2, <3>3, <3>4, <3>5 DEF usableEntry
  <2>6. usable = all
    <3> DEFINE T == {x \in {all[k] : k \in DOMAIN all} : usableEntry(x, Len(g))}
    <3>1. \A k \in 1..Len(all) : all[k] \in T
      BY <2>4, <2>5
    <3>2. Len(all) \in Nat /\ DOMAIN all = 1..Len(all) /\ all = [k \in 1..Len(all) |-> all[k]]
      BY <2>2, <2>4
    <3> HIDE DEF T
    <3>3. Selected(all, T) = all
      BY <3>1, <3>2, SelectedAll
    <3> QED  BY <1>8, <3>3 DEF T
  <2>7. ok <=> m % Wrap = n % Wrap
    BY <1>7, <1>9, <1>14, <2>4, <2>6
  <2> HIDE DEF ok
  <2>8. ~ (start < 0 \/ start >= Len(g) \/ e.size > MaxDir)
    <3>1. e.size = n /\ e.at = d + n
      BY <1>7, <1>14
    <3>2. start = d
      BY <1>10, <3>1
    <3> HIDE DEF start
    <3> QED  BY <1>2, <1>10, <1>11, <3>1, <3>2
  <2>9. a = ZipAnswer(usable, ok, FALSE)
    BY <1>6, <1>7, <1>11, <1>14, <2>8
  <2>10. a.entries = all /\ a.ok = ok /\ a.salvaged = FALSE /\ a.read = TRUE
    <3>1. a = ZipAnswer(all, ok, FALSE)
      BY <2>6, <2>9, Zenon
    <3>2. /\ ZipAnswer(all, ok, FALSE).entries = all /\ ZipAnswer(all, ok, FALSE).ok = ok
          /\ ZipAnswer(all, ok, FALSE).salvaged = FALSE /\ ZipAnswer(all, ok, FALSE).read = TRUE
      BY ONLY AnswerIs, Zenon
    <3> QED  BY <3>1, <3>2, Zenon
  <2>11. a.ok = (m % Wrap = n % Wrap)
    <3>1. ok \in BOOLEAN
      BY DEF ok
    <3>2. ok = (m % Wrap = n % Wrap)
      BY <2>7, <3>1
    <3> QED  BY <2>10, <3>2
  <2>12. ReadAs(a, s, m)
    BY <2>1, <2>10, <2>11 DEF ReadAs, n
  <2>13. g = ZipContainer(s) => ReadAs(a, s, Len(s.sizes))
    BY <2>1, <2>12 DEF c, n
  <2>14. \E k \in 0..Len(s.sizes) : ReadAs(a, s, k)
    BY <2>12 DEF n
  <2> QED  BY <2>13, <2>14, Zenon DEF a
<1> QED  BY <1>4, <1>12, <1>13, <1>14, Zenon

\* Nothing is read by its directory once the end record does not fit any more.
LEMMA NoEndLeft ==
  ASSUME NEW g, NEW E,
         \A o \in Int : Reads(g, o, "end") => o = E /\ E + 1 + CellAt(g, E).cmt > Len(g)
  PROVE  readEnd(g) = NoEnd
<1>1. ASSUME NEW n
      PROVE  findEOCD(g, n) = -1
  <2> DEFINE found == {o \in (Len(g) - n)..(Len(g) - 1) : Reads(g, o, "end")}
             x == CHOOSE p \in found : \A q \in found : q <= p
  <2>1. findEOCD(g, n) = IF found = {} \/ x + 1 + CellAt(g, x).cmt > Len(g) THEN -1 ELSE x
    BY DEF findEOCD
  <2>2. \A o \in found : o \in Int /\ Reads(g, o, "end")
    OBVIOUS
  <2>3. \A o \in found : o = E /\ E + 1 + CellAt(g, E).cmt > Len(g) /\ E \in Int
    BY <2>2
  <2> HIDE DEF found
  <2>4. CASE found = {}
    BY <2>1, <2>4
  <2>5. CASE found # {}
    <3>1. found = {E} /\ E \in Int
      BY <2>3, <2>5
    <3>2. x = E
      BY <3>1
    <3> HIDE DEF x
    <3>3. x + 1 + CellAt(g, x).cmt > Len(g)
      BY <2>3, <3>1, <3>2
    <3> QED  BY <2>1, <3>3
  <2> QED  BY <2>4, <2>5
<1> QED  BY <1>1, ReadEndNot

\* What it answers of one that was cut.
LEMMA CutIs ==
  ASSUME NEW s \in ZipShapes, NEW k \in 1..(Len(ZipContainer(s)) - 1)
  PROVE  LET g == SubSeq(ZipContainer(s), 1, k)
         IN  /\ Len(g) = k /\ k \in Nat /\ k < ZipLen(s) /\ readEnd(g) = NoEnd
             /\ \A o \in 0..(k - 1) : CellAt(g, o) = CellAt(ZipContainer(s), o)
<1> DEFINE c == ZipContainer(s)
           L == ZipLen(s)
           E == EndAt(s)
           m == s.comment
           g == SubSeq(c, 1, k)
<1>1. Len(c) = L /\ L \in Nat /\ E \in Nat /\ L = E + 1 + m /\ m \in {0, 1}
  <2>1. m \in {0, 1}
    BY ZipShapesAre DEF ZipParts
  <2> QED  BY <2>1, ZipContainerIs DEF ZipLen
<1>2. CellAt(c, E) = ZipEnd(s) /\ \A o \in 0..(L - 1) : CellAt(c, o).t = "end" => o = E
  BY ZipTypesAre DEF ZipTypes
<1>3. ZipEnd(s).cmt = m
  BY DEF ZipEnd, EndRecord
<1> HIDE DEF c, L, E, m
<1>4. k \in Nat /\ k >= 1 /\ k < L
  <2>1. k \in 1..(L - 1)
    BY <1>1 DEF c
  <2> QED  BY <1>1, <2>1
<1>5. Len(g) = k /\ \A i \in 1..k : g[i] = c[i]
  <2> DEFINE S == {c[i] : i \in 1..k}
  <2>1. 1 \in Int /\ k \in Int /\ \A i \in 1..k : c[i] \in S
    BY <1>4
  <2> HIDE DEF S
  <2>2. /\ Len(g) = IF 1 <= k THEN k - 1 + 1 ELSE 0
        /\ \A i \in 1..(k - 1 + 1) : g[i] = c[1 + i - 1]
    BY <2>1, SubSeqProperties
  <2> HIDE DEF g
  <2>3. k - 1 + 1 = k /\ \A i \in 1..k : 1 + i - 1 = i
    BY <1>4
  <2> QED  BY <1>4, <2>2, <2>3
<1> HIDE DEF g
<1>6. \A o \in 0..(k - 1) : CellAt(g, o) = CellAt(c, o)
  <2>1. \A o \in 0..(k - 1) : o + 1 \in 1..k
    BY <1>4
  <2> QED  BY <1>5, <2>1 DEF CellAt
<1>7. ASSUME NEW o \in Int, Reads(g, o, "end")
      PROVE  o = E /\ E + 1 + CellAt(g, E).cmt > Len(g)
  <2>1. o \in 0..(k - 1) /\ o \in 0..(L - 1) /\ CellAt(g, o).t = "end" /\ Len(g) = k
    BY <1>1, <1>4, <1>5, <1>7 DEF Reads
  <2>2. o = E /\ CellAt(g, E) = ZipEnd(s)
    BY <1>2, <1>6, <2>1
  <2> QED  BY <1>1, <1>3, <1>4, <2>1, <2>2
<1>8. readEnd(g) = NoEnd
  BY <1>7, NoEndLeft
<1> QED  BY <1>4, <1>5, <1>6, <1>8 DEF c, L, g

\* A container with cells wiped out, cut short, or with one size that is one too
\* large: what there is for a salvage.
Ruined(g, s, w) ==
  /\ Len(g) \in Nat /\ Len(g) <= ZipLen(s)
  /\ \A o \in 0..(Len(g) - 1) :
       \/ CellAt(g, o) \in {CellAt(ZipContainer(s), o), Zero}
       \/ /\ w \in 1..Len(s.sizes) /\ o = EntryAt(s, w)
          /\ CellAt(g, o) = Loc(w, s.sizes[w] + 1, FALSE)

\* A container that lost its end record and has one wrong size is a ruin.
LEMMA SizeIs ==
  ASSUME NEW s \in ZipShapes, NEW k \in 1..(Len(ZipContainer(s)) - 1),
         ZipContainer(s)[k].t = "loc", ZipContainer(s)[k].id # Phantom, ~ ZipContainer(s)[k].desc
  PROVE  LET c == ZipContainer(s)
             g == [i \in 1..(Len(c) - 1 - s.comment) |-> IF i = k THEN Loc(c[k].id, c[k].comp + 1, FALSE) ELSE c[i]]
         IN  readEnd(g) = NoEnd /\ \E w : Ruined(g, s, w)
<1> DEFINE c == ZipContainer(s)
           n == Len(s.sizes)
           d == DirAt(s)
           L == ZipLen(s)
           E == EndAt(s)
           m == s.comment
           h == c[k]
           g == [i \in 1..(Len(c) - 1 - m) |-> IF i = k THEN Loc(h.id, h.comp + 1, FALSE) ELSE c[i]]
           o == k - 1
<1>1. Len(c) = L /\ L \in Nat /\ E \in Nat /\ L = E + 1 + m /\ m \in {0, 1} /\ s.stub \in {0, 1}
  <2>1. m \in {0, 1} /\ s.stub \in {0, 1}
    BY ZipShapesAre DEF ZipParts
  <2> QED  BY <2>1, ZipContainerIs DEF ZipLen
<1>2. \A p \in 0..(L - 1) : (CellAt(c, p).t = "end" => p = E) /\ (CellAt(c, p).t = "loc" => p < d)
  BY ZipTypesAre DEF ZipTypes
<1>3. /\ s.stub = 1 => CellAt(c, 0) = Data
      /\ \A p \in Nat : s.stub <= p /\ p < d => \E i \in 1..n : p = EntryAt(s, i) \/ InEntry(s, i, p)
      /\ \A i \in 1..n : CellAt(c, EntryAt(s, i)) = Loc(i, s.sizes[i], s.desc)
      /\ \A i \in 1..n, p \in Nat : InEntry(s, i, p) => CellAt(c, p) \in {Data, Loc(Phantom, 0, FALSE)}
  BY ZipContainerHolds DEF ZipHolds
<1>4. s.desc \in BOOLEAN
  BY ZipShapesAre DEF ZipParts
<1>5. h.t = "loc" /\ h.id # Phantom /\ ~ h.desc /\ k \in 1..(Len(c) - 1)
  OBVIOUS
<1> HIDE DEF c, n, d, L, E, m, h
<1>6. k \in Nat /\ o \in Nat /\ o \in 0..(L - 1) /\ CellAt(c, o) = h
  <2>1. k \in 1..(L - 1)
    BY <1>1, <1>5
  <2>2. k \in Nat /\ o \in Nat /\ o \in 0..(L - 1) /\ o + 1 = k
    BY <1>1, <2>1
  <2> HIDE DEF o
  <2> QED  BY <2>2 DEF CellAt, h
<1>7. PICK w \in 1..n : o = EntryAt(s, w)
  <2>1. o < d
    BY <1>2, <1>5, <1>6
  <2>2. s.stub <= o
    <3>1. s.stub = 1 => o # 0
      BY <1>3, <1>5, <1>6 DEF Data
    <3> QED  BY <1>1, <1>6, <3>1
  <2>3. PICK i \in 1..n : o = EntryAt(s, i) \/ InEntry(s, i, o)
    BY <1>3, <1>6, <2>1, <2>2
  <2>4. ~ InEntry(s, i, o)
    <3>1. h \notin {Data, Loc(Phantom, 0, FALSE)}
      <4>1. h # Data
        BY <1>5 DEF Data
      <4>2. Loc(Phantom, 0, FALSE).id = Phantom
        BY DEF Loc
      <4>3. h # Loc(Phantom, 0, FALSE)
        BY <1>5, <4>2
      <4> QED  BY <4>1, <4>3
    <3> QED  BY <1>3, <1>6, <3>1
  <2> QED  BY <2>3, <2>4
<1>8. h.id = w /\ h.comp = s.sizes[w]
  <2>1. h = Loc(w, s.sizes[w], s.desc)
    BY <1>3, <1>6, <1>7
  <2>2. h.desc = s.desc
    BY <2>1 DEF Loc
  <2>3. ~ s.desc
    BY <1>5, <2>2
  <2> QED  BY <2>1, <2>3 DEF Loc
<1> DEFINE lie == Loc(w, s.sizes[w] + 1, FALSE)
<1>9. Len(g) = E /\ \A p \in 0..(E - 1) : CellAt(g, p) = IF p = o THEN lie ELSE CellAt(c, p)
  <2>1. Len(c) - 1 - m = E
    BY <1>1
  <2>2. g = [i \in 1..E |-> IF i = k THEN lie ELSE c[i]]
    BY <1>8, <2>1
  <2> HIDE DEF g, lie
  <2>3. Len(g) = E
    BY <1>1, <2>2
  <2>4. \A p \in 0..(E - 1) : p + 1 \in 1..E /\ (p + 1 = k <=> p = o)
    BY <1>1, <1>6
  <2> QED  BY <2>2, <2>3, <2>4 DEF CellAt
<1> HIDE DEF o, g
<1>10. lie.t = "loc"
  BY DEF Loc
<1>11. readEnd(g) = NoEnd
  <2>1. ASSUME NEW p \in Int, Reads(g, p, "end")
        PROVE  FALSE
    <3>1. p \in 0..(E - 1) /\ CellAt(g, p).t = "end"
      BY <1>1, <1>9, <2>1 DEF Reads
    <3>2. CellAt(c, p).t = "end"
      BY <1>9, <1>10, <3>1
    <3>3. p \in 0..(L - 1) /\ p # E
      BY <1>1, <3>1
    <3> QED  BY <1>2, <3>2, <3>3
  <2>2. \A p \in Int : Reads(g, p, "end") => p = E /\ E + 1 + CellAt(g, E).cmt > Len(g)
    BY <2>1
  <2> QED  BY <2>2, NoEndLeft
<1>12. Ruined(g, s, w)
  <2>1. Len(g) \in Nat /\ Len(g) <= L
    BY <1>1, <1>9
  <2>2. ASSUME NEW p \in 0..(Len(g) - 1)
        PROVE  CellAt(g, p) \in {CellAt(c, p), Zero}
               \/ (w \in 1..n /\ p = EntryAt(s, w) /\ CellAt(g, p) = lie)
    BY <1>7, <1>9
  <2> QED  BY <2>1, <2>2 DEF Ruined, c, L, n
<1> QED  BY <1>11, <1>12 DEF g, h, c, m

\* The walk from header to header: its states, and what one step does.
Hits == [id : Nat, comp : Nat, off : Nat]
WalkStates == [o : Nat, lastData : Nat, searched : Nat, entries : Seq(Hits), over : BOOLEAN]
HeadsAreWhole(g) ==
  /\ Len(g) \in Nat
  /\ \A o \in 0..(Len(g) - 1) : CellAt(g, o).t = "loc" =>
       CellAt(g, o).comp \in Nat /\ CellAt(g, o).id \in Nat /\ CellAt(g, o).desc \in BOOLEAN
Goes(g, st) == Reads(g, st.o, "loc") /\ CellAt(g, st.o).desc = FALSE
Chains(g, st, nx) ==
  LET h == CellAt(g, st.o)
  IN  /\ Goes(g, st) /\ h.comp \in Nat /\ h.id \in Nat /\ st.o + 1 + h.comp <= Len(g)
      /\ nx.o = st.o + 1 + h.comp /\ nx.lastData = st.o + 1 /\ nx.searched = st.searched /\ nx.over = FALSE
      /\ nx.entries = Append(st.entries, [id |-> h.id, comp |-> h.comp, off |-> st.o])
Seeks(g, st, nx, data) ==
  LET from == Larger(data + 1, st.searched)
  IN  /\ st.o < Len(g) /\ Reads(g, nx.o, "loc") /\ from <= nx.o /\ nx.lastData = data /\ nx.searched = nx.o + 1
      /\ \A p \in Nat : Reads(g, p, "loc") /\ from <= p => nx.o <= p
      /\ nx.over = FALSE /\ nx.entries = st.entries
Gives(g, st, nx) ==
  /\ nx.over = TRUE /\ nx.entries = st.entries /\ nx.o = st.o /\ nx.lastData = st.lastData /\ nx.searched = st.searched
Barren(g, st, data) == \A p \in Nat : ~ (Reads(g, p, "loc") /\ Larger(data + 1, st.searched) <= p)
Moves(g, st, nx) ==
  \/ Chains(g, st, nx)
  \/ /\ st.o < Len(g) /\ ~ Reads(g, st.o, "loc") /\ ~ Reads(g, st.o, "cd")
     /\ Seeks(g, st, nx, st.lastData) \/ (Gives(g, st, nx) /\ Barren(g, st, st.lastData))
  \/ /\ Reads(g, st.o, "loc") /\ CellAt(g, st.o).desc = TRUE
     /\ Seeks(g, st, nx, st.o + 1) \/ (Gives(g, st, nx) /\ Barren(g, st, st.o + 1))
  \/ /\ Gives(g, st, nx)
     /\ \/ st.o >= Len(g)
        \/ Reads(g, st.o, "cd")
        \/ Goes(g, st) /\ st.o + 1 + CellAt(g, st.o).comp > Len(g)

\* A search goes to the next header, or ends the walk where there is none.
LEMMA SoughtIs ==
  ASSUME NEW g, HeadsAreWhole(g), NEW st \in WalkStates, NEW data \in Nat, st.o < Len(g)
  PROVE  LET nx == Sought(g, st, data)
         IN  /\ nx \in WalkStates
             /\ Seeks(g, st, nx, data) \/ (Gives(g, st, nx) /\ Barren(g, st, data))
<1> DEFINE from == Larger(data + 1, st.searched)
           heads == Heads(g, from)
           nx == Sought(g, st, data)
<1>1. st.o \in Nat /\ st.lastData \in Nat /\ st.searched \in Nat /\ st.entries \in Seq(Hits) /\ st.over \in BOOLEAN
      /\ Len(g) \in Nat
  BY DEF WalkStates, HeadsAreWhole
<1>2. from \in Nat
  BY <1>1 DEF Larger
<1>3. nx = IF heads = {} THEN Stopped(st)
           ELSE [ o |-> Lowest(heads), lastData |-> data, searched |-> Lowest(heads) + 1, over |-> FALSE,
                  entries |-> st.entries ]
  BY DEF Sought
<1>4. Barren(g, st, data) <=> \A p \in Nat : ~ (Reads(g, p, "loc") /\ from <= p)
  BY DEF Barren
<1>5. /\ st.o < Len(g) /\ Reads(g, nx.o, "loc") /\ from <= nx.o /\ nx.lastData = data /\ nx.searched = nx.o + 1
      /\ \A p \in Nat : Reads(g, p, "loc") /\ from <= p => nx.o <= p
      /\ nx.over = FALSE /\ nx.entries = st.entries
      => Seeks(g, st, nx, data)
  BY DEF Seeks
<1> HIDE DEF from, nx
<1>6. \A p : p \in heads <=> p \in Nat /\ Reads(g, p, "loc") /\ from <= p
  <2>1. \A p : p \in from..(Len(g) - 1) /\ Reads(g, p, "loc") <=> p \in Nat /\ Reads(g, p, "loc") /\ from <= p
    <3> SUFFICES ASSUME NEW p
                 PROVE  p \in from..(Len(g) - 1) /\ Reads(g, p, "loc") <=> p \in Nat /\ Reads(g, p, "loc") /\ from <= p
      OBVIOUS
    <3>1. p \in from..(Len(g) - 1) => p \in Nat /\ from <= p
      BY <1>1, <1>2
    <3>2. p \in Nat /\ Reads(g, p, "loc") /\ from <= p => p \in from..(Len(g) - 1)
      BY <1>1, <1>2 DEF Reads
    <3> QED  BY <3>1, <3>2
  <2> QED  BY <2>1 DEF Heads
<1> HIDE DEF heads
<1>7. CASE heads = {}
  <2>1. nx = Stopped(st)
    BY <1>3, <1>7
  <2>2. nx = [o |-> st.o, lastData |-> st.lastData, searched |-> st.searched, entries |-> st.entries, over |-> TRUE]
    BY <2>1 DEF Stopped
  <2>3. nx \in WalkStates
    BY <1>1, <2>2 DEF WalkStates
  <2>4. Gives(g, st, nx)
    BY <2>2 DEF Gives
  <2>5. Barren(g, st, data)
    BY <1>4, <1>6, <1>7
  <2> QED  BY <2>3, <2>4, <2>5 DEF nx
<1>8. CASE heads # {}
  <2> DEFINE l == Lowest(heads)
  <2>1. heads \in SUBSET Nat
    BY <1>6
  <2>2. l \in heads /\ \A p \in heads : l <= p
    BY <1>8, <2>1, LowestOf
  <2>3. nx = [o |-> l, lastData |-> data, searched |-> l + 1, over |-> FALSE, entries |-> st.entries]
    BY <1>3, <1>8
  <2> HIDE DEF l
  <2>4. nx.o = l /\ nx.lastData = data /\ nx.searched = l + 1 /\ nx.entries = st.entries
    BY <2>3
  <2>5. nx.over = FALSE
    BY <2>3
  <2>6. l \in Nat /\ Reads(g, l, "loc") /\ from <= l
    BY <1>6, <2>2
  <2>7. nx \in WalkStates
    BY <1>1, <2>3, <2>6 DEF WalkStates
  <2>8. Seeks(g, st, nx, data)
    BY <1>5, <1>6, <2>2, <2>4, <2>5, <2>6
  <2> QED  BY <2>7, <2>8 DEF nx
<1> QED  BY <1>7, <1>8

\* Every step of a walk is one of four, by what is at its offset.
LEMMA StepIs ==
  ASSUME NEW g, HeadsAreWhole(g), NEW st \in WalkStates
  PROVE  LET nx == salvageStep(g, st)
         IN  nx \in WalkStates /\ IF st.over THEN nx = st ELSE Moves(g, st, nx)
<1> DEFINE nx == salvageStep(g, st)
           v == HeaderVerdict(g, st.o)
           h == CellAt(g, st.o)
<1>1. st.o \in Nat /\ st.lastData \in Nat /\ st.searched \in Nat /\ st.entries \in Seq(Hits) /\ st.over \in BOOLEAN
      /\ Len(g) \in Nat
  BY DEF WalkStates, HeadsAreWhole
<1>2. nx = IF st.over THEN st
           ELSE CASE v = "stop" -> Stopped(st)
                  [] v = "ok" -> Chained(g, st)
                  [] v = "bad" -> Sought(g, st, st.lastData)
                  [] v = "skip" -> Sought(g, st, st.o + 1)
  BY DEF salvageStep
<1>3. v = IF st.o >= Len(g) \/ Reads(g, st.o, "cd") THEN "stop"
          ELSE IF ~ Reads(g, st.o, "loc") THEN "bad"
          ELSE IF h.desc THEN "skip"
          ELSE IF st.o + 1 + h.comp > Len(g) THEN "stop" ELSE "ok"
  BY DEF HeaderVerdict
<1>4. Reads(g, st.o, "loc") => h.comp \in Nat /\ h.id \in Nat /\ h.desc \in BOOLEAN
  <2>1. Reads(g, st.o, "loc") => st.o \in 0..(Len(g) - 1) /\ h.t = "loc"
    BY <1>1 DEF Reads
  <2> QED  BY <2>1 DEF HeadsAreWhole
<1>5. Moves(g, st, Stopped(st)) \/ ~ (\/ st.o >= Len(g)
                                      \/ Reads(g, st.o, "cd")
                                      \/ (Goes(g, st) /\ st.o + 1 + h.comp > Len(g)))
  <2>1. Gives(g, st, Stopped(st))
    BY DEF Gives, Stopped
  <2> QED  BY <2>1 DEF Moves
<1>6. Stopped(st) \in WalkStates
  BY <1>1 DEF Stopped, WalkStates
<1> DEFINE c == Chained(g, st)
           a == Sought(g, st, st.lastData)
           b == Sought(g, st, st.o + 1)
           z == Stopped(st)
<1>7. Goes(g, st) /\ ~ (st.o + 1 + h.comp > Len(g)) => Moves(g, st, c) /\ c \in WalkStates
  <2> SUFFICES ASSUME Goes(g, st), ~ (st.o + 1 + h.comp > Len(g))
               PROVE  Moves(g, st, c) /\ c \in WalkStates
    OBVIOUS
  <2>1. h.comp \in Nat /\ h.id \in Nat
    BY <1>4 DEF Goes
  <2> DEFINE p == [id |-> h.id, comp |-> h.comp, off |-> st.o]
  <2>2. c = [o |-> st.o + 1 + h.comp, lastData |-> st.o + 1, searched |-> st.searched, over |-> FALSE,
             entries |-> Append(st.entries, p)]
    BY DEF Chained, Salvaged
  <2>3. p \in Hits
    BY <1>1, <2>1 DEF Hits
  <2> HIDE DEF p, c, h
  <2>4. Append(st.entries, p) \in Seq(Hits) /\ st.o + 1 + h.comp \in Nat /\ st.o + 1 \in Nat
    BY <1>1, <2>1, <2>3
  <2>5. c \in WalkStates
    BY <1>1, <2>2, <2>4 DEF WalkStates
  <2>6. c.o = st.o + 1 + h.comp /\ c.lastData = st.o + 1 /\ c.searched = st.searched /\ c.entries = Append(st.entries, p)
    BY <2>2
  <2>7. c.over = FALSE
    BY <2>2
  <2>8. st.o + 1 + h.comp <= Len(g)
    BY <1>1, <2>1
  <2>9. Chains(g, st, c)
    BY <2>1, <2>6, <2>7, <2>8 DEF Chains, h, p
  <2> QED  BY <2>5, <2>9 DEF Moves
<1>8. st.o < Len(g) /\ ~ Reads(g, st.o, "loc") /\ ~ Reads(g, st.o, "cd") => Moves(g, st, a) /\ a \in WalkStates
  <2> SUFFICES ASSUME st.o < Len(g), ~ Reads(g, st.o, "loc"), ~ Reads(g, st.o, "cd")
               PROVE  Moves(g, st, a) /\ a \in WalkStates
    OBVIOUS
  <2>1. a \in WalkStates /\ (Seeks(g, st, a, st.lastData) \/ (Gives(g, st, a) /\ Barren(g, st, st.lastData)))
    BY <1>1, SoughtIs
  <2> HIDE DEF a
  <2> QED  BY <2>1 DEF Moves
<1>9. Reads(g, st.o, "loc") /\ h.desc => Moves(g, st, b) /\ b \in WalkStates
  <2> SUFFICES ASSUME Reads(g, st.o, "loc"), h.desc
               PROVE  Moves(g, st, b) /\ b \in WalkStates
    OBVIOUS
  <2>1. st.o < Len(g) /\ st.o + 1 \in Nat
    BY <1>1 DEF Reads
  <2> DEFINE x == st.o + 1
  <2>2. b \in WalkStates /\ (Seeks(g, st, b, x) \/ (Gives(g, st, b) /\ Barren(g, st, x)))
    BY <2>1, SoughtIs
  <2>3. h.desc = TRUE
    BY <1>4
  <2> HIDE DEF b
  <2> QED  BY <2>2, <2>3 DEF Moves
<1>10. Goes(g, st) <=> Reads(g, st.o, "loc") /\ ~ h.desc
  BY <1>4 DEF Goes
<1>11. st.o < Len(g) \/ st.o >= Len(g)
  BY <1>1
<1> HIDE DEF nx, v, a, b, c, z, h
<1>12. CASE st.over
  BY <1>2, <1>12 DEF nx
<1>13. CASE ~ st.over /\ v = "stop"
  <2>1. nx = z
    BY <1>2, <1>13 DEF z
  <2>2. \/ st.o >= Len(g)
        \/ Reads(g, st.o, "cd")
        \/ (Goes(g, st) /\ st.o + 1 + h.comp > Len(g))
    BY <1>3, <1>10, <1>13
  <2> QED  BY <1>5, <1>6, <1>13, <2>1, <2>2 DEF nx, z, h
<1>14. CASE ~ st.over /\ v = "ok"
  <2>1. nx = c
    BY <1>2, <1>14 DEF c
  <2>2. Goes(g, st) /\ ~ (st.o + 1 + h.comp > Len(g))
    BY <1>3, <1>10, <1>14
  <2> QED  BY <1>7, <1>14, <2>1, <2>2 DEF nx
<1>15. CASE ~ st.over /\ v = "bad"
  <2>1. nx = a
    BY <1>2, <1>15 DEF a
  <2>2. st.o < Len(g) /\ ~ Reads(g, st.o, "loc") /\ ~ Reads(g, st.o, "cd")
    BY <1>3, <1>11, <1>15
  <2> QED  BY <1>8, <1>15, <2>1, <2>2 DEF nx
<1>16. CASE ~ st.over /\ v = "skip"
  <2>1. nx = b
    BY <1>2, <1>16 DEF b
  <2>2. Reads(g, st.o, "loc") /\ h.desc
    BY <1>3, <1>16
  <2> QED  BY <1>9, <1>16, <2>1, <2>2 DEF nx
<1>17. v \in {"stop", "ok", "bad", "skip"}
  BY <1>3
<1> QED  BY <1>12, <1>13, <1>14, <1>15, <1>16, <1>17

\* What every step of a walk keeps is true of its end.
LEMMA SalvageIs ==
  ASSUME NEW g, HeadsAreWhole(g), NEW Q, <<0, walkBegins>> \in Q,
         \A k \in Nat, st \in WalkStates : <<k, st>> \in Q => <<k + 1, salvageStep(g, st)>> \in Q
  PROVE  \E st \in WalkStates : <<2 * Len(g) + 2, st>> \in Q /\ Salvage(g) = st.entries
<1> DEFINE N == 2 * Len(g) + 2
           Body(f) == [k \in 0..N |-> IF k = 0 THEN walkBegins ELSE salvageStep(g, f[k - 1])]
           after == CHOOSE f : f = Body(f)
<1>1. N \in Nat
  BY DEF HeadsAreWhole
<1>2. Salvage(g) = after[N].entries
  BY DEF Salvage
<1>3. \A st \in WalkStates : salvageStep(g, st) \in WalkStates
  BY StepIs
<1>4. walkBegins \in WalkStates
  <2>1. <<>> \in Seq(Hits)
    OBVIOUS
  <2> QED  BY <2>1 DEF walkBegins, WalkStates
<1> HIDE DEF N
<1>5. \E f : f = Body(f)
  <2> DEFINE S == 0..N
             size == [k \in S |-> k]
             base == [k \in S |-> walkBegins]
             back == [k \in S |-> k - 1]
             h == [p \in S \X WalkStates |-> salvageStep(g, p[2])]
  <2>1. WellDefined(S, WalkStates, size, {0}, base, back, h)
    <3>1. size \in [S -> Nat] /\ WalkStates # {}
      <4>1. size \in [S -> Nat]
        BY <1>1
      <4> QED  BY <1>4, <4>1
    <3>2. \A x \in S \cap {0} : base[x] \in WalkStates
      BY <1>4
    <3>3. \A x \in S \ {0} : back[x] \in S /\ size[back[x]] < size[x]
      <4> SUFFICES ASSUME NEW x \in S \ {0}
                   PROVE  back[x] \in S /\ size[back[x]] < size[x]
        OBVIOUS
      <4>1. back[x] = x - 1 /\ x - 1 \in S /\ x - 1 < x
        BY <1>1
      <4> QED  BY <4>1
    <3>4. \A x \in S \ {0} : \A v \in WalkStates : h[<<x, v>>] \in WalkStates
      <4> SUFFICES ASSUME NEW x \in S, NEW v \in WalkStates
                   PROVE  h[<<x, v>>] \in WalkStates
        OBVIOUS
      <4>1. h[<<x, v>>] = salvageStep(g, v)
        OBVIOUS
      <4> HIDE DEF h
      <4> QED  BY <1>3, <4>1
    <3> QED  BY <3>1, <3>2, <3>3, <3>4 DEF WellDefined
  <2>2. PICK f : Solves(f, S, WalkStates, {0}, base, back, h)
    <3> HIDE DEF S, size, base, back, h
    <3> QED  BY <2>1, Recursion
  <2>3. f \in [S -> WalkStates] /\ \A x \in S : f[x] = IF x \in {0} THEN base[x] ELSE h[<<x, f[back[x]]>>]
    BY <2>2 DEF Solves
  <2>4. ASSUME NEW x \in S
        PROVE  f[x] = IF x = 0 THEN walkBegins ELSE salvageStep(g, f[x - 1])
    <3>1. CASE x = 0
      BY <2>3, <3>1
    <3>2. CASE x # 0
      <4>1. x - 1 \in S /\ back[x] = x - 1
        BY <1>1, <3>2
      <4>2. f[x - 1] \in WalkStates /\ f[x] = h[<<x, f[x - 1]>>]
        BY <2>3, <3>2, <4>1
      <4> QED  BY <3>2, <4>2
    <3> QED  BY <3>1, <3>2
  <2>5. f = [x \in S |-> f[x]]
    BY <2>3
  <2>6. f = Body(f)
    <3> HIDE DEF size, base, back, h
    <3> QED  BY <2>4, <2>5
  <2> QED  BY <2>6
<1>6. after = Body(after)
  <2> HIDE DEF Body
  <2> QED  BY <1>5
<1> HIDE DEF after
<1>7. \A k \in 0..N : after[k] = IF k = 0 THEN walkBegins ELSE salvageStep(g, after[k - 1])
  BY <1>6
<1> DEFINE P == {k \in Nat : k \in 0..N => after[k] \in WalkStates /\ <<k, after[k]>> \in Q}
<1>8. ASSUME NEW k \in Nat, \A j \in 0..(k - 1) : j \in P
      PROVE  k \in P
  <2> SUFFICES ASSUME k \in 0..N
               PROVE  after[k] \in WalkStates /\ <<k, after[k]>> \in Q
    OBVIOUS
  <2>1. CASE k = 0
    BY <1>4, <1>7, <2>1
  <2>2. CASE k # 0
    <3>1. k - 1 \in Nat /\ k - 1 \in 0..N /\ k - 1 \in 0..(k - 1) /\ (k - 1) + 1 = k
      BY <1>1, <2>2
    <3>2. after[k - 1] \in WalkStates /\ <<k - 1, after[k - 1]>> \in Q
      BY <1>8, <3>1
    <3>3. after[k] = salvageStep(g, after[k - 1])
      BY <1>7, <2>2
    <3>4. <<(k - 1) + 1, salvageStep(g, after[k - 1])>> \in Q
      BY <3>1, <3>2
    <3> QED  BY <1>3, <3>1, <3>2, <3>3, <3>4
  <2> QED  BY <2>1, <2>2
<1>9. P = Nat
  <2> HIDE DEF P
  <2>1. P \in SUBSET Nat
    BY DEF P
  <2> QED  BY <1>8, <2>1, NatSet
<1>10. N \in 0..N
  BY <1>1
<1>11. after[N] \in WalkStates /\ <<N, after[N]>> \in Q
  BY <1>1, <1>9, <1>10
<1> QED  BY <1>2, <1>11 DEF N

\* What is listed lies in the file, one entry after another and behind the walk,
\* and every second step goes past a cell.
Spread(g, st) ==
  /\ \A j \in 1..Len(st.entries) : st.entries[j].off + 1 + st.entries[j].comp <= Len(g)
                                   /\ st.entries[j].off < st.lastData
  /\ \A i, j \in 1..Len(st.entries) : i < j => st.entries[i].off < st.entries[j].off
Advances(g, st, k) ==
  /\ st.lastData <= st.o /\ st.lastData <= Len(g)
  /\ \/ st.searched <= st.o /\ k <= 2 * st.lastData
     \/ st.searched = st.o + 1 /\ Reads(g, st.o, "loc") /\ k <= 2 * st.lastData + 1
Walking(g, st, k) == Spread(g, st) /\ (~ st.over => Advances(g, st, k))

\* One step of the walk keeps the invariant.
LEMMA WalkKeeps ==
  ASSUME NEW g, HeadsAreWhole(g), NEW st \in WalkStates, NEW k \in Nat, Walking(g, st, k)
  PROVE  Walking(g, salvageStep(g, st), k + 1)
<1> DEFINE nx == salvageStep(g, st)
<1>1. nx \in WalkStates /\ IF st.over THEN nx = st ELSE Moves(g, st, nx)
  BY StepIs
<1>2. st.o \in Nat /\ st.lastData \in Nat /\ st.searched \in Nat /\ st.entries \in Seq(Hits) /\ st.over \in BOOLEAN
      /\ Len(g) \in Nat
  BY DEF WalkStates, HeadsAreWhole
<1>3. Spread(g, st)
  BY DEF Walking
<1> HIDE DEF nx
<1>4. CASE st.over
  BY <1>1, <1>4 DEF Walking, nx
<1>5. CASE ~ st.over
  <2>1. Moves(g, st, nx) /\ Advances(g, st, k)
    BY <1>1, <1>5 DEF Walking
  <2>2. CASE Gives(g, st, nx)
    BY <1>3, <2>2 DEF Gives, Spread, Walking, nx
  <2>3. CASE Chains(g, st, nx)
    <3> DEFINE h == CellAt(g, st.o)
               p == [id |-> h.id, comp |-> h.comp, off |-> st.o]
               n == Len(st.entries)
    <3>1. /\ Goes(g, st) /\ h.comp \in Nat /\ h.id \in Nat /\ st.o + 1 + h.comp <= Len(g)
          /\ nx.o = st.o + 1 + h.comp /\ nx.lastData = st.o + 1 /\ nx.searched = st.searched
          /\ nx.entries = Append(st.entries, p)
      BY <2>3 DEF Chains
    <3>2. p \in Hits /\ p.off = st.o /\ p.comp = h.comp
      BY <1>2, <3>1 DEF Hits
    <3> HIDE DEF p, h
    <3>3. n \in Nat /\ Len(nx.entries) = n + 1 /\ nx.entries[n + 1] = p
          /\ \A j \in 1..n : nx.entries[j] = st.entries[j] /\ st.entries[j] \in Hits
      BY <1>2, <3>1, <3>2
    <3> HIDE DEF n
    <3>4. \A j \in 1..n : st.entries[j].off \in Nat
      BY <3>3 DEF Hits
    <3>5. /\ \A j \in 1..n : st.entries[j].off + 1 + st.entries[j].comp <= Len(g) /\ st.entries[j].off < st.lastData
          /\ \A i, j \in 1..n : i < j => st.entries[i].off < st.entries[j].off
      BY <1>3 DEF Spread, n
    <3>6. st.lastData <= st.o
      BY <2>1 DEF Advances
    <3>7. \A j \in 1..(n + 1) : j \in 1..n \/ j = n + 1
      BY <3>3
    <3>8. ASSUME NEW j \in 1..(n + 1)
          PROVE  nx.entries[j].off + 1 + nx.entries[j].comp <= Len(g) /\ nx.entries[j].off < nx.lastData
      <4>1. CASE j = n + 1
        <5>1. st.o < st.o + 1
          BY <1>2
        <5> QED  BY <3>1, <3>2, <3>3, <4>1, <5>1
      <4>2. CASE j \in 1..n
        <5>1. nx.entries[j] = st.entries[j] /\ st.entries[j].off < st.lastData /\ st.entries[j].off \in Nat
          BY <3>3, <3>4, <3>5, <4>2
        <5>2. st.entries[j].off < st.o + 1
          BY <1>2, <3>6, <5>1
        <5> QED  BY <3>1, <3>5, <4>2, <5>1, <5>2
      <4> QED  BY <3>7, <4>1, <4>2
    <3>9. ASSUME NEW i \in 1..(n + 1), NEW j \in 1..(n + 1), i < j
          PROVE  nx.entries[i].off < nx.entries[j].off
      <4>1. i \in 1..n
        BY <3>3, <3>9
      <4>2. CASE j = n + 1
        <5>1. nx.entries[i].off = st.entries[i].off /\ st.entries[i].off < st.lastData /\ st.entries[i].off \in Nat
          BY <3>3, <3>4, <3>5, <4>1
        <5>2. nx.entries[j].off = st.o
          BY <3>2, <3>3, <4>2
        <5> QED  BY <1>2, <3>6, <5>1, <5>2
      <4>3. CASE j \in 1..n
        BY <3>3, <3>5, <3>9, <4>1, <4>3
      <4> QED  BY <3>7, <4>2, <4>3
    <3>10. Spread(g, nx)
      BY <3>3, <3>8, <3>9 DEF Spread
    <3>11. Advances(g, nx, k + 1)
      <4>1. h.comp \in Nat /\ st.o \in Nat /\ st.lastData \in Nat /\ k \in Nat /\ st.searched \in Nat
        BY <1>2, <3>1
      <4>2. k <= 2 * st.lastData + 1 /\ st.searched <= st.o + 1 /\ st.lastData <= st.o
        BY <1>2, <2>1 DEF Advances
      <4>3. st.o + 1 <= st.o + 1 + h.comp /\ st.o + 1 <= Len(g)
            /\ st.searched <= st.o + 1 + h.comp /\ k + 1 <= 2 * (st.o + 1)
        <5> DEFINE a == st.o
                   b == h.comp
                   l == st.lastData
                   q == st.searched
                   L == Len(g)
        <5>1. a \in Nat /\ b \in Nat /\ l \in Nat /\ q \in Nat /\ L \in Nat /\ k \in Nat
              /\ a + 1 + b <= L /\ k <= 2 * l + 1 /\ q <= a + 1 /\ l <= a
          BY <1>2, <3>1, <4>1, <4>2
        <5> HIDE DEF a, b, l, q, L
        <5>2. a + 1 <= a + 1 + b /\ a + 1 <= L /\ q <= a + 1 + b /\ k + 1 <= 2 * (a + 1)
          BY <5>1
        <5> QED  BY <5>2 DEF a, b, l, q, L
      <4> QED  BY <3>1, <4>3 DEF Advances
    <3> QED  BY <3>10, <3>11 DEF Walking, nx
  <2>4. ASSUME NEW data \in Nat, Seeks(g, st, nx, data), st.lastData <= data, data <= Len(g),
               k + 1 <= 2 * data + 1
        PROVE  Walking(g, nx, k + 1)
    <3>1. /\ Reads(g, nx.o, "loc") /\ Larger(data + 1, st.searched) <= nx.o /\ nx.lastData = data /\ nx.searched = nx.o + 1
          /\ nx.entries = st.entries
      BY <2>4 DEF Seeks
    <3>2. nx.o \in Nat
      BY <1>1 DEF WalkStates
    <3>3. data <= nx.o
      BY <1>2, <3>1, <3>2 DEF Larger
    <3>4. Advances(g, nx, k + 1)
      BY <2>4, <3>1, <3>3 DEF Advances
    <3>5. \A j \in 1..Len(st.entries) : st.entries[j].off < data
      <4>1. \A j \in 1..Len(st.entries) : st.entries[j] \in Hits
        BY <1>2
      <4>2. \A j \in 1..Len(st.entries) : st.entries[j].off \in Nat /\ st.entries[j].off < st.lastData
        BY <1>3, <4>1 DEF Hits, Spread
      <4> QED  BY <1>2, <2>4, <4>2
    <3>6. Spread(g, nx)
      BY <1>3, <3>1, <3>5 DEF Spread
    <3> QED  BY <3>4, <3>6 DEF Walking
  <2>5. CASE ~ Reads(g, st.o, "loc") /\ Seeks(g, st, nx, st.lastData)
    <3>1. st.lastData <= Len(g) /\ k <= 2 * st.lastData
      BY <2>1, <2>5 DEF Advances
    <3>2. st.lastData <= st.lastData /\ k + 1 <= 2 * st.lastData + 1
      BY <1>2, <3>1
    <3> QED  BY <1>2, <2>4, <2>5, <3>1, <3>2 DEF nx
  <2>6. CASE Reads(g, st.o, "loc") /\ Seeks(g, st, nx, st.o + 1)
    <3>1. st.lastData <= st.o /\ k <= 2 * st.lastData + 1
      BY <1>2, <2>1 DEF Advances
    <3>2. st.o < Len(g)
      BY <2>6 DEF Reads
    <3> DEFINE x == st.o + 1
    <3>3. x \in Nat /\ st.lastData <= x /\ x <= Len(g) /\ k + 1 <= 2 * x + 1
      BY <1>2, <3>1, <3>2
    <3>4. Seeks(g, st, nx, x)
      BY <2>6
    <3> HIDE DEF x
    <3> QED  BY <2>4, <3>3, <3>4 DEF nx
  <2> QED  BY <2>1, <2>2, <2>3, <2>5, <2>6 DEF Moves
<1> QED  BY <1>4, <1>5

\* The walk is over when its steps are: nothing after it is left out.
LEMMA SalvageEnds ==
  ASSUME NEW g, HeadsAreWhole(g), NEW R, walkBegins \in R,
         \A k \in Nat, st \in WalkStates : st \in R /\ Walking(g, st, k) => salvageStep(g, st) \in R
  PROVE  \E st \in WalkStates : st \in R /\ st.over /\ Spread(g, st) /\ Salvage(g) = st.entries
<1> DEFINE Q == {q \in Nat \X WalkStates : q[2] \in R /\ Walking(g, q[2], q[1])}
           N == 2 * Len(g) + 2
<1>1. \A k \in Nat, st \in WalkStates : <<k, st>> \in Q <=> st \in R /\ Walking(g, st, k)
  OBVIOUS
<1>2. walkBegins \in WalkStates
  <2>1. <<>> \in Seq(Hits)
    OBVIOUS
  <2> QED  BY <2>1 DEF walkBegins, WalkStates
<1>3. Walking(g, walkBegins, 0)
  <2>1. walkBegins.o = 0 /\ walkBegins.lastData = 0 /\ walkBegins.searched = 0 /\ Len(walkBegins.entries) = 0
    BY DEF walkBegins
  <2>2. Len(g) \in Nat
    BY DEF HeadsAreWhole
  <2> QED  BY <2>1, <2>2 DEF Walking, Spread, Advances
<1> HIDE DEF Q
<1>4. <<0, walkBegins>> \in Q
  BY <1>1, <1>2, <1>3
<1>5. \A k \in Nat, st \in WalkStates : <<k, st>> \in Q => <<k + 1, salvageStep(g, st)>> \in Q
  <2> SUFFICES ASSUME NEW k \in Nat, NEW st \in WalkStates, <<k, st>> \in Q
               PROVE  <<k + 1, salvageStep(g, st)>> \in Q
    OBVIOUS
  <2>1. st \in R /\ Walking(g, st, k)
    BY <1>1
  <2>2. salvageStep(g, st) \in R
    BY <2>1
  <2>3. Walking(g, salvageStep(g, st), k + 1)
    BY <2>1, WalkKeeps
  <2>4. salvageStep(g, st) \in WalkStates /\ k + 1 \in Nat
    BY StepIs
  <2> QED  BY <1>1, <2>2, <2>3, <2>4
<1>6. PICK st \in WalkStates : <<N, st>> \in Q /\ Salvage(g) = st.entries
  BY <1>4, <1>5, SalvageIs
<1>7. N \in Nat /\ Len(g) \in Nat
  BY DEF HeadsAreWhole
<1>8. st \in R /\ Walking(g, st, N)
  BY <1>1, <1>6, <1>7
<1>9. st.over
  <2> SUFFICES ASSUME ~ st.over
               PROVE  FALSE
    OBVIOUS
  <2>1. st.lastData <= Len(g) /\ N <= 2 * st.lastData + 1 /\ st.lastData \in Nat
    <3>1. st.lastData \in Nat
      BY DEF WalkStates
    <3>2. st.lastData <= Len(g) /\ (N <= 2 * st.lastData \/ N <= 2 * st.lastData + 1)
      BY <1>8 DEF Walking, Advances
    <3> HIDE DEF N
    <3> QED  BY <1>7, <3>1, <3>2
  <2> QED  BY <1>7, <2>1
<1> QED  BY <1>6, <1>8, <1>9 DEF Walking

\* The cells of a ruin that the walk looks at.
RuinHolds(g, s, w) ==
  LET n == Len(s.sizes)
      d == DirAt(s)
  IN  /\ \A o \in Nat : Reads(g, o, "cd") => d <= o
      /\ \A o \in Nat : Reads(g, o, "loc") =>
           /\ s.stub <= o /\ o < d
           /\ \E j \in 1..n :
                \/ /\ o = EntryAt(s, j)
                   /\ \/ CellAt(g, o) = Loc(j, s.sizes[j], s.desc)
                      \/ CellAt(g, o) = Loc(j, s.sizes[j] + 1, FALSE) /\ j = w
                \/ InEntry(s, j, o) /\ CellAt(g, o) = Loc(Phantom, 0, FALSE)

\* What a ruin shows at each offset.
LEMMA RuinIs ==
  ASSUME NEW s \in ZipShapes, NEW g, NEW w, Ruined(g, s, w)
  PROVE  RuinHolds(g, s, w) /\ HeadsAreWhole(g)
<1> DEFINE c == ZipContainer(s)
           n == Len(s.sizes)
           d == DirAt(s)
           L == ZipLen(s)
           z == s.sizes
           P(j) == EntryAt(s, j)
           lie == Loc(w, z[w] + 1, FALSE)
           own(j, o) == \/ /\ o = P(j)
                           /\ CellAt(g, o) = Loc(j, z[j], s.desc) \/ (CellAt(g, o) = Loc(j, z[j] + 1, FALSE) /\ j = w)
                        \/ InEntry(s, j, o) /\ CellAt(g, o) = Loc(Phantom, 0, FALSE)
<1>1. /\ n \in 0..MaxEntries /\ MaxEntries \in Nat /\ P(n + 1) = d /\ s.stub \in {0, 1} /\ s.desc \in BOOLEAN
      /\ \A j \in 1..(n + 1) : P(j) \in Nat /\ s.stub <= P(j)
      /\ \A j \in 1..n : P(j + 1) = P(j) + 1 + z[j] /\ z[j] \in Nat
      /\ \A i, j \in 1..(n + 1) : i <= j => P(i) <= P(j)
  BY ZipShapesAre, ZipAssumption DEF ZipParts
<1>2. L \in Nat
  BY ZipContainerIs
<1>3. \A p \in 0..(L - 1) : (CellAt(c, p).t = "loc" => p < d) /\ (CellAt(c, p).t = "cd" => d <= p /\ p < d + n)
  BY ZipTypesAre DEF ZipTypes
<1>4. /\ s.stub = 1 => CellAt(c, 0) = Data
      /\ \A p \in Nat : s.stub <= p /\ p < d => \E i \in 1..n : p = P(i) \/ InEntry(s, i, p)
      /\ \A i \in 1..n : CellAt(c, P(i)) = Loc(i, z[i], s.desc)
      /\ \A i \in 1..n, p \in Nat : InEntry(s, i, p) => CellAt(c, p) \in {Data, Loc(Phantom, 0, FALSE)}
  BY ZipContainerHolds DEF ZipHolds
<1>5. /\ Len(g) \in Nat /\ Len(g) <= L
      /\ \A o \in 0..(Len(g) - 1) :
           CellAt(g, o) \in {CellAt(c, o), Zero} \/ (w \in 1..n /\ o = P(w) /\ CellAt(g, o) = lie)
  BY DEF Ruined
<1>6. Zero.t = "zero" /\ Data.t = "data" /\ lie.t = "loc"
  BY DEF Zero, Data, Loc
<1> HIDE DEF c, n, d, L, P, z, lie
<1>7. n \in Nat /\ (\A j \in 1..n : j \in 1..(n + 1) /\ j + 1 \in 1..(n + 1) /\ j + 1 <= n + 1) /\ n + 1 \in 1..(n + 1)
  <2>1. n \in Nat
    BY <1>1
  <2> QED  BY <2>1
<1>8. \A o \in Nat : Reads(g, o, "cd") => d <= o
  <2> SUFFICES ASSUME NEW o \in Nat, Reads(g, o, "cd")
               PROVE  d <= o
    OBVIOUS
  <2>1. o \in 0..(Len(g) - 1) /\ o \in 0..(L - 1) /\ CellAt(g, o).t = "cd"
    BY <1>2, <1>5 DEF Reads
  <2>2. CellAt(g, o) = CellAt(c, o)
    BY <1>5, <1>6, <2>1
  <2> QED  BY <1>3, <2>1, <2>2
<1>9. ASSUME NEW o \in Nat, Reads(g, o, "loc")
      PROVE  s.stub <= o /\ o < d /\ \E j \in 1..n : own(j, o)
  <2>1. o \in 0..(Len(g) - 1) /\ o \in 0..(L - 1) /\ CellAt(g, o).t = "loc"
    BY <1>2, <1>5, <1>9 DEF Reads
  <2>2. CASE w \in 1..n /\ o = P(w) /\ CellAt(g, o) = lie
    <3>1. s.stub <= o
      BY <1>1, <1>7, <2>2
    <3>2. o < d
      <4>1. P(w) \in Nat /\ z[w] \in Nat /\ P(w + 1) = P(w) + 1 + z[w] /\ P(w + 1) <= d /\ d \in Nat
        BY <1>1, <1>7, <2>2
      <4> QED  BY <2>2, <4>1
    <3>3. own(w, o)
      BY <2>2 DEF lie
    <3> QED  BY <2>2, <3>1, <3>2, <3>3
  <2>3. CASE CellAt(g, o) = CellAt(c, o)
    <3>1. o < d
      BY <1>3, <2>1, <2>3
    <3>2. s.stub <= o
      <4>1. s.stub = 1 => o # 0
        BY <1>4, <1>6, <2>1, <2>3
      <4> QED  BY <1>1, <4>1
    <3>3. PICK j \in 1..n : o = P(j) \/ InEntry(s, j, o)
      BY <1>4, <3>1, <3>2
    <3>4. own(j, o)
      BY <1>4, <1>6, <2>1, <2>3, <3>3
    <3> QED  BY <3>1, <3>2, <3>4
  <2> QED  BY <1>5, <1>6, <2>1, <2>2, <2>3
<1>10. RuinHolds(g, s, w)
  BY <1>8, <1>9 DEF RuinHolds, n, d, P, z
<1>11. ASSUME NEW o \in 0..(Len(g) - 1), CellAt(g, o).t = "loc"
       PROVE  CellAt(g, o).comp \in Nat /\ CellAt(g, o).id \in Nat /\ CellAt(g, o).desc \in BOOLEAN
  <2>1. o \in Nat /\ Reads(g, o, "loc")
    BY <1>5, <1>11 DEF Reads
  <2>2. PICK j \in 1..n : own(j, o)
    BY <1>9, <2>1
  <2>3. j \in Nat /\ z[j] \in Nat /\ z[j] + 1 \in Nat
    BY <1>1, <1>7
  <2>4. \A i, x, b : /\ Loc(i, x, b).id = i /\ Loc(i, x, b).comp = (IF b THEN 0 ELSE x)
    BY DEF Loc
  <2>5. \A i, x : \A b \in BOOLEAN : Loc(i, x, b).desc = b
    BY DEF Loc
  <2>6. Phantom \in Nat
    BY DEF Phantom
  <2> HIDE DEF own
  <2>7. \E i \in Nat, x \in Nat, b \in BOOLEAN : CellAt(g, o) = Loc(i, x, b)
    BY <1>1, <2>2, <2>3, <2>6 DEF own
  <2> QED  BY <2>4, <2>5, <2>7
<1>12. HeadsAreWhole(g)
  BY <1>5, <1>11 DEF HeadsAreWhole
<1> QED  BY <1>10, <1>12

\* The walk comes to every entry that is whole, unless a size it takes on the way
\* goes past it.
Whole(g, s, i) ==
  /\ s.desc = FALSE /\ i \in 1..Len(s.sizes)
  /\ EntryAt(s, i) + s.sizes[i] < Len(g)
  /\ CellAt(g, EntryAt(s, i)) = CellAt(ZipContainer(s), EntryAt(s, i))
  /\ i > 1 /\ Reads(g, EntryAt(s, i - 1), "loc") =>
       EntryAt(s, i - 1) + CellAt(g, EntryAt(s, i - 1)).comp < EntryAt(s, i)
Names(l, i) == \E k \in DOMAIN l : l[k].id = i
\* An entry that is whole, and that no size goes past, is salvaged.
LEMMA IntactIsListed ==
  ASSUME NEW s \in ZipShapes, NEW g, NEW w, Ruined(g, s, w), NEW i, Whole(g, s, i)
  PROVE  Names(Salvage(g), i)
<1> DEFINE n == Len(s.sizes)
           d == DirAt(s)
           z == s.sizes
           P(j) == EntryAt(s, j)
           T == P(i)
           R == {st \in WalkStates : (\E k \in DOMAIN st.entries : st.entries[k].id = i) \/ (~ st.over /\ st.o <= T)}
<1>1. /\ n \in 0..MaxEntries /\ MaxEntries \in Nat /\ P(n + 1) = d
      /\ \A j \in 1..(n + 1) : P(j) \in Nat
      /\ \A j \in 1..n : P(j + 1) = P(j) + 1 + z[j] /\ z[j] \in Nat
      /\ \A a, b \in 1..(n + 1) : a <= b => P(a) <= P(b)
  BY ZipShapesAre, ZipAssumption DEF ZipParts
<1>2. CellAt(ZipContainer(s), T) = Loc(i, z[i], s.desc)
  BY ZipContainerHolds DEF ZipHolds, Whole
<1>3. /\ \A o \in Nat : Reads(g, o, "cd") => d <= o
      /\ \A o \in Nat : Reads(g, o, "loc") =>
           /\ o < d
           /\ \E j \in 1..n :
                \/ /\ o = P(j)
                   /\ CellAt(g, o) = Loc(j, z[j], s.desc) \/ (CellAt(g, o) = Loc(j, z[j] + 1, FALSE) /\ j = w)
                \/ InEntry(s, j, o) /\ CellAt(g, o) = Loc(Phantom, 0, FALSE)
      /\ HeadsAreWhole(g)
  BY RuinIs DEF RuinHolds
<1>4. T + z[i] < Len(g) /\ CellAt(g, T) = CellAt(ZipContainer(s), T) /\ i \in 1..n
      /\ (i > 1 /\ Reads(g, P(i - 1), "loc") => P(i - 1) + CellAt(g, P(i - 1)).comp < P(i))
      /\ s.desc = FALSE
  BY DEF Whole
<1>5. \A j, o : InEntry(s, j, o) <=> P(j) < o /\ o < P(j + 1)
  BY DEF InEntry
<1> HIDE DEF n, d, z, P
<1>6. /\ n \in Nat /\ n + 1 \in 1..(n + 1)
      /\ \A j \in 1..n : j \in Nat /\ j \in 1..(n + 1) /\ j + 1 \in 1..(n + 1) /\ j + 1 <= n + 1
  <2>1. n \in Nat
    BY <1>1
  <2> QED  BY <2>1
<1>7. T \in Nat /\ z[i] \in Nat /\ Len(g) \in Nat /\ T < Len(g) /\ d \in Nat /\ T < d
  <2>1. T \in Nat /\ z[i] \in Nat /\ Len(g) \in Nat /\ d \in Nat
    BY <1>1, <1>3, <1>4, <1>6 DEF HeadsAreWhole
  <2>2. P(i + 1) = T + 1 + z[i] /\ P(i + 1) <= d
    BY <1>1, <1>4, <1>6
  <2> HIDE DEF T
  <2> QED  BY <1>4, <2>1, <2>2
<1>9. CellAt(g, T) = Loc(i, z[i], FALSE)
  BY <1>2, <1>4
<1>10. /\ Reads(g, T, "loc") /\ CellAt(g, T).comp = z[i] /\ CellAt(g, T).id = i
       /\ CellAt(g, T).desc = FALSE
  <2>1. /\ CellAt(g, T).t = "loc" /\ CellAt(g, T).comp = z[i] /\ CellAt(g, T).id = i
        /\ CellAt(g, T).desc = FALSE
    <3>1. CellAt(g, T).t = "loc" /\ CellAt(g, T).comp = z[i] /\ CellAt(g, T).id = i
      BY <1>9 DEF Loc
    <3>2. CellAt(g, T).desc = FALSE
      BY <1>9 DEF Loc
    <3> QED  BY <3>1, <3>2
  <2> QED  BY <1>7, <2>1 DEF Reads
\* What is chained before the entry does not go past it.
<1>11. ASSUME NEW o \in Nat, Reads(g, o, "loc"), o < T
       PROVE  /\ CellAt(g, o).desc = FALSE /\ CellAt(g, o).comp \in Nat
              /\ o + 1 + CellAt(g, o).comp <= T
  <2>1. PICK j \in 1..n :
                \/ /\ o = P(j)
                   /\ CellAt(g, o) = Loc(j, z[j], s.desc) \/ (CellAt(g, o) = Loc(j, z[j] + 1, FALSE) /\ j = w)
                \/ InEntry(s, j, o) /\ CellAt(g, o) = Loc(Phantom, 0, FALSE)
    BY <1>3, <1>11
  <2>2. CASE InEntry(s, j, o) /\ CellAt(g, o) = Loc(Phantom, 0, FALSE)
    <3>1. CellAt(g, o).comp = 0 /\ CellAt(g, o).desc = FALSE
      <4>1. CellAt(g, o).comp = 0
        BY <2>2 DEF Loc
      <4>2. CellAt(g, o).desc = FALSE
        BY <2>2 DEF Loc
      <4> QED  BY <4>1, <4>2
    <3> HIDE DEF T
    <3> QED  BY <1>7, <1>11, <3>1
  <2>3. ASSUME o = P(j), CellAt(g, o) = Loc(j, z[j], FALSE) \/ CellAt(g, o) = Loc(j, z[j] + 1, FALSE)
        PROVE  /\ CellAt(g, o).desc = FALSE /\ CellAt(g, o).comp \in Nat
               /\ o + 1 + CellAt(g, o).comp <= T
    <3>1. z[j] \in Nat /\ P(j + 1) = o + 1 + z[j] /\ P(j + 1) \in Nat
      BY <1>1, <1>6, <2>3
    <3>2. CellAt(g, o).desc = FALSE /\ CellAt(g, o).comp \in {z[j], z[j] + 1}
      <4>1. CellAt(g, o).comp \in {z[j], z[j] + 1}
        BY <2>3 DEF Loc
      <4>2. CellAt(g, o).desc = FALSE
        BY <2>3 DEF Loc
      <4> QED  BY <4>1, <4>2
    <3>3. j < i
      <4>1. ~ (i <= j)
        <5>1. i <= j => P(i) <= P(j)
          BY <1>1, <1>4, <1>6
        <5> QED  BY <1>7, <1>11, <2>3, <5>1
      <4> QED  BY <1>4, <1>6, <4>1
    <3>4. CASE j + 1 = i
      <4>1. j = i - 1 /\ i > 1
        BY <1>4, <1>6, <3>4
      <4>2. P(j) + CellAt(g, P(j)).comp < T
        BY <1>4, <1>11, <2>3, <4>1
      <4>3. o + CellAt(g, o).comp < T
        BY <2>3, <4>2
      <4> DEFINE x == CellAt(g, o).comp
      <4>4. x \in Nat
        BY <3>1, <3>2
      <4> HIDE DEF x, T
      <4>5. o + x < T /\ o + 1 + x <= T
        <5>1. o + x < T
          BY <4>3 DEF x
        <5> QED  BY <1>7, <4>4, <5>1
      <4> QED  BY <3>2, <4>4, <4>5 DEF x
    <3>5. CASE j + 1 # i
      <4>1. j + 1 \in 1..n /\ j + 1 < i
        BY <1>4, <1>6, <3>3, <3>5
      <4>2. P(j + 1 + 1) = P(j + 1) + 1 + z[j + 1] /\ z[j + 1] \in Nat /\ P(j + 1 + 1) <= P(i)
        <5>1. j + 1 + 1 \in 1..(n + 1) /\ i \in 1..(n + 1) /\ j + 1 + 1 <= i
          BY <1>4, <1>6, <4>1
        <5> QED  BY <1>1, <4>1, <5>1
      <4> DEFINE x == CellAt(g, o).comp
                 u == P(j + 1)
                 y == z[j + 1]
                 q == z[j]
                 r == P(j + 1 + 1)
      <4>3. x \in {q, q + 1} /\ q \in Nat /\ u = o + 1 + q /\ r = u + 1 + y /\ y \in Nat /\ r <= T /\ T \in Nat
        BY <1>7, <3>1, <3>2, <4>2
      <4> HIDE DEF x, u, y, q, r, T
      <4>4. x \in Nat /\ o + 1 + x <= T
        BY <4>3
      <4> QED  BY <3>2, <4>4 DEF x
    <3> QED  BY <3>4, <3>5
  <2> QED  BY <1>4, <2>1, <2>2, <2>3
<1> HIDE DEF T
<1>12. \A st \in WalkStates : st \in R <=> (\E k \in DOMAIN st.entries : st.entries[k].id = i) \/ (~ st.over /\ st.o <= T)
  OBVIOUS
<1> HIDE DEF R
<1>13. walkBegins \in R
  <2>1. <<>> \in Seq(Hits)
    OBVIOUS
  <2>2. walkBegins \in WalkStates
    BY <2>1 DEF walkBegins, WalkStates
  <2>3. ~ walkBegins.over /\ walkBegins.o = 0
    BY DEF walkBegins
  <2> QED  BY <1>7, <1>12, <2>2, <2>3
<1>14. ASSUME NEW k \in Nat, NEW st \in WalkStates, st \in R, Walking(g, st, k)
       PROVE  salvageStep(g, st) \in R
  <2> DEFINE nx == salvageStep(g, st)
  <2>1. nx \in WalkStates /\ IF st.over THEN nx = st ELSE Moves(g, st, nx)
    BY <1>3, StepIs
  <2>2. st.o \in Nat /\ st.lastData \in Nat /\ st.searched \in Nat /\ st.entries \in Seq(Hits) /\ st.over \in BOOLEAN
    BY DEF WalkStates
  <2> HIDE DEF nx
  <2>3. CASE st.over
    BY <1>14, <2>1, <2>3 DEF nx
  <2>4. CASE ~ st.over /\ \E a \in DOMAIN st.entries : st.entries[a].id = i
    <3>1. PICK a \in DOMAIN st.entries : st.entries[a].id = i
      BY <2>4
    <3>2. a \in DOMAIN nx.entries /\ nx.entries[a] = st.entries[a]
      <4>1. CASE nx.entries = st.entries
        BY <3>1, <4>1
      <4>2. CASE Chains(g, st, nx)
        <5> DEFINE p == [id |-> CellAt(g, st.o).id, comp |-> CellAt(g, st.o).comp, off |-> st.o]
        <5>1. nx.entries = Append(st.entries, p) /\ p \in Hits
          BY <2>2, <4>2 DEF Chains, Hits
        <5> HIDE DEF p
        <5> QED  BY <2>2, <3>1, <5>1
      <4> QED  BY <2>1, <2>4, <4>1, <4>2 DEF Moves, Seeks, Gives
    <3> QED  BY <1>12, <2>1, <3>1, <3>2 DEF nx
  <2>5. CASE ~ st.over /\ st.o <= T
    <3>1. Moves(g, st, nx) /\ Advances(g, st, k)
      BY <1>14, <2>1, <2>5 DEF Walking
    <3>2. st.o < Len(g) /\ ~ (st.o >= Len(g)) /\ ~ Reads(g, st.o, "cd")
      BY <1>3, <1>7, <2>2, <2>5
    <3>3. CASE st.o = T
      <4>1. Goes(g, st) /\ CellAt(g, st.o).comp = z[i] /\ CellAt(g, st.o).id = i
        BY <1>10, <3>3 DEF Goes
      <4>2. ~ (st.o + 1 + CellAt(g, st.o).comp > Len(g))
        BY <1>4, <1>7, <3>3, <4>1
      <4>3. Chains(g, st, nx)
        BY <3>1, <3>2, <4>1, <4>2 DEF Moves, Goes
      <4> DEFINE p == [id |-> CellAt(g, st.o).id, comp |-> CellAt(g, st.o).comp, off |-> st.o]
      <4>4. nx.entries = Append(st.entries, p) /\ p \in Hits
        BY <2>2, <4>3 DEF Chains, Hits
      <4>5. p.id = i
        BY <4>1
      <4> HIDE DEF p
      <4>6. Len(st.entries) + 1 \in DOMAIN nx.entries /\ nx.entries[Len(st.entries) + 1] = p
        BY <2>2, <4>4
      <4> QED  BY <1>12, <2>1, <4>5, <4>6 DEF nx
    <3>4. CASE st.o < T /\ Reads(g, st.o, "loc")
      <4>1. CellAt(g, st.o).desc = FALSE /\ CellAt(g, st.o).comp \in Nat /\ st.o + 1 + CellAt(g, st.o).comp <= T
        BY <1>11, <2>2, <3>4
      <4>2. ~ (st.o + 1 + CellAt(g, st.o).comp > Len(g))
        <5> DEFINE x == CellAt(g, st.o).comp
        <5>1. x \in Nat /\ st.o + 1 + x <= T
          BY <4>1
        <5> HIDE DEF x
        <5>2. ~ (st.o + 1 + x > Len(g))
          BY <1>7, <2>2, <5>1
        <5> QED  BY <5>2 DEF x
      <4>3. Chains(g, st, nx)
        BY <3>1, <3>2, <3>4, <4>1, <4>2 DEF Moves
      <4>4. ~ nx.over /\ nx.o <= T
        BY <4>1, <4>3 DEF Chains
      <4> QED  BY <1>12, <2>1, <4>4 DEF nx
    <3>5. CASE st.o < T /\ ~ Reads(g, st.o, "loc")
      <4>1. st.lastData <= st.o /\ st.searched <= st.o
        BY <3>1, <3>5 DEF Advances
      <4>2. Larger(st.lastData + 1, st.searched) <= T
        BY <1>7, <2>2, <3>5, <4>1 DEF Larger
      <4>3. ~ Barren(g, st, st.lastData)
        BY <1>7, <1>10, <4>2 DEF Barren
      <4>4. Seeks(g, st, nx, st.lastData)
        BY <3>1, <3>2, <3>5, <4>3 DEF Moves, Chains, Goes
      <4>5. nx.o <= T /\ ~ nx.over
        BY <1>7, <1>10, <4>2, <4>4 DEF Seeks
      <4> QED  BY <1>12, <2>1, <4>5 DEF nx
    <3>6. st.o = T \/ st.o < T
      BY <1>7, <2>2, <2>5
    <3> QED  BY <3>3, <3>4, <3>5, <3>6
  <2> QED  BY <1>12, <1>14, <2>3, <2>4, <2>5
<1>15. PICK st \in WalkStates : st \in R /\ st.over /\ Salvage(g) = st.entries
  BY <1>3, <1>13, <1>14, SalvageEnds
<1>16. \E k \in DOMAIN st.entries : st.entries[k].id = i
  BY <1>12, <1>15
<1> QED  BY <1>15, <1>16 DEF Names

\* A container that was only cut short is walked from header to header.
LEMMA CutIsChained ==
  ASSUME NEW s \in ZipShapes, s.desc = FALSE, NEW g, Len(g) \in Nat, Len(g) <= ZipLen(s),
         \A o \in 0..(Len(g) - 1) : CellAt(g, o) = CellAt(ZipContainer(s), o)
  PROVE  \A k \in DOMAIN Salvage(g) : Salvage(g)[k].id # Phantom
<1> DEFINE c == ZipContainer(s)
           n == Len(s.sizes)
           d == DirAt(s)
           b == s.stub
           z == s.sizes
           P(j) == EntryAt(s, j)
           Real(st) == \A a \in DOMAIN st.entries : st.entries[a].id # Phantom
           OnChain(st) == \/ n = 0
                          \/ \E j \in 1..(n + 1) : st.o = P(j)
                          \/ st.o = 0 /\ b = 1 /\ st.lastData = 0 /\ st.searched = 0
           R == {st \in WalkStates : Real(st) /\ (st.over \/ OnChain(st))}
<1>1. /\ n \in 0..MaxEntries /\ MaxEntries \in Nat /\ P(n + 1) = d /\ b \in {0, 1} /\ P(1) = b
      /\ \A j \in 1..(n + 1) : P(j) \in Nat /\ P(j) <= d
      /\ \A j \in 1..n : P(j + 1) = P(j) + 1 + z[j] /\ z[j] \in Nat
  BY ZipShapesAre, ZipAssumption DEF ZipParts
<1>2. /\ \A j \in 1..n : CellAt(c, P(j)) = Loc(j, z[j], FALSE)
      /\ \A j \in 1..n : CellAt(c, d + j - 1) = DirRecord(s, j)
      /\ \A j \in 1..n, p \in Nat : InEntry(s, j, p) => P(j) < p /\ p < P(j + 1)
  BY ZipContainerHolds DEF ZipHolds, InEntry
<1>3. Ruined(g, s, 0)
  BY DEF Ruined
<1>4. RuinHolds(g, s, 0) /\ HeadsAreWhole(g)
  BY <1>3, RuinIs
<1>5. \A o \in Nat : Reads(g, o, "loc") =>
           /\ b <= o /\ o < d
           /\ \E j \in 1..n :
                \/ /\ o = P(j)
                   /\ CellAt(g, o) = Loc(j, z[j], s.desc) \/ (CellAt(g, o) = Loc(j, z[j] + 1, FALSE) /\ j = 0)
                \/ InEntry(s, j, o) /\ CellAt(g, o) = Loc(Phantom, 0, FALSE)
  BY <1>4 DEF RuinHolds
<1>6. /\ Len(g) \in Nat /\ \A o \in 0..(Len(g) - 1) : CellAt(g, o) = CellAt(c, o)
      /\ s.desc = FALSE
  OBVIOUS
<1> HIDE DEF c, n, d, b, z, P
<1>7. n \in Nat /\ d \in Nat /\ b \in Nat /\ 1 \in 1..(n + 1)
      /\ \A j \in 1..n : j \in Nat /\ j >= 1 /\ j \in 1..(n + 1) /\ j + 1 \in 1..(n + 1) /\ n # 0
  <2>1. n \in Nat
    BY <1>1
  <2>2. 1 \in 1..(n + 1) /\ n + 1 \in 1..(n + 1)
        /\ \A j \in 1..n : j \in Nat /\ j >= 1 /\ j \in 1..(n + 1) /\ j + 1 \in 1..(n + 1) /\ n # 0
    BY <2>1
  <2> QED  BY <1>1, <2>1, <2>2
<1>8. ASSUME NEW o \in Nat, Reads(g, o, "loc")
      PROVE  /\ b <= o /\ o < d /\ CellAt(g, o) = CellAt(c, o) /\ CellAt(g, o).desc = FALSE /\ n # 0
  <2>1. b <= o /\ o < d
    BY <1>5, <1>8
  <2>2. CellAt(g, o) = CellAt(c, o)
    BY <1>6, <1>8 DEF Reads
  <2>3. PICK j \in 1..n :
                \/ /\ o = P(j)
                   /\ CellAt(g, o) = Loc(j, z[j], s.desc) \/ (CellAt(g, o) = Loc(j, z[j] + 1, FALSE) /\ j = 0)
                \/ InEntry(s, j, o) /\ CellAt(g, o) = Loc(Phantom, 0, FALSE)
    BY <1>5, <1>8
  <2>4. \E i, x : CellAt(g, o) = Loc(i, x, FALSE)
    BY <1>6, <2>3, Zenon
  <2>5. CellAt(g, o).desc = FALSE
    BY <2>4 DEF Loc
  <2> QED  BY <1>7, <2>1, <2>2, <2>3, <2>5
\* The cells the chain comes to.
<1>9. ASSUME NEW j \in 1..n, P(j) < Len(g)
      PROVE  /\ Reads(g, P(j), "loc") /\ CellAt(g, P(j)).id = j /\ CellAt(g, P(j)).id # Phantom
             /\ P(j) + 1 + CellAt(g, P(j)).comp = P(j + 1)
  <2>1. P(j) \in Nat /\ P(j) \in 0..(Len(g) - 1)
    BY <1>1, <1>6, <1>7, <1>9
  <2>2. CellAt(g, P(j)) = Loc(j, z[j], FALSE)
    BY <1>2, <1>6, <2>1
  <2>3. CellAt(g, P(j)).t = "loc" /\ CellAt(g, P(j)).id = j /\ CellAt(g, P(j)).comp = z[j]
    BY <2>2 DEF Loc
  <2>4. Reads(g, P(j), "loc")
    BY <1>6, <2>1, <2>3 DEF Reads
  <2>5. j # Phantom
    BY <1>7 DEF Phantom
  <2> QED  BY <1>1, <2>3, <2>4, <2>5
<1>10. d < Len(g) /\ n # 0 => Reads(g, d, "cd")
  <2> SUFFICES ASSUME d < Len(g), n # 0
               PROVE  Reads(g, d, "cd")
    OBVIOUS
  <2>1. 1 \in 1..n /\ d + 1 - 1 = d /\ d \in 0..(Len(g) - 1)
    BY <1>6, <1>7
  <2>2. CellAt(g, d) = DirRecord(s, 1)
    BY <1>2, <1>6, <2>1
  <2>3. DirRecord(s, 1).t = "cd"
    <3>1. s.zip64 \in {"no", "off", "all"}
      BY ZipShapesAre DEF ZipParts
    <3>2. \A x, y, e : Cd(1, x, y, e).t = "cd"
      BY DEF Cd
    <3> QED  BY <3>1, <3>2 DEF DirRecord
  <2> QED  BY <1>6, <2>1, <2>2, <2>3 DEF Reads
<1>11. \A st \in WalkStates : st \in R <=> Real(st) /\ (st.over \/ OnChain(st))
  OBVIOUS
<1> HIDE DEF R
<1>12. walkBegins \in R
  <2>1. <<>> \in Seq(Hits)
    OBVIOUS
  <2>2. walkBegins \in WalkStates
    BY <2>1 DEF walkBegins, WalkStates
  <2>3. Real(walkBegins)
    BY DEF walkBegins
  <2>4. walkBegins.o = 0 /\ walkBegins.lastData = 0 /\ walkBegins.searched = 0
    BY DEF walkBegins
  <2>5. OnChain(walkBegins)
    BY <1>1, <1>7, <2>4
  <2> QED  BY <1>11, <2>2, <2>3, <2>5
<1>13. ASSUME NEW k \in Nat, NEW st \in WalkStates, st \in R
       PROVE  salvageStep(g, st) \in R
  <2> DEFINE nx == salvageStep(g, st)
  <2>1. nx \in WalkStates /\ IF st.over THEN nx = st ELSE Moves(g, st, nx)
    BY <1>4, StepIs
  <2>2. st.o \in Nat /\ st.entries \in Seq(Hits) /\ nx.o \in Nat
    BY <2>1 DEF WalkStates
  <2>3. Real(st)
    BY <1>11, <1>13
  <2> HIDE DEF nx, Real, OnChain
  <2>4. CASE st.over
    BY <1>13, <2>1, <2>4 DEF nx
  <2>5. CASE ~ st.over
    <3>1. Moves(g, st, nx) /\ OnChain(st)
      BY <1>11, <1>13, <2>1, <2>5
    <3>2. CASE Gives(g, st, nx)
      <4>1. nx.over /\ nx.entries = st.entries
        BY <3>2 DEF Gives
      <4>2. Real(nx)
        BY <2>3, <4>1 DEF Real
      <4> QED  BY <1>11, <2>1, <4>1, <4>2 DEF nx
    <3>3. CASE Chains(g, st, nx)
      <4> DEFINE p == [id |-> CellAt(g, st.o).id, comp |-> CellAt(g, st.o).comp, off |-> st.o]
      <4>1. /\ Reads(g, st.o, "loc") /\ nx.o = st.o + 1 + CellAt(g, st.o).comp
            /\ nx.entries = Append(st.entries, p) /\ p \in Hits
        BY <2>2, <3>3 DEF Chains, Hits, Goes
      <4>2. b <= st.o /\ st.o < d /\ n # 0 /\ st.o < Len(g)
        BY <1>8, <2>2, <4>1 DEF Reads
      <4>3. PICK j \in 1..n : st.o = P(j)
        <5>1. ~ (st.o = 0 /\ b = 1)
          BY <4>2
        <5>2. PICK j \in 1..(n + 1) : st.o = P(j)
          BY <3>1, <4>2, <5>1 DEF OnChain
        <5>3. j # n + 1
          BY <1>1, <1>7, <2>2, <4>2, <5>2
        <5> QED  BY <1>7, <5>2, <5>3
      <4>4. nx.o = P(j + 1) /\ p.id # Phantom
        BY <1>9, <4>1, <4>2, <4>3
      <4>5. Real(nx)
        <5> HIDE DEF p
        <5>1. \A a \in DOMAIN nx.entries : nx.entries[a] = p \/ (a \in DOMAIN st.entries /\ nx.entries[a] = st.entries[a])
          BY <2>2, <4>1
        <5> QED  BY <2>3, <4>4, <5>1 DEF Real
      <4>6. OnChain(nx)
        BY <1>7, <4>3, <4>4 DEF OnChain
      <4> QED  BY <1>11, <2>1, <4>5, <4>6 DEF nx
    <3>4. CASE /\ st.o < Len(g) /\ ~ Reads(g, st.o, "loc") /\ ~ Reads(g, st.o, "cd")
               /\ Seeks(g, st, nx, st.lastData)
      <4>1. /\ Reads(g, nx.o, "loc") /\ Larger(st.lastData + 1, st.searched) <= nx.o /\ nx.entries = st.entries
            /\ \A p \in Nat : Reads(g, p, "loc") /\ Larger(st.lastData + 1, st.searched) <= p => nx.o <= p
        BY <3>4 DEF Seeks
      <4>2. n # 0
        BY <1>8, <2>2, <4>1
      <4>3. \A j \in 1..(n + 1) : st.o # P(j)
        <5> SUFFICES ASSUME NEW j \in 1..(n + 1), st.o = P(j)
                     PROVE  FALSE
          OBVIOUS
        <5>1. CASE j \in 1..n
          BY <1>9, <3>4, <5>1
        <5>2. CASE j = n + 1
          BY <1>1, <1>10, <3>4, <4>2, <5>2
        <5> QED  BY <1>7, <5>1, <5>2
      <4>4. st.o = 0 /\ b = 1 /\ st.lastData = 0 /\ st.searched = 0
        BY <3>1, <4>2, <4>3 DEF OnChain
      <4>5. Larger(st.lastData + 1, st.searched) = 1
        BY <4>4 DEF Larger
      <4>6. nx.o >= 1 /\ nx.o < Len(g)
        BY <4>1, <4>5 DEF Reads
      <4>7. 1 \in 1..n /\ P(1) = 1 /\ P(1) < Len(g)
        BY <1>1, <1>6, <1>7, <2>2, <4>2, <4>4, <4>6
      <4>8. Reads(g, 1, "loc")
        BY <1>9, <4>7
      <4>9. nx.o = 1
        BY <2>2, <4>1, <4>5, <4>6, <4>8
      <4>10. OnChain(nx)
        BY <1>7, <4>7, <4>9 DEF OnChain
      <4>11. Real(nx)
        BY <2>3, <4>1 DEF Real
      <4> QED  BY <1>11, <2>1, <4>10, <4>11 DEF nx
    <3>5. ~ (Reads(g, st.o, "loc") /\ CellAt(g, st.o).desc = TRUE)
      BY <1>8, <2>2
    <3> QED  BY <3>1, <3>2, <3>3, <3>4, <3>5 DEF Moves
  <2> QED  BY <2>4, <2>5
<1>14. PICK st \in WalkStates : st \in R /\ Salvage(g) = st.entries
  BY <1>4, <1>12, <1>13, SalvageEnds
<1>15. Real(st)
  BY <1>11, <1>14
<1> QED  BY <1>14, <1>15

\* A salvage lists what lies in the file, each entry once.
LEMMA SalvageLies ==
  ASSUME NEW g, HeadsAreWhole(g)
  PROVE  LET l == Salvage(g)
         IN  /\ l \in Seq(Hits)
             /\ \A j \in DOMAIN l : usableEntry(l[j], Len(g))
             /\ \A i, j \in DOMAIN l : l[i].off = l[j].off => i = j
<1>1. walkBegins \in WalkStates
  <2>1. <<>> \in Seq(Hits)
    OBVIOUS
  <2> QED  BY <2>1 DEF walkBegins, WalkStates
<1>2. \A k \in Nat, st \in WalkStates : st \in WalkStates /\ Walking(g, st, k) => salvageStep(g, st) \in WalkStates
  BY StepIs
<1>3. PICK st \in WalkStates : Spread(g, st) /\ Salvage(g) = st.entries
  BY <1>1, <1>2, SalvageEnds
<1> DEFINE l == Salvage(g)
<1>4. l \in Seq(Hits) /\ DOMAIN l = 1..Len(l) /\ Len(l) \in Nat
  BY <1>3 DEF WalkStates
<1>5. Len(g) \in Nat
  BY DEF HeadsAreWhole
<1>6. /\ \A j \in 1..Len(l) : l[j].off + 1 + l[j].comp <= Len(g)
      /\ \A i, j \in 1..Len(l) : i < j => l[i].off < l[j].off
  BY <1>3 DEF Spread
<1> HIDE DEF l
<1>7. ASSUME NEW j \in 1..Len(l)
      PROVE  l[j].off \in Nat /\ usableEntry(l[j], Len(g))
  <2>1. l[j] \in Hits
    BY <1>4
  <2>2. l[j].off \in Nat /\ l[j].comp \in Nat
    BY <2>1 DEF Hits
  <2>3. l[j].off < Len(g) /\ l[j].comp <= Len(g) /\ l[j].off >= 0 /\ l[j].comp >= 0
    BY <1>5, <1>6, <2>2
  <2> QED  BY <2>2, <2>3 DEF usableEntry
<1>8. ASSUME NEW i \in 1..Len(l), NEW j \in 1..Len(l), l[i].off = l[j].off
      PROVE  i = j
  <2>1. i \in Nat /\ j \in Nat /\ l[i].off \in Nat /\ l[j].off \in Nat
    BY <1>4, <1>7
  <2>2. ~ (i < j) /\ ~ (j < i)
    BY <1>6, <1>8, <2>1
  <2> QED  BY <2>1, <2>2
<1> QED  BY <1>4, <1>7, <1>8 DEF l

\* A container with cells wiped out is a ruin.
LEMMA FadedIsRuined ==
  ASSUME NEW s \in ZipShapes, NEW g, Faded(g, ZipContainer(s))
  PROVE  Ruined(g, s, 0)
<1> DEFINE c == ZipContainer(s)
<1>1. Len(c) = ZipLen(s) /\ ZipLen(s) \in Nat
  BY ZipContainerIs
<1> HIDE DEF c
<1> QED  BY <1>1 DEF Faded, Ruined, c

\* Zeroes over a range of cells wipe out just these.
LEMMA ZeroedIsFaded ==
  ASSUME NEW s \in ZipShapes, NEW S
  PROVE  Faded(Zeroed(ZipContainer(s), S), ZipContainer(s))
<1> DEFINE c == ZipContainer(s)
           g == Zeroed(c, S)
<1>1. c = [k \in 1..Len(c) |-> c[k]] /\ Len(c) \in Nat
  BY ZipContainerIs
<1> HIDE DEF c
<1>2. g = [i \in 1..Len(c) |-> IF i \in S THEN Zero ELSE c[i]]
  BY <1>1 DEF Zeroed
<1>3. Len(g) = Len(c)
  BY <1>1, <1>2
<1>4. \A o \in 0..(Len(c) - 1) : o + 1 \in 1..Len(c)
  BY <1>1
<1>5. \A o \in 0..(Len(c) - 1) : CellAt(g, o) = CellAt(c, o) \/ CellAt(g, o) = Zero
  BY <1>2, <1>4 DEF CellAt
<1> QED  BY <1>3, <1>5 DEF Faded, c

\* The file is what the accident made of the container, and the index what is
\* read of it.
ZipInv ==
  LET c == ZipContainer(shape)
  IN  /\ shape \in ZipShapes /\ Fits(shape)
      /\ damage \in {"no", "cut", "zeroed", "hole", "size"}
      /\ damage = "no" => zipFile = c
      /\ damage = "cut" => \E k \in 1..(Len(c) - 1) : zipFile = SubSeq(c, 1, k)
      /\ damage \in {"zeroed", "hole"} => Faded(zipFile, c)
      /\ damage = "size" => readEnd(zipFile) = NoEnd /\ \E w : Ruined(zipFile, shape, w)
      /\ zipIndex = Unlisted \/ zipIndex = ReadCentralDirectory(zipFile)

LEMMA ZipInitInv == zipInit => ZipInv
BY DEF zipInit, ZipInv

\* Every step keeps the invariant.
LEMMA ZipNextInv == ZipInv /\ [zipNext]_zipVars => ZipInv'
<1> SUFFICES ASSUME ZipInv, [zipNext]_zipVars
             PROVE  ZipInv'
  OBVIOUS
<1> DEFINE c == ZipContainer(shape)
<1>1. /\ shape \in ZipShapes /\ Fits(shape) /\ damage \in {"no", "cut", "zeroed", "hole", "size"}
      /\ damage = "no" => zipFile = c
  BY DEF ZipInv
<1>2. CASE UNCHANGED zipVars
  BY <1>2 DEF ZipInv, zipVars
<1>3. CASE ListZip
  <2>1. zipIndex' = ReadCentralDirectory(zipFile) /\ shape' = shape /\ zipFile' = zipFile /\ damage' = damage
    BY <1>3 DEF ListZip
  <2> QED  BY <2>1 DEF ZipInv
<1>4. CASE Damage
  <2>1. damage = "no" /\ ~ zipIndex.read /\ shape' = shape /\ zipIndex' = zipIndex /\ zipFile = c
    BY <1>1, <1>4 DEF Damage
  <2>2. zipIndex = Unlisted
    <3>1. \A g : ReadCentralDirectory(g).read = TRUE
      <4>1. \A e, x, y : ZipAnswer(e, x, y).read = TRUE
        BY DEF ZipAnswer
      <4> QED  BY <4>1 DEF ReadCentralDirectory
    <3> QED  BY <2>1, <3>1 DEF ZipInv
  <2>3. PICK k \in 1..(Len(c) - 1) : CutZip(k) \/ ZeroFrom(k) \/ WrongSize(k) \/ (\E j \in 1..k : Hole(j, k))
    BY <1>4, <2>1 DEF Damage
  <2> HIDE DEF c
  <2>4. CASE CutZip(k)
    <3>1. zipFile' = SubSeq(c, 1, k) /\ damage' = "cut"
      BY <2>1, <2>4 DEF CutZip
    <3> QED  BY <1>1, <2>1, <2>2, <3>1 DEF ZipInv, c
  <2>5. CASE ZeroFrom(k) \/ \E j \in 1..k : Hole(j, k)
    <3>1. damage' \in {"zeroed", "hole"} /\ \E S : zipFile' = Zeroed(c, S)
      BY <2>1, <2>5 DEF ZeroFrom, Hole
    <3>2. Faded(zipFile', c)
      BY <1>1, <3>1, ZeroedIsFaded DEF c
    <3> QED  BY <1>1, <2>1, <2>2, <3>1, <3>2 DEF ZipInv, c
  <2>6. CASE WrongSize(k)
    <3> DEFINE g == [i \in 1..(Len(c) - 1 - shape.comment) |-> IF i = k THEN Loc(c[k].id, c[k].comp + 1, FALSE) ELSE c[i]]
    <3>1. c[k].t = "loc" /\ c[k].id # Phantom /\ ~ c[k].desc /\ zipFile' = g /\ damage' = "size"
      BY <2>1, <2>6 DEF WrongSize
    <3>2. readEnd(g) = NoEnd /\ \E w : Ruined(g, shape, w)
      BY <1>1, <3>1, SizeIs DEF c
    <3> HIDE DEF g
    <3> QED  BY <1>1, <2>1, <2>2, <3>1, <3>2 DEF ZipInv, c
  <2> QED  BY <2>3, <2>4, <2>5, <2>6
<1> QED  BY <1>2, <1>3, <1>4 DEF zipNext

\* What the scanner may have read, and of what.
ZipRead ==
  \/ zipIndex = Unlisted
  \/ zipIndex = ZipAnswer(<<>>, FALSE, FALSE) /\ damage # "no"
  \/ /\ zipIndex = ZipAnswer(Salvage(zipFile), FALSE, TRUE) /\ damage # "no"
     /\ \E w : Ruined(zipFile, shape, w)
  \/ \E m \in 0..Len(shape.sizes) :
       /\ ReadAs(zipIndex, shape, m) /\ Len(zipFile) = ZipLen(shape)
       /\ damage = "no" => m = Len(shape.sizes)

LEMMA ReadNoEnd ==
  ASSUME NEW g, readEnd(g) = NoEnd
  PROVE  ReadCentralDirectory(g) \in {ZipAnswer(<<>>, FALSE, FALSE), ZipAnswer(Salvage(g), FALSE, TRUE)}
<1>1. ~ readEnd(g).ok
  BY DEF NoEnd
<1> QED  BY <1>1 DEF ReadCentralDirectory

\* What the index says of the file, by what befell it.
LEMMA ZipReadIs == ASSUME ZipInv PROVE ZipRead
<1> DEFINE c == ZipContainer(shape)
           n == Len(shape.sizes)
           a == ReadCentralDirectory(zipFile)
<1>1. /\ shape \in ZipShapes /\ Fits(shape) /\ damage \in {"no", "cut", "zeroed", "hole", "size"}
      /\ damage = "no" => zipFile = c
      /\ damage = "cut" => \E k \in 1..(Len(c) - 1) : zipFile = SubSeq(c, 1, k)
      /\ damage \in {"zeroed", "hole"} => Faded(zipFile, c)
      /\ damage = "size" => readEnd(zipFile) = NoEnd /\ \E w : Ruined(zipFile, shape, w)
      /\ zipIndex = Unlisted \/ zipIndex = a
  BY DEF ZipInv
<1> HIDE DEF a
<1>2. CASE zipIndex = Unlisted
  BY <1>2 DEF ZipRead
<1>3. CASE zipIndex = a /\ damage \in {"no", "zeroed", "hole"}
  <2>1. Faded(zipFile, c)
    <3>1. Faded(c, c)
      BY DEF Faded
    <3> QED  BY <1>1, <1>3, <3>1
  <2>2. /\ \/ a = ZipAnswer(Salvage(zipFile), FALSE, TRUE)
           \/ a = ZipAnswer(<<>>, FALSE, FALSE)
           \/ \E m \in 0..n : ReadAs(a, shape, m)
        /\ zipFile = c => ReadAs(a, shape, n)
    BY <1>1, <2>1, ReadIs DEF a
  <2>3. Ruined(zipFile, shape, 0)
    BY <1>1, <2>1, FadedIsRuined
  <2>4. Len(zipFile) = ZipLen(shape)
    BY <1>1, <2>1, ZipContainerIs DEF Faded
  <2>5. n \in 0..n
    <3>1. n \in 0..MaxEntries /\ MaxEntries \in Nat
      BY <1>1, ZipShapesAre, ZipAssumption DEF ZipParts
    <3> HIDE DEF n
    <3> QED  BY <3>1
  <2>6. CASE damage = "no"
    <3>1. ReadAs(zipIndex, shape, n)
      BY <1>1, <1>3, <2>2, <2>6
    <3> QED  BY <2>4, <2>5, <3>1 DEF ZipRead
  <2>7. CASE damage # "no"
    <3>1. CASE a = ZipAnswer(Salvage(zipFile), FALSE, TRUE)
      <4>1. zipIndex = ZipAnswer(Salvage(zipFile), FALSE, TRUE)
        BY <1>3, <3>1, Zenon
      <4> QED  BY <2>3, <2>7, <4>1, Zenon DEF ZipRead
    <3>2. CASE a = ZipAnswer(<<>>, FALSE, FALSE)
      <4>1. zipIndex = ZipAnswer(<<>>, FALSE, FALSE)
        BY <1>3, <3>2, Zenon
      <4> QED  BY <2>7, <4>1, Zenon DEF ZipRead
    <3>3. CASE \E m \in 0..n : ReadAs(a, shape, m)
      BY <1>3, <2>4, <2>7, <3>3 DEF ZipRead
    <3> QED  BY <2>2, <3>1, <3>2, <3>3
  <2> QED  BY <2>6, <2>7
<1>4. CASE zipIndex = a /\ damage \in {"cut", "size"}
  <2>1. readEnd(zipFile) = NoEnd /\ (\E w : Ruined(zipFile, shape, w)) /\ damage # "no"
    <3>1. CASE damage = "size"
      BY <1>1, <3>1
    <3>2. CASE damage = "cut"
      <4>1. PICK k \in 1..(Len(c) - 1) : zipFile = SubSeq(c, 1, k)
        BY <1>1, <3>2
      <4>2. /\ Len(zipFile) = k /\ k \in Nat /\ k < ZipLen(shape) /\ readEnd(zipFile) = NoEnd
            /\ \A o \in 0..(k - 1) : CellAt(zipFile, o) = CellAt(c, o)
        BY <1>1, <4>1, CutIs
      <4>3. ZipLen(shape) \in Nat
        BY <1>1, ZipContainerIs
      <4>4. Len(zipFile) \in Nat /\ Len(zipFile) <= ZipLen(shape)
        BY <4>2, <4>3
      <4>5. \A o \in 0..(Len(zipFile) - 1) : CellAt(zipFile, o) \in {CellAt(c, o), Zero}
        BY <4>2
      <4>6. Ruined(zipFile, shape, 0)
        BY <4>4, <4>5 DEF Ruined
      <4> QED  BY <3>2, <4>2, <4>6
    <3> QED  BY <1>4, <3>1, <3>2
  <2>2. zipIndex \in {ZipAnswer(<<>>, FALSE, FALSE), ZipAnswer(Salvage(zipFile), FALSE, TRUE)}
    BY <1>4, <2>1, ReadNoEnd DEF a
  <2> QED  BY <2>1, <2>2, Zenon DEF ZipRead
<1> QED  BY <1>1, <1>2, <1>3, <1>4

\* The three parts of ZipIsRead.
LEMMA ReadsExact == ASSUME ZipInv PROVE HealthyIsExact
<1> DEFINE c == ZipContainer(shape)
           n == Len(shape.sizes)
<1>1. shape \in ZipShapes /\ (damage = "no" => zipFile = c)
  BY DEF ZipInv
<1>2. ZipRead
  BY ZipReadIs
<1> SUFFICES ASSUME zipIndex.read, damage = "no"
             PROVE  /\ zipIndex.ok /\ zipIndex.entries = PackedEntries(shape)
                    /\ \A i \in DOMAIN zipIndex.entries :
                         OpenEntry(zipFile, zipIndex.entries[i]).ok /\ OpenEntry(zipFile, zipIndex.entries[i]).id = i
  BY DEF HealthyIsExact
<1>3. ReadAs(zipIndex, shape, n)
  <2>1. ~ Unlisted.read
    BY DEF Unlisted
  <2> QED  BY <1>2, <2>1 DEF ZipRead
<1>4. zipIndex.ok /\ zipIndex.entries = [k \in 1..n |-> PackedEntries(shape)[k]]
  BY <1>3 DEF ReadAs, Told
<1>5. DOMAIN shape.sizes = 1..n
  BY <1>1, ZipShapesAre DEF ZipParts
<1>6. PackedEntries(shape) = [i \in 1..n |-> [id |-> i, comp |-> shape.sizes[i], off |-> EntryAt(shape, i)]]
  BY <1>5 DEF PackedEntries
<1> HIDE DEF n
<1>7. zipIndex.entries = PackedEntries(shape) /\ DOMAIN zipIndex.entries = 1..n
  BY <1>4, <1>6
<1>8. ASSUME NEW i \in 1..n
      PROVE  OpenEntry(zipFile, zipIndex.entries[i]).ok /\ OpenEntry(zipFile, zipIndex.entries[i]).id = i
  <2> DEFINE o == EntryAt(shape, i)
             e == zipIndex.entries[i]
  <2>1. e.off = o
    BY <1>6, <1>7
  <2>2. CellAt(c, o) = Loc(i, shape.sizes[i], shape.desc)
    BY <1>1, ZipContainerHolds DEF ZipHolds, n
  <2>3. o \in Nat /\ o < Len(c)
    <3>1. /\ n \in 0..MaxEntries /\ MaxEntries \in Nat /\ o \in Nat /\ o <= DirAt(shape)
          /\ DirAt(shape) \in Nat
      <4>1. n \in 0..MaxEntries /\ MaxEntries \in Nat
        BY <1>1, ZipShapesAre, ZipAssumption DEF ZipParts, n
      <4>2. i \in 1..(n + 1) /\ n + 1 \in 1..(n + 1)
        BY <4>1
      <4>3. /\ \A j \in 1..(n + 1) : EntryAt(shape, j) \in Nat /\ EntryAt(shape, j) <= DirAt(shape)
            /\ EntryAt(shape, n + 1) = DirAt(shape)
        BY <1>1, ZipShapesAre DEF ZipParts, n
      <4> QED  BY <4>1, <4>2, <4>3
    <3>2. Len(c) = ZipLen(shape) /\ EndAt(shape) \in Nat /\ DirAt(shape) + n <= EndAt(shape)
          /\ ZipLen(shape) = EndAt(shape) + 1 + shape.comment
      BY <1>1, ZipContainerIs DEF ZipLen, n
    <3>3. shape.comment \in {0, 1}
      BY <1>1, ZipShapesAre DEF ZipParts
    <3> HIDE DEF o, c
    <3>4. Len(c) \in Nat /\ DirAt(shape) + n < Len(c) /\ n \in Nat
      BY <3>1, <3>2, <3>3
    <3> QED  BY <3>1, <3>4
  <2>4. Loc(i, shape.sizes[i], shape.desc).t = "loc" /\ Loc(i, shape.sizes[i], shape.desc).id = i
    BY DEF Loc
  <2> HIDE DEF o, e, c
  <2>5. Reads(zipFile, o, "loc") /\ CellAt(zipFile, o).id = i
    BY <1>1, <2>2, <2>3, <2>4 DEF Reads
  <2>6. OpenEntry(zipFile, e) = [ok |-> TRUE, id |-> CellAt(zipFile, e.off).id, cells |-> (e.off + 1)..(e.off + e.comp)]
    BY <2>1, <2>5 DEF OpenEntry
  <2>7. OpenEntry(zipFile, e).ok /\ OpenEntry(zipFile, e).id = i
    BY <2>1, <2>5, <2>6
  <2> QED  BY <2>7 DEF e
<1> QED  BY <1>4, <1>7, <1>8

LEMMA DamageSeen == ASSUME ZipInv PROVE DamageIsSeen
<1> DEFINE n == Len(shape.sizes)
           E == zipIndex.entries
           P(i) == EntryAt(shape, i)
<1>1. shape \in ZipShapes
  BY DEF ZipInv
<1>2. ZipRead
  BY ZipReadIs
<1>3. n \in 0..MaxEntries /\ MaxEntries \in Nat /\ Wrap \in Nat \ {0}
  BY <1>1, ZipShapesAre, ZipAssumption DEF ZipParts
<1>4. n \in Nat
  <2> HIDE DEF n
  <2> QED  BY <1>3
<1>5. ASSUME E = <<>>, ~ zipIndex.ok
      PROVE  DamageIsSeen
  BY <1>5 DEF DamageIsSeen
<1>6. CASE zipIndex = Unlisted
  BY <1>5, <1>6 DEF Unlisted
<1>7. CASE zipIndex = ZipAnswer(<<>>, FALSE, FALSE)
  BY <1>5, <1>7 DEF ZipAnswer
<1>8. CASE zipIndex = ZipAnswer(Salvage(zipFile), FALSE, TRUE) /\ \E w : Ruined(zipFile, shape, w)
  <2>1. ~ zipIndex.ok /\ E = Salvage(zipFile)
    BY <1>8 DEF ZipAnswer
  <2>2. HeadsAreWhole(zipFile)
    BY <1>1, <1>8, RuinIs
  <2>3. \A j \in DOMAIN Salvage(zipFile) : usableEntry(Salvage(zipFile)[j], Len(zipFile))
    BY <2>2, SalvageLies
  <2> QED  BY <2>1, <2>3 DEF DamageIsSeen
<1>9. ASSUME NEW m \in 0..n, ReadAs(zipIndex, shape, m), Len(zipFile) = ZipLen(shape)
      PROVE  DamageIsSeen
  <2>1. zipIndex.ok = (m % Wrap = n % Wrap) /\ E = [k \in 1..m |-> PackedEntries(shape)[k]]
    BY <1>9 DEF ReadAs, Told
  <2>2. m \in Nat /\ m <= n
    <3> HIDE DEF n
    <3> QED  BY <1>4
  <2>3. DOMAIN shape.sizes = 1..n
    BY <1>1, ZipShapesAre DEF ZipParts
  <2>4. PackedEntries(shape) = [i \in 1..n |-> [id |-> i, comp |-> shape.sizes[i], off |-> P(i)]]
    BY <2>3 DEF PackedEntries
  <2>5. /\ P(n + 1) = DirAt(shape)
        /\ \A i \in 1..(n + 1) : P(i) \in Nat /\ P(i) <= DirAt(shape)
        /\ \A i \in 1..n : P(i + 1) = P(i) + 1 + shape.sizes[i] /\ shape.sizes[i] \in Nat
        /\ shape.comment \in {0, 1}
    BY <1>1, ZipShapesAre DEF ZipParts
  <2>6. EndAt(shape) \in Nat /\ DirAt(shape) + n <= EndAt(shape) /\ ZipLen(shape) = EndAt(shape) + 1 + shape.comment
    BY <1>1, ZipContainerIs DEF ZipLen
  <2> HIDE DEF n, P, E
  <2>7. n + 1 \in 1..(n + 1) /\ \A i \in 1..m : i \in 1..n /\ i \in 1..(n + 1) /\ i + 1 \in 1..(n + 1)
    BY <1>4, <2>2
  <2>8. DirAt(shape) \in Nat /\ Len(zipFile) \in Nat /\ DirAt(shape) <= Len(zipFile)
    <3>1. DirAt(shape) \in Nat
      BY <2>5, <2>7
    <3> QED  BY <1>4, <1>9, <2>5, <2>6, <3>1
  <2>9. ASSUME NEW i \in DOMAIN E
        PROVE  usableEntry(E[i], Len(zipFile))
    <3>1. i \in 1..m /\ i \in 1..n /\ i \in 1..(n + 1) /\ i + 1 \in 1..(n + 1)
      BY <2>1, <2>7
    <3>2. E[i] = [id |-> i, comp |-> shape.sizes[i], off |-> P(i)]
      BY <2>1, <2>4, <3>1
    <3>3. E[i].off = P(i) /\ E[i].comp = shape.sizes[i]
      BY <3>2
    <3>4. P(i) \in Nat /\ shape.sizes[i] \in Nat /\ P(i) + 1 + shape.sizes[i] <= DirAt(shape)
      BY <2>5, <3>1
    <3> DEFINE p == P(i)
               q == shape.sizes[i]
               L == Len(zipFile)
               D == DirAt(shape)
    <3>5. p \in Nat /\ q \in Nat /\ L \in Nat /\ D \in Nat /\ p + 1 + q <= D /\ D <= L
      BY <2>8, <3>4
    <3> HIDE DEF p, q, L, D
    <3>6. p >= 0 /\ p < L /\ q >= 0 /\ q <= L
      BY <3>5
    <3> QED  BY <3>3, <3>6 DEF usableEntry, p, q, L
  <2>10. zipIndex.ok /\ n < Wrap => E = PackedEntries(shape)
    <3> SUFFICES ASSUME zipIndex.ok, n < Wrap
                 PROVE  E = PackedEntries(shape)
      OBVIOUS
    <3>1. m % Wrap = n % Wrap
      BY <2>1
    <3>2. \A x \in Nat : x < Wrap => x % Wrap = x
      BY <1>3
    <3>3. m % Wrap = m /\ n % Wrap = n
      BY <1>3, <1>4, <2>2, <3>2
    <3>4. m = n
      BY <3>1, <3>3
    <3> QED  BY <2>1, <2>4, <3>4
  <2> QED  BY <2>9, <2>10 DEF DamageIsSeen, E, n
<1> QED  BY <1>2, <1>6, <1>7, <1>8, <1>9 DEF ZipRead

LEMMA SalvageKeeps == ASSUME ZipInv PROVE SalvageKeepsIntact
<1> DEFINE c == ZipContainer(shape)
           n == Len(shape.sizes)
           P(i) == EntryAt(shape, i)
           ids == {zipIndex.entries[k].id : k \in DOMAIN zipIndex.entries}
<1>1. /\ shape \in ZipShapes
      /\ damage = "cut" => \E k \in 1..(Len(c) - 1) : zipFile = SubSeq(c, 1, k)
  BY DEF ZipInv
<1>2. ZipRead
  BY ZipReadIs
<1> SUFFICES ASSUME damage # "no", zipIndex.salvaged, ~ shape.desc
             PROVE  /\ \A i \in DOMAIN shape.sizes : Intact(i) /\ ~ Swallowed(i) => i \in ids
                    /\ \A j, k \in DOMAIN zipIndex.entries :
                         zipIndex.entries[j].off = zipIndex.entries[k].off => j = k
                    /\ damage = "cut" => Phantom \notin ids
  BY DEF SalvageKeepsIntact
<1>3. zipIndex = ZipAnswer(Salvage(zipFile), FALSE, TRUE) /\ \E w : Ruined(zipFile, shape, w)
  <2>1. ~ Unlisted.salvaged /\ ~ ZipAnswer(<<>>, FALSE, FALSE).salvaged
    BY DEF Unlisted, ZipAnswer
  <2>2. \A m : ReadAs(zipIndex, shape, m) => ~ zipIndex.salvaged
    BY DEF ReadAs
  <2> QED  BY <1>2, <2>1, <2>2, Zenon DEF ZipRead
<1>4. zipIndex.entries = Salvage(zipFile)
  BY <1>3 DEF ZipAnswer
<1>5. shape.desc = FALSE
  BY <1>1, ZipShapesAre DEF ZipParts
<1>6. PICK w : Ruined(zipFile, shape, w)
  BY <1>3
<1>7. HeadsAreWhole(zipFile)
  BY <1>1, <1>6, RuinIs
<1>8. /\ DOMAIN shape.sizes = 1..n /\ n \in 0..MaxEntries /\ MaxEntries \in Nat
      /\ \A i \in 1..(n + 1) : P(i) \in Nat
      /\ \A i \in 1..n : shape.sizes[i] \in Nat
  BY <1>1, ZipShapesAre, ZipAssumption DEF ZipParts
<1>9. PackedEntries(shape) = [i \in 1..n |-> [id |-> i, comp |-> shape.sizes[i], off |-> P(i)]]
  BY <1>8 DEF PackedEntries
<1>10. n \in Nat /\ \A i \in 1..n : i \in Nat /\ i \in 1..(n + 1) /\ (i > 1 => i - 1 \in 1..n /\ i - 1 \in 1..(n + 1))
  <2> HIDE DEF n
  <2>1. n \in Nat
    BY <1>8
  <2> QED  BY <2>1
<1>11. ASSUME NEW i \in 1..n, Intact(i), ~ Swallowed(i)
       PROVE  i \in ids
  <2> HIDE DEF n, P, c
  <2>1. \A j \in 1..n : PackedEntries(shape)[j].off = P(j) /\ PackedEntries(shape)[j].comp = shape.sizes[j]
    BY <1>9
  <2>2. /\ P(i) + shape.sizes[i] < Len(zipFile)
        /\ \A o \in P(i)..(P(i) + shape.sizes[i]) : zipFile[o + 1] = c[o + 1]
    BY <1>11, <2>1 DEF Intact, c
  <2>3. CellAt(zipFile, P(i)) = CellAt(c, P(i))
    <3>1. P(i) \in P(i)..(P(i) + shape.sizes[i])
      BY <1>8, <1>10
    <3> QED  BY <2>2, <3>1 DEF CellAt
  <2>4. i > 1 /\ Reads(zipFile, P(i - 1), "loc") => P(i - 1) + CellAt(zipFile, P(i - 1)).comp < P(i)
    <3> SUFFICES ASSUME i > 1, Reads(zipFile, P(i - 1), "loc")
                 PROVE  P(i - 1) + CellAt(zipFile, P(i - 1)).comp < P(i)
      OBVIOUS
    <3>1. i - 1 \in 1..n /\ P(i - 1) \in Nat /\ P(i) \in Nat
      BY <1>8, <1>10
    <3>2. ~ (P(i - 1) + CellAt(zipFile, P(i - 1)).comp >= P(i))
      BY <1>11, <2>1, <3>1 DEF Swallowed
    <3>3. CellAt(zipFile, P(i - 1)).comp \in Nat
      <4>1. P(i - 1) \in 0..(Len(zipFile) - 1) /\ CellAt(zipFile, P(i - 1)).t = "loc"
        BY <1>7, <3>1 DEF Reads, HeadsAreWhole
      <4> QED  BY <1>7, <4>1 DEF HeadsAreWhole
    <3> DEFINE x == CellAt(zipFile, P(i - 1)).comp
               y == P(i - 1)
               t == P(i)
    <3>4. x \in Nat /\ y \in Nat /\ t \in Nat /\ ~ (y + x >= t)
      BY <3>1, <3>2, <3>3
    <3> HIDE DEF x, y, t
    <3>5. y + x < t
      BY <3>4
    <3> QED  BY <3>5 DEF x, y, t
  <2>5. \E k \in DOMAIN Salvage(zipFile) : Salvage(zipFile)[k].id = i
    <3>1. Whole(zipFile, shape, i)
      BY <1>5, <2>2, <2>3, <2>4 DEF Whole, P, c, n
    <3>2. Names(Salvage(zipFile), i)
      BY <1>1, <1>6, <3>1, IntactIsListed
    <3> QED  BY <3>2 DEF Names
  <2> QED  BY <1>4, <2>5
<1>12. \A j, k \in DOMAIN zipIndex.entries : zipIndex.entries[j].off = zipIndex.entries[k].off => j = k
  BY <1>4, <1>7, SalvageLies
<1>13. ASSUME damage = "cut"
       PROVE  Phantom \notin ids
  <2>1. PICK k \in 1..(Len(c) - 1) : zipFile = SubSeq(c, 1, k)
    BY <1>1, <1>13
  <2>2. /\ Len(zipFile) = k /\ k \in Nat /\ k < ZipLen(shape)
        /\ \A o \in 0..(k - 1) : CellAt(zipFile, o) = CellAt(c, o)
    BY <1>1, <2>1, CutIs
  <2>3. ZipLen(shape) \in Nat
    BY <1>1, ZipContainerIs
  <2>4. Len(zipFile) \in Nat /\ Len(zipFile) <= ZipLen(shape)
    BY <2>2, <2>3
  <2>5. \A j \in DOMAIN Salvage(zipFile) : Salvage(zipFile)[j].id # Phantom
    BY <1>1, <1>5, <2>2, <2>4, CutIsChained
  <2> QED  BY <1>4, <2>5
<1> QED  BY <1>8, <1>11, <1>12, <1>13

\* A ZIP container is read for what was packed, a damage is seen, and a salvage
\* lists what is whole: whatever was packed, in however many entries, and
\* whatever befell the file.
THEOREM ZipAlwaysRead == zipSpec => []ZipIsRead
<1>1. ZipInv => ZipIsRead
  BY ReadsExact, DamageSeen, SalvageKeeps DEF ZipIsRead
<1> QED  BY <1>1, ZipInitInv, ZipNextInv, PTL DEF zipSpec
==============================================================================
