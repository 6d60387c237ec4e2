--------------------------- MODULE ThumbnailsProofs ---------------------------
(***************************************************************************)
(* For any number of workers, callers, sources and permits: one goroutine  *)
(* at a time generates a key, the queues and the set that deduplicates     *)
(* them agree, no job is left to a pool that sleeps, an idle service has   *)
(* kept its promises, and what it serves for a scanned page is of that     *)
(* page.                                                                   *)
(***************************************************************************)
EXTENDS Thumbnails, FiniteSetTheorems, TLAPS

Resting == {"idle", "check", "asleep", "exit"}
Flyers  == {q \in Procs : pc[q] \in Flying}
Busy    == {w \in Workers : pc[w] \notin {"check", "asleep", "exit"}}

(* Workers and callers have their own places; who is not resting has a     *)
(* job, and only a publisher counts attempts.                              *)
Places ==
    /\ \A w \in Workers : pc[w] \notin {"idle", "missed", "enqueue"}
    /\ \A c \in Callers : pc[c] \notin {"check", "asleep", "exit"}
    /\ \A c \in Callers : pc[c] = "enqueue" => op[c] # "generate"
    /\ \A q \in Procs : pc[q] \notin Resting => job[q] \in Keys
    /\ \A q \in Procs : pc[q] \notin {"temp", "rename"} => attempt[q] = 0

(* A key in flight and the goroutine that leads it name each other.        *)
Leaders ==
    /\ \A q \in Procs : pc[q] \in Leading => inflight[job[q]] = q
    /\ \A k \in Keys : inflight[k] # None =>
           pc[inflight[k]] \in Leading /\ job[inflight[k]] = k

(* Who has been told of an outcome follows nobody, and only who was told, *)
(* or led, has one.                                                        *)
Followers ==
    /\ \A q \in Procs : leader[q] # None => pc[q] = "follow" /\ outcome[q] = "none"
    /\ \A q \in Procs : outcome[q] # "none" => pc[q] \in {"follow", "settle", "answer", "end"}

(* Permits and active workers are counted.                                 *)
Counts ==
    /\ IsFiniteSet(Flyers) /\ held = Cardinality(Flyers)
    /\ active = Cardinality(Busy)

(* A job is queued once.                                                   *)
Once(s) == \A i, j \in 1..Len(s) : s[i] = s[j] => i = j
Distinct ==
    /\ Once(coverQ) /\ Once(pageQ)
    /\ ToSet(coverQ) \cap ToSet(pageQ) = {} /\ IsFiniteSet(queued)

(* What was promised is queued, in flight, or with a worker that has just  *)
(* taken it; Close breaks every promise.                                   *)
Promises ==
    /\ \A k \in owed :
          \/ k \in queued \/ inflight[k] # None
          \/ \E w \in Workers : pc[w] = "enter" /\ job[w] = k
    /\ closed => owed = {} /\ coverQ = <<>> /\ pageQ = <<>>

(* Nobody knows of a version that the index has yet to learn; a picture is *)
(* no older than its key says, and a verdict that was read of the current  *)
(* version is true.                                                        *)
Known(k) == k[1] \in Loose \/ k[2] <= indexed[k[1]]
OfIts(k, p) == k[1] \in Loose \/ p = 0 \/ (k[2] <= p /\ p <= disk[k[1]])
TrueOf(k) == k[1] \in Loose \/ (disk[k[1]] = k[2] => <<k[1], k[2]>> \in Broken)
Versioned ==
    /\ \A s \in Sources : indexed[s] <= disk[s]
    /\ \A q \in Procs : pc[q] \notin Resting => Known(job[q]) /\ OfIts(job[q], picture[q])
    /\ \A q \in Procs : pc[q] \notin {"temp", "rename"} => picture[q] = 0
    /\ \A k \in queued : Known(k)
    /\ \A k \in Keys : OfIts(k, cache[k])
    /\ \A k \in negative : Known(k)
    /\ \A k \in negative \ unread : TrueOf(k)
    /\ \A q \in Procs : pc[q] = "settle" /\ outcome[q] = "undecodable" /\ ~Cancelled(q) =>
           TrueOf(job[q])

IInv ==
    /\ TypeOK /\ Places /\ Leaders /\ Followers /\ Counts
    /\ QueuedIsQueued /\ Distinct /\ Promises /\ NobodySleepsOnWork
    /\ Versioned

-----------------------------------------------------------------------------
\* The inductive invariant holds at the start.
LEMMA InitIInv == Init => IInv
  <1> SUFFICES ASSUME Init PROVE IInv
    OBVIOUS
  <1>0. Cardinality(Workers) \in Nat
    BY ThumbnailsAssumption, FS_CardinalityType
  <1>1. TypeOK
    <2>1. disk \in [Sources -> Versions] /\ indexed \in [Sources -> Versions]
      BY ThumbnailsAssumption DEF Init, Versions
    <2>2. cache \in [Keys -> 0..MaxVersion] /\ strikes \in 0..MaxStrikes
      BY ThumbnailsAssumption DEF Init
    <2>3. pc \in [Procs -> PCs]
      BY DEF Init, PCs
    <2>4. /\ coverQ \in Seq(Keys) /\ pageQ \in Seq(Keys)
          /\ intact \subseteq Procs /\ gone \subseteq Callers
          /\ queued \subseteq Keys /\ owed \subseteq Keys
          /\ negative \subseteq Keys /\ unread \subseteq negative
      BY DEF Init
    <2>5. /\ picture \in [Procs -> 0..MaxVersion] /\ attempt \in [Procs -> 0..Attempts]
          /\ active \in 0..Cardinality(Workers) /\ held \in 0..Permits
      BY <1>0, ThumbnailsAssumption DEF Init
    <2>6. /\ inflight \in [Keys -> Procs \cup {None}] /\ job \in [Procs -> Keys \cup {None}]
          /\ op \in [Callers -> Ops] /\ leader \in [Procs -> Procs \cup {None}]
          /\ outcome \in [Procs -> Outcomes]
      BY DEF Init, Ops, Outcomes, Verdicts
    <2>7. QED
      BY <2>1, <2>2, <2>3, <2>4, <2>5, <2>6 DEF Init, TypeOK
  <1>2. Places /\ Leaders /\ Followers
    BY ThumbnailsAssumption DEF Init, Places, Leaders, Followers, Resting, Leading, Flying, Procs
  <1>3. Flyers = {} /\ Busy = {}
    BY ThumbnailsAssumption DEF Init, Flyers, Busy, Flying, Procs
  <1>4. Counts
    BY <1>3, FS_EmptySet DEF Init, Counts
  <1>5. QueuedIsQueued /\ Distinct /\ Promises
    BY FS_EmptySet, ThumbnailsAssumption
       DEF Init, QueuedIsQueued, Distinct, Once, Promises, ToSet
  <1>6. NobodySleepsOnWork
    BY ThumbnailsAssumption DEF Init, NobodySleepsOnWork, Asleep, Procs
  <1>7. Versioned
    BY ThumbnailsAssumption DEF Init, Versioned, OfIts, Resting, Procs, Keys
  <1>8. QED
    BY <1>1, <1>2, <1>4, <1>5, <1>6, <1>7 DEF IInv
-----------------------------------------------------------------------------
(* A permit comes back from somebody who has one, and the last worker to   *)
(* rest was counted.                                                       *)
LEMMA PermitIsOut ==
  ASSUME IInv, NEW q \in Procs, pc[q] \in Flying
  PROVE  held > 0
  <1>1. q \in Flyers
    BY DEF Flyers
  <1>2. QED
    BY <1>1, FS_EmptySet, FS_CardinalityType DEF IInv, Counts

\* active is above zero while a worker is busy, and below the number of workers
\* while one is not.
LEMMA BusyCount ==
  ASSUME IInv
  PROVE  /\ IsFiniteSet(Busy) /\ Cardinality(Workers) \in Nat
         /\ Busy # {} => active > 0
         /\ Busy # Workers => active < Cardinality(Workers)
  <1>1. IsFiniteSet(Busy) /\ Cardinality(Busy) \in Nat /\ Cardinality(Workers) \in Nat
    BY FS_Subset, FS_CardinalityType, ThumbnailsAssumption DEF Busy
  <1>2. Busy # Workers => Cardinality(Busy) < Cardinality(Workers)
    BY <1>1, FS_Subset, ThumbnailsAssumption DEF Busy
  <1>3. QED
    BY <1>1, <1>2, FS_EmptySet DEF IInv, Counts

\* Every step keeps the types.
LEMMA TypeStep == IInv /\ [Next]_vars => TypeOK'
  <1> SUFFICES ASSUME IInv, [Next]_vars PROVE TypeOK'
    OBVIOUS
  <1> USE ThumbnailsAssumption DEF TypeOK, PCs, Leading, Flying, Outcomes, Verdicts, Remember,
      sources, files, queues, verdicts, flights, life, turn, flight
  <1>0. TypeOK /\ \A q \in Procs : pc[q] \notin {"idle", "check", "asleep", "exit"} => job[q] \in Keys
    BY DEF IInv, Places, Resting
  <1>1. CASE UNCHANGED vars
    BY <1>0, <1>1 DEF vars
  <1>2. ASSUME NEW q \in Procs, FlightStep(q)
        PROVE  TypeOK'
    <2> USE <1>0
    <2>1. CASE FlightClosed(q)
      BY <2>1 DEF FlightClosed, Goto
    <2>2. CASE Follow(q)
      BY <2>2 DEF Follow, Goto
    <2>3. CASE Lead(q)
      BY <2>3 DEF Lead, Goto
    <2>4. CASE Told(q)
      BY <2>4 DEF Told, Goto
    <2>5. CASE GiveUp(q)
      BY <2>5 DEF GiveUp, Goto
    <2>6. CASE TakePermit(q)
      BY <2>6 DEF TakePermit, Goto
    <2>7. CASE NoPermit(q)
      BY <2>7 DEF NoPermit, Goto
    <2>8. CASE ReadFails(q)
      BY <2>8, PermitIsOut DEF ReadFails, ReadErrors, Produced, Goto
    <2>9. CASE Decode(q)
      <3>1. picture' \in [Procs -> 0..MaxVersion] /\ attempt' \in [Procs -> 0..Attempts]
        <4>1. job[q] \in Keys
          BY <2>9 DEF Decode
        <4>2. disk[SourceOf(q)] \in 0..MaxVersion
          BY <4>1 DEF SourceOf, Keys, Versions
        <4>3. attempt[q] = 0
          BY <2>9 DEF Decode, IInv, Places
        <4>4. QED
          BY <2>9, <4>2, <4>3 DEF Decode, MakeDir
      <3>2. QED
        BY <2>9, <3>1 DEF Decode, MakeDir, Goto
    <2>10. CASE MakeTemp(q)
      BY <2>10 DEF MakeTemp, Goto
    <2>11. CASE Rename(q)
      <3>1. cache' \in [Keys -> 0..MaxVersion]
        BY <2>11 DEF Rename
      <3>2. QED
        BY <2>11, <3>1, PermitIsOut DEF Rename, Produced, Goto
    <2>12. CASE TryAgain(q)
      BY <2>12 DEF TryAgain, MakeDir, Vanished, Goto
    <2>13. CASE LastAttempt(q)
      BY <2>13, PermitIsOut DEF LastAttempt, Produced, Vanished, Goto
    <2>14. CASE PublishFails(q)
      BY <2>14, PermitIsOut DEF PublishFails, Produced, Goto
    <2>15. CASE Settle(q)
      <3>1. job[q] \in Keys
        BY <2>15 DEF Settle
      <3>2. negative' \subseteq Keys /\ unread' \subseteq negative'
        BY <2>15, <3>1 DEF Settle
      <3>3. inflight' \in [Keys -> Procs \cup {None}] /\ owed' \subseteq Keys
        BY <2>15, <3>1 DEF Settle
      <3>4. pc' \in [Procs -> PCs]
        BY <2>15 DEF Settle, Goto
      <3>5. UNCHANGED <<sources, files, queues, held, active, life, job, op, flight, gone>>
        BY <2>15 DEF Settle
      <3>6. QED
        BY <3>2, <3>3, <3>4, <3>5
    <2>16. CASE Answer(q)
      BY <2>16 DEF Answer, Goto
    <2>q. QED
      BY <1>2, <2>1, <2>2, <2>3, <2>4, <2>5, <2>6, <2>7, <2>8, <2>9, <2>10, <2>11, <2>12, <2>13, <2>14, <2>15, <2>16 DEF FlightStep
  <1>3. ASSUME NEW c \in Callers, CallerStep(c)
        PROVE  TypeOK'
    <2> USE <1>0 DEF Procs, Ops
    <2>1. CASE KnownBad(c)
      BY <2>1 DEF KnownBad, Forget, Goto
    <2>2. CASE Unknown(c)
      BY <2>2 DEF Unknown, Goto
    <2>3. CASE EnqueueClosed(c)
      BY <2>3 DEF EnqueueClosed, Forget, Goto
    <2>4. CASE EnqueueKnown(c)
      BY <2>4 DEF EnqueueKnown, Forget, Goto
    <2>5. CASE Enqueue(c)
      <3>1. coverQ' \in Seq(Keys) /\ pageQ' \in Seq(Keys) /\ queued' \subseteq Keys /\ owed' \subseteq Keys
        <4>1. job[c] \in Keys
          BY <2>5 DEF Enqueue
        <4>2. Append(coverQ, job[c]) \in Seq(Keys) /\ Append(pageQ, job[c]) \in Seq(Keys)
          BY <4>1
        <4>3. Len(pageQ) >= PageQueueMax => Append(Tail(pageQ), job[c]) \in Seq(Keys)
          BY <4>1
        <4>4. /\ coverQ' \in {coverQ, Append(coverQ, job[c])}
              /\ \/ pageQ' \in {pageQ, Append(pageQ, job[c])}
                 \/ Len(pageQ) >= PageQueueMax /\ pageQ' = Append(Tail(pageQ), job[c])
              /\ queued' \subseteq queued \cup {job[c]} /\ owed' \subseteq owed \cup {job[c]}
          BY <2>5 DEF Enqueue
        <4>5. QED
          BY <4>1, <4>2, <4>3, <4>4
      <3>2. pc' \in [Procs -> PCs]
        <4>1. CASE Goto(c, "idle")
          BY <4>1 DEF Goto
        <4>2. ASSUME NEW w \in Workers, pc' = [pc EXCEPT ![c] = "idle", ![w] = "check"]
              PROVE  pc' \in [Procs -> PCs]
          BY <4>2
        <4>3. QED
          BY <2>5, <4>1, <4>2 DEF Enqueue, Signal, Asleep
      <3>3. QED
        BY <2>5, <3>1, <3>2 DEF Enqueue, Forget
    <2>6. CASE Return(c)
      BY <2>6 DEF Return, Forget, Goto
    <2>q. QED
      BY <1>3, <2>1, <2>2, <2>3, <2>4, <2>5, <2>6 DEF CallerStep
  <1>4. ASSUME NEW w \in Workers, WorkerStep(w)
        PROVE  TypeOK'
    <2> USE <1>0 DEF Procs
    <2>1. CASE Sleep(w)
      BY <2>1 DEF Sleep, Goto
    <2>2. CASE Exit(w)
      BY <2>2 DEF Exit, Goto
    <2>3. CASE Take(w)
      <3>1. active' \in 0..Cardinality(Workers)
        BY <2>3, BusyCount DEF Take, Busy
      <3>2. /\ coverQ' \in Seq(Keys) /\ pageQ' \in Seq(Keys)
            /\ job' \in [Procs -> Keys \cup {None}]
        <4>1. \A s \in Seq(Keys) : s # <<>> => Head(s) \in Keys /\ Tail(s) \in Seq(Keys)
          OBVIOUS
        <4>2. CASE coverQ # <<>>
          <5>1. coverQ' = Tail(coverQ) /\ pageQ' = pageQ /\ job' = [job EXCEPT ![w] = Head(coverQ)]
            BY <2>3, <4>2 DEF Take
          <5>2. QED
            BY <4>1, <4>2, <5>1
        <4>3. CASE coverQ = <<>>
          <5>1. /\ pageQ # <<>> /\ pageQ' = Tail(pageQ) /\ coverQ' = coverQ
                /\ job' = [job EXCEPT ![w] = Head(pageQ)]
            BY <2>3, <4>3 DEF Take
          <5>2. QED
            BY <4>1, <5>1
        <4>4. QED
          BY <4>2, <4>3
      <3>3. QED
        BY <2>3, <3>1, <3>2 DEF Take, Goto
    <2>4. CASE Rest(w)
      <3>1. active' \in 0..Cardinality(Workers)
        <4>1. w \in Busy
          BY <2>4 DEF Rest, Busy
        <4>2. QED
          BY <2>4, <4>1, BusyCount DEF Rest
      <3>2. pc' \in [Procs -> PCs]
        BY <2>4 DEF Rest, Broadcast
      <3>3. QED
        BY <2>4, <3>1, <3>2 DEF Rest
    <2>q. QED
      BY <1>4, <2>1, <2>2, <2>3, <2>4 DEF WorkerStep
  <1>5. CASE CloseStep \/ Surroundings
    <2> USE <1>0 DEF Versions
    <2>1. CASE CloseStop \/ CloseReturn \/ CtxEnds \/ ForgetNegatives
      BY <2>1 DEF CloseStop, CloseReturn, CtxEnds, ForgetNegatives
    <2>2. CASE CloseMark
      BY <2>2 DEF CloseMark, Broadcast
    <2>3. ASSUME NEW s \in Sources, Replace(s)
          PROVE  TypeOK'
      BY <2>3, SMTT(20) DEF Replace
    <2>4. ASSUME NEW s \in Sources, Rescan(s)
          PROVE  TypeOK'
      BY <2>4 DEF Rescan
    <2>5. ASSUME NEW k \in Keys, Strike(k) \/ Expire(k)
          PROVE  TypeOK'
      <3>1. CASE Strike(k)
        BY <3>1 DEF Strike
      <3>2. CASE Expire(k)
        BY <3>2 DEF Expire
      <3>3. QED
        BY <2>5, <3>1, <3>2
    <2>6. ASSUME NEW c \in Callers, Miss(c)
          PROVE  TypeOK'
      <3>1. PICK s \in Sources, o \in Ops :
              job' = [job EXCEPT ![c] = KeyOf(s)] /\ op' = [op EXCEPT ![c] = o]
        BY <2>6 DEF Miss
      <3>2. KeyOf(s) \in Keys
        BY DEF KeyOf, Keys
      <3>3. pc' \in [Procs -> PCs]
        BY <2>6 DEF Miss, Goto, Procs
      <3>4. QED
        BY <2>6, <3>1, <3>2, <3>3 DEF Miss, Procs
    <2>7. ASSUME NEW c \in Callers, Abandon(c)
          PROVE  TypeOK'
      BY <2>7 DEF Abandon
    <2>8. QED
      BY <1>5, <2>1, <2>2, <2>3, <2>4, <2>5, <2>6, <2>7 DEF CloseStep, Surroundings
  <1>6. QED
    BY <1>1, <1>2, <1>3, <1>4, <1>5 DEF Next, Step
(* A worker takes the head of a queue.                                     *)
LEMMA TakenJob ==
  ASSUME TypeOK, NEW w \in Workers, Take(w)
  PROVE  \E k \in Keys :
           /\ job' = [job EXCEPT ![w] = k] /\ queued' = queued \ {k}
           /\ \/ coverQ # <<>> /\ k = coverQ[1] /\ coverQ' = Tail(coverQ) /\ pageQ' = pageQ
              \/ pageQ # <<>> /\ k = pageQ[1] /\ pageQ' = Tail(pageQ) /\ coverQ' = coverQ
  <1> USE DEF Procs
  <1>1. job \in [Procs -> Keys \cup {None}]
    BY DEF TypeOK
  <1>2. \A s \in Seq(Keys) : s # <<>> => Head(s) = s[1] /\ s[1] \in Keys
    OBVIOUS
  <1>3. CASE coverQ # <<>>
    <2>1. /\ coverQ' = Tail(coverQ) /\ pageQ' = pageQ /\ job' = [job EXCEPT ![w] = Head(coverQ)]
          /\ queued' = queued \ {job'[w]}
      BY <1>3 DEF Take
    <2>2. job'[w] = Head(coverQ)
      BY <1>1, <2>1
    <2>3. QED
      BY <1>2, <1>3, <2>1, <2>2 DEF TypeOK
  <1>4. CASE coverQ = <<>>
    <2>1. /\ pageQ # <<>> /\ pageQ' = Tail(pageQ) /\ coverQ' = coverQ
          /\ job' = [job EXCEPT ![w] = Head(pageQ)] /\ queued' = queued \ {job'[w]}
      BY <1>4 DEF Take
    <2>2. job'[w] = Head(pageQ)
      BY <1>1, <2>1
    <2>3. QED
      BY <1>2, <2>1, <2>2 DEF TypeOK
  <1>5. QED
    BY <1>3, <1>4

(* A request is for the key of a source.                                   *)
LEMMA MissedKey ==
  ASSUME TypeOK, NEW c \in Callers, Miss(c)
  PROVE  \E s \in Sources :
           /\ KeyOf(s) \in Keys /\ job' = [job EXCEPT ![c] = KeyOf(s)]
           /\ \E o \in Ops : op' = [op EXCEPT ![c] = o]
  <1>1. \A s \in Sources : KeyOf(s) \in Keys
    BY ThumbnailsAssumption DEF KeyOf, Keys, TypeOK, Versions
  <1>2. QED
    BY <1>1 DEF Miss

(* Close wakes whoever sleeps, and moves nobody else.                      *)
LEMMA Awakening ==
  ASSUME CloseMark
  PROVE  pc' = [q \in Procs |-> IF q \in Asleep THEN "check" ELSE pc[q]]
  BY ThumbnailsAssumption DEF CloseMark, Broadcast, Procs

(* Who goes somewhere has the job for it. *)
LEMMA PlacesStep == IInv /\ [Next]_vars => Places'
  <1> SUFFICES ASSUME IInv, [Next]_vars PROVE Places'
    OBVIOUS
  <1> USE DEF Places, Resting, Procs, sources, files, queues, verdicts, flights, life, turn, flight
  <1>0. /\ TypeOK /\ Places /\ Workers \cap Callers = {}
        /\ pc \in [Procs -> PCs] /\ job \in [Procs -> Keys \cup {None}]
        /\ op \in [Callers -> Ops] /\ attempt \in [Procs -> 0..Attempts] /\ job' \in [Procs -> Keys \cup {None}]
    BY TypeStep, ThumbnailsAssumption DEF IInv, TypeOK
  <1>1. CASE UNCHANGED vars
    BY <1>0, <1>1 DEF vars
  <1>2. ASSUME NEW q \in Procs, FlightStep(q)
        PROVE  Places'
    <2>1. CASE FlightClosed(q)
      BY <2>1, <1>0 DEF FlightClosed, Goto
    <2>2. CASE Follow(q)
      BY <2>2, <1>0 DEF Follow, Goto
    <2>3. CASE Lead(q)
      BY <2>3, <1>0 DEF Lead, Goto
    <2>4. CASE Told(q)
      BY <2>4, <1>0 DEF Told, Goto
    <2>5. CASE GiveUp(q)
      BY <2>5, <1>0 DEF GiveUp, Goto
    <2>6. CASE TakePermit(q)
      BY <2>6, <1>0 DEF TakePermit, Goto
    <2>7. CASE NoPermit(q)
      BY <2>7, <1>0 DEF NoPermit, Goto
    <2>8. CASE ReadFails(q)
      BY <2>8, <1>0 DEF ReadFails, Produced, Goto
    <2>9. CASE Decode(q)
      BY <2>9, <1>0 DEF Decode, MakeDir, Goto
    <2>10. CASE MakeTemp(q)
      BY <2>10, <1>0 DEF MakeTemp, Goto
    <2>11. CASE Rename(q)
      BY <2>11, <1>0 DEF Rename, Produced, Goto
    <2>12. CASE TryAgain(q)
      BY <2>12, <1>0 DEF TryAgain, MakeDir, Vanished, Goto
    <2>13. CASE LastAttempt(q)
      BY <2>13, <1>0 DEF LastAttempt, Produced, Vanished, Goto
    <2>14. CASE PublishFails(q)
      BY <2>14, <1>0 DEF PublishFails, Produced, Goto
    <2>15. CASE Settle(q)
      BY <2>15, <1>0 DEF Settle, Goto
    <2>16. CASE Answer(q)
      BY <2>16, <1>0 DEF Answer, Goto
    <2>q. QED
      BY <1>2, <2>1, <2>2, <2>3, <2>4, <2>5, <2>6, <2>7, <2>8, <2>9, <2>10, <2>11, <2>12, <2>13, <2>14, <2>15, <2>16 DEF FlightStep
  <1>3. ASSUME NEW c \in Callers, CallerStep(c)
        PROVE  Places'
    <2>1. CASE KnownBad(c)
      BY <2>1, <1>0 DEF KnownBad, Forget, Goto
    <2>2. CASE Unknown(c)
      BY <2>2, <1>0 DEF Unknown, Goto
    <2>3. CASE EnqueueClosed(c)
      BY <2>3, <1>0 DEF EnqueueClosed, Forget, Goto
    <2>4. CASE EnqueueKnown(c)
      BY <2>4, <1>0 DEF EnqueueKnown, Forget, Goto
    <2>5. CASE Enqueue(c)
      BY <2>5, <1>0 DEF Enqueue, Signal, Asleep, Forget, Goto
    <2>6. CASE Return(c)
      BY <2>6, <1>0 DEF Return, Forget, Goto
    <2>q. QED
      BY <1>3, <2>1, <2>2, <2>3, <2>4, <2>5, <2>6 DEF CallerStep
  <1>4. ASSUME NEW w \in Workers, WorkerStep(w)
        PROVE  Places'
    <2>1. CASE Sleep(w)
      BY <2>1, <1>0 DEF Sleep, Goto
    <2>2. CASE Exit(w)
      BY <2>2, <1>0 DEF Exit, Goto
    <2>3. CASE Take(w)
      <3>1. PICK k \in Keys : job' = [job EXCEPT ![w] = k]
        BY <2>3, <1>0, TakenJob
      <3>2. QED
        BY <2>3, <3>1, <1>0 DEF Take, Goto
    <2>4. CASE Rest(w)
      BY <2>4, <1>0 DEF Rest, Broadcast, Asleep, Goto
    <2>q. QED
      BY <1>4, <2>1, <2>2, <2>3, <2>4 DEF WorkerStep
  <1>5. CASE CloseStep \/ Surroundings
    <2>1. CASE CloseStop \/ CloseReturn \/ CtxEnds \/ ForgetNegatives
      BY <2>1, <1>0 DEF CloseStop, CloseReturn, CtxEnds, ForgetNegatives
    <2>2. CASE CloseMark
      BY <2>2, <1>0, Awakening DEF CloseMark, Asleep
    <2>3. ASSUME NEW s \in Sources, Replace(s) \/ Rescan(s)
          PROVE  Places'
      BY <2>3, <1>0 DEF Replace, Rescan
    <2>4. ASSUME NEW k \in Keys, Strike(k) \/ Expire(k)
          PROVE  Places'
      BY <2>4, <1>0 DEF Strike, Expire
    <2>5. ASSUME NEW c \in Callers, Miss(c)
          PROVE  Places'
      <3>1. PICK s \in Sources : KeyOf(s) \in Keys /\ job' = [job EXCEPT ![c] = KeyOf(s)]
        BY <2>5, <1>0, MissedKey
      <3>2. QED
        BY <2>5, <3>1, <1>0 DEF Miss, Goto
    <2>6. ASSUME NEW c \in Callers, Abandon(c)
          PROVE  Places'
      BY <2>6, <1>0 DEF Abandon
    <2>q. QED
      BY <1>5, <2>1, <2>2, <2>3, <2>4, <2>5, <2>6 DEF CloseStep, Surroundings
  <1>q. QED
    BY <1>1, <1>2, <1>3, <1>4, <1>5 DEF Next, Step

(* A flight takes off when there is none for its key, and lands with its leader. *)
LEMMA LeadersStep == IInv /\ [Next]_vars => Leaders'
  <1> SUFFICES ASSUME IInv, [Next]_vars PROVE Leaders'
    OBVIOUS
  <1> USE DEF Leaders, Places, Resting, Leading, Flying, Procs, sources, files, queues, verdicts, flights, life, turn, flight
  <1>0. /\ TypeOK /\ Places /\ Leaders /\ None \notin Procs
        /\ pc \in [Procs -> PCs] /\ job \in [Procs -> Keys \cup {None}]
        /\ inflight \in [Keys -> Procs \cup {None}]
    BY ThumbnailsAssumption DEF IInv, TypeOK
  <1>1. CASE UNCHANGED vars
    BY <1>0, <1>1 DEF vars
  <1>2. ASSUME NEW q \in Procs, FlightStep(q)
        PROVE  Leaders'
    <2>1. CASE FlightClosed(q)
      BY <2>1, <1>0 DEF FlightClosed, Goto
    <2>2. CASE Follow(q)
      BY <2>2, <1>0 DEF Follow, Goto
    <2>3. CASE Lead(q)
      BY <2>3, <1>0 DEF Lead, Goto
    <2>4. CASE Told(q)
      BY <2>4, <1>0 DEF Told, Goto
    <2>5. CASE GiveUp(q)
      BY <2>5, <1>0 DEF GiveUp, Goto
    <2>6. CASE TakePermit(q)
      BY <2>6, <1>0 DEF TakePermit, Goto
    <2>7. CASE NoPermit(q)
      BY <2>7, <1>0 DEF NoPermit, Goto
    <2>8. CASE ReadFails(q)
      BY <2>8, <1>0 DEF ReadFails, Produced, Goto
    <2>9. CASE Decode(q)
      BY <2>9, <1>0 DEF Decode, MakeDir, Goto
    <2>10. CASE MakeTemp(q)
      BY <2>10, <1>0 DEF MakeTemp, Goto
    <2>11. CASE Rename(q)
      BY <2>11, <1>0 DEF Rename, Produced, Goto
    <2>12. CASE TryAgain(q)
      BY <2>12, <1>0 DEF TryAgain, MakeDir, Vanished, Goto
    <2>13. CASE LastAttempt(q)
      BY <2>13, <1>0 DEF LastAttempt, Produced, Vanished, Goto
    <2>14. CASE PublishFails(q)
      BY <2>14, <1>0 DEF PublishFails, Produced, Goto
    <2>15. CASE Settle(q)
      BY <2>15, <1>0 DEF Settle, Goto
    <2>16. CASE Answer(q)
      BY <2>16, <1>0 DEF Answer, Goto
    <2>q. QED
      BY <1>2, <2>1, <2>2, <2>3, <2>4, <2>5, <2>6, <2>7, <2>8, <2>9, <2>10, <2>11, <2>12, <2>13, <2>14, <2>15, <2>16 DEF FlightStep
  <1>3. ASSUME NEW c \in Callers, CallerStep(c)
        PROVE  Leaders'
    <2>1. CASE KnownBad(c)
      BY <2>1, <1>0 DEF KnownBad, Forget, Goto
    <2>2. CASE Unknown(c)
      BY <2>2, <1>0 DEF Unknown, Goto
    <2>3. CASE EnqueueClosed(c)
      BY <2>3, <1>0 DEF EnqueueClosed, Forget, Goto
    <2>4. CASE EnqueueKnown(c)
      BY <2>4, <1>0 DEF EnqueueKnown, Forget, Goto
    <2>5. CASE Enqueue(c)
      BY <2>5, <1>0 DEF Enqueue, Signal, Asleep, Forget, Goto
    <2>6. CASE Return(c)
      BY <2>6, <1>0 DEF Return, Forget, Goto
    <2>q. QED
      BY <1>3, <2>1, <2>2, <2>3, <2>4, <2>5, <2>6 DEF CallerStep
  <1>4. ASSUME NEW w \in Workers, WorkerStep(w)
        PROVE  Leaders'
    <2>1. CASE Sleep(w)
      BY <2>1, <1>0 DEF Sleep, Goto
    <2>2. CASE Exit(w)
      BY <2>2, <1>0 DEF Exit, Goto
    <2>3. CASE Take(w)
      <3>1. PICK k \in Keys : job' = [job EXCEPT ![w] = k]
        BY <2>3, <1>0, TakenJob
      <3>2. QED
        BY <2>3, <3>1, <1>0 DEF Take, Goto
    <2>4. CASE Rest(w)
      BY <2>4, <1>0 DEF Rest, Broadcast, Asleep, Goto
    <2>q. QED
      BY <1>4, <2>1, <2>2, <2>3, <2>4 DEF WorkerStep
  <1>5. CASE CloseStep \/ Surroundings
    <2>1. CASE CloseStop \/ CloseReturn \/ CtxEnds \/ ForgetNegatives
      BY <2>1, <1>0 DEF CloseStop, CloseReturn, CtxEnds, ForgetNegatives
    <2>2. CASE CloseMark
      BY <2>2, <1>0, Awakening DEF CloseMark, Asleep
    <2>3. ASSUME NEW s \in Sources, Replace(s) \/ Rescan(s)
          PROVE  Leaders'
      BY <2>3, <1>0 DEF Replace, Rescan
    <2>4. ASSUME NEW k \in Keys, Strike(k) \/ Expire(k)
          PROVE  Leaders'
      BY <2>4, <1>0 DEF Strike, Expire
    <2>5. ASSUME NEW c \in Callers, Miss(c)
          PROVE  Leaders'
      <3>1. PICK s \in Sources : KeyOf(s) \in Keys /\ job' = [job EXCEPT ![c] = KeyOf(s)]
        BY <2>5, <1>0, MissedKey
      <3>2. QED
        BY <2>5, <3>1, <1>0 DEF Miss, Goto
    <2>6. ASSUME NEW c \in Callers, Abandon(c)
          PROVE  Leaders'
      BY <2>6, <1>0 DEF Abandon
    <2>q. QED
      BY <1>5, <2>1, <2>2, <2>3, <2>4, <2>5, <2>6 DEF CloseStep, Surroundings
  <1>q. QED
    BY <1>1, <1>2, <1>3, <1>4, <1>5 DEF Next, Step

(* A permit is counted from TakePermit to Produced, a worker from Take to Rest. *)
LEMMA CountsStep == IInv /\ [Next]_vars => Counts'
  <1> SUFFICES ASSUME IInv, [Next]_vars PROVE Counts'
    OBVIOUS
  <1> USE DEF Counts, Flyers, Busy, Places, Flying, Procs, sources, files, queues, verdicts, flights, life, turn, flight
  <1>0. /\ Counts /\ Places /\ pc \in [Procs -> PCs] /\ Workers \cap Callers = {}
    BY ThumbnailsAssumption DEF IInv, TypeOK
  <1>1. CASE UNCHANGED vars
    BY <1>0, <1>1 DEF vars
  <1>2. ASSUME NEW q \in Procs, FlightStep(q)
        PROVE  Counts'
    <2>1. CASE FlightClosed(q)
      BY <2>1, <1>0 DEF FlightClosed, Goto
    <2>2. CASE Follow(q)
      BY <2>2, <1>0 DEF Follow, Goto
    <2>3. CASE Lead(q)
      BY <2>3, <1>0 DEF Lead, Goto
    <2>4. CASE Told(q)
      BY <2>4, <1>0 DEF Told, Goto
    <2>5. CASE GiveUp(q)
      BY <2>5, <1>0 DEF GiveUp, Goto
    <2>6. CASE TakePermit(q)
      <3>1. q \notin Flyers /\ Flyers' = Flyers \cup {q} /\ Busy' = Busy
        BY <2>6, <1>0 DEF TakePermit, Goto
      <3>2. held' = held + 1 /\ active' = active
        BY <2>6 DEF TakePermit
      <3> HIDE DEF Flyers, Busy
      <3>3. QED
        BY <3>1, <3>2, <1>0, FS_AddElement
    <2>7. CASE NoPermit(q)
      BY <2>7, <1>0 DEF NoPermit, Goto
    <2>8. CASE ReadFails(q)
      <3>1. q \in Flyers /\ Flyers' = Flyers \ {q} /\ Busy' = Busy
        BY <2>8, <1>0 DEF ReadFails, Produced, Goto
      <3>2. held' = held - 1 /\ active' = active
        BY <2>8 DEF ReadFails, Produced
      <3> HIDE DEF Flyers, Busy
      <3>3. QED
        BY <3>1, <3>2, <1>0, FS_RemoveElement
    <2>9. CASE Decode(q)
      BY <2>9, <1>0 DEF Decode, MakeDir, Goto
    <2>10. CASE MakeTemp(q)
      BY <2>10, <1>0 DEF MakeTemp, Goto
    <2>11. CASE Rename(q)
      <3>1. q \in Flyers /\ Flyers' = Flyers \ {q} /\ Busy' = Busy
        BY <2>11, <1>0 DEF Rename, Produced, Goto
      <3>2. held' = held - 1 /\ active' = active
        BY <2>11 DEF Rename, Produced
      <3> HIDE DEF Flyers, Busy
      <3>3. QED
        BY <3>1, <3>2, <1>0, FS_RemoveElement
    <2>12. CASE TryAgain(q)
      BY <2>12, <1>0 DEF TryAgain, MakeDir, Vanished, Goto
    <2>13. CASE LastAttempt(q)
      <3>1. q \in Flyers /\ Flyers' = Flyers \ {q} /\ Busy' = Busy
        BY <2>13, <1>0 DEF LastAttempt, Produced, Vanished, Goto
      <3>2. held' = held - 1 /\ active' = active
        BY <2>13 DEF LastAttempt, Produced, Vanished
      <3> HIDE DEF Flyers, Busy
      <3>3. QED
        BY <3>1, <3>2, <1>0, FS_RemoveElement
    <2>14. CASE PublishFails(q)
      <3>1. q \in Flyers /\ Flyers' = Flyers \ {q} /\ Busy' = Busy
        BY <2>14, <1>0 DEF PublishFails, Produced, Goto
      <3>2. held' = held - 1 /\ active' = active
        BY <2>14 DEF PublishFails, Produced
      <3> HIDE DEF Flyers, Busy
      <3>3. QED
        BY <3>1, <3>2, <1>0, FS_RemoveElement
    <2>15. CASE Settle(q)
      BY <2>15, <1>0 DEF Settle, Goto
    <2>16. CASE Answer(q)
      BY <2>16, <1>0 DEF Answer, Goto
    <2>q. QED
      BY <1>2, <2>1, <2>2, <2>3, <2>4, <2>5, <2>6, <2>7, <2>8, <2>9, <2>10, <2>11, <2>12, <2>13, <2>14, <2>15, <2>16 DEF FlightStep
  <1>3. ASSUME NEW c \in Callers, CallerStep(c)
        PROVE  Counts'
    <2>1. CASE KnownBad(c)
      BY <2>1, <1>0 DEF KnownBad, Forget, Goto
    <2>2. CASE Unknown(c)
      BY <2>2, <1>0 DEF Unknown, Goto
    <2>3. CASE EnqueueClosed(c)
      BY <2>3, <1>0 DEF EnqueueClosed, Forget, Goto
    <2>4. CASE EnqueueKnown(c)
      BY <2>4, <1>0 DEF EnqueueKnown, Forget, Goto
    <2>5. CASE Enqueue(c)
      BY <2>5, <1>0 DEF Enqueue, Signal, Asleep, Forget, Goto
    <2>6. CASE Return(c)
      BY <2>6, <1>0 DEF Return, Forget, Goto
    <2>q. QED
      BY <1>3, <2>1, <2>2, <2>3, <2>4, <2>5, <2>6 DEF CallerStep
  <1>4. ASSUME NEW w \in Workers, WorkerStep(w)
        PROVE  Counts'
    <2>1. CASE Sleep(w)
      BY <2>1, <1>0 DEF Sleep, Goto
    <2>2. CASE Exit(w)
      BY <2>2, <1>0 DEF Exit, Goto
    <2>3. CASE Take(w)
      <3>1. w \notin Busy /\ Busy' = Busy \cup {w} /\ Flyers' = Flyers
        BY <2>3, <1>0 DEF Take, Goto
      <3>2. QED
        BY <2>3, <3>1, <1>0, BusyCount, FS_AddElement DEF Take
    <2>4. CASE Rest(w)
      <3>1. w \in Busy /\ Busy' = Busy \ {w} /\ Flyers' = Flyers
        BY <2>4, <1>0 DEF Rest, Broadcast, Asleep
      <3>2. active' = active - 1 /\ held' = held
        BY <2>4 DEF Rest
      <3> HIDE DEF Flyers, Busy
      <3>3. QED
        BY <3>1, <3>2, <1>0, BusyCount, FS_RemoveElement
    <2>q. QED
      BY <1>4, <2>1, <2>2, <2>3, <2>4 DEF WorkerStep
  <1>5. CASE CloseStep \/ Surroundings
    <2>1. CASE CloseStop \/ CloseReturn \/ CtxEnds \/ ForgetNegatives
      BY <2>1, <1>0 DEF CloseStop, CloseReturn, CtxEnds, ForgetNegatives
    <2>2. CASE CloseMark
      BY <2>2, <1>0, Awakening DEF CloseMark, Asleep
    <2>3. ASSUME NEW s \in Sources, Replace(s) \/ Rescan(s)
          PROVE  Counts'
      BY <2>3, <1>0 DEF Replace, Rescan
    <2>4. ASSUME NEW k \in Keys, Strike(k) \/ Expire(k)
          PROVE  Counts'
      BY <2>4, <1>0 DEF Strike, Expire
    <2>5. ASSUME NEW c \in Callers, Miss(c)
          PROVE  Counts'
      BY <2>5, <1>0 DEF Miss, Goto, KeyOf
    <2>6. ASSUME NEW c \in Callers, Abandon(c)
          PROVE  Counts'
      BY <2>6, <1>0 DEF Abandon
    <2>q. QED
      BY <1>5, <2>1, <2>2, <2>3, <2>4, <2>5, <2>6 DEF CloseStep, Surroundings
  <1>q. QED
    BY <1>1, <1>2, <1>3, <1>4, <1>5 DEF Next, Step

-----------------------------------------------------------------------------
(* A sequence without duplicates, one longer and one shorter.              *)
LEMMA AppendOnce ==
  ASSUME NEW S, NEW s \in Seq(S), Once(s), NEW k \in S, k \notin ToSet(s)
  PROVE  /\ Append(s, k) \in Seq(S) /\ Once(Append(s, k))
         /\ ToSet(Append(s, k)) = ToSet(s) \cup {k} /\ Len(Append(s, k)) = Len(s) + 1
  <1>1. /\ Append(s, k) \in Seq(S) /\ Len(Append(s, k)) = Len(s) + 1 /\ Len(s) \in Nat
        /\ \A i \in 1..Len(s) : Append(s, k)[i] = s[i]
        /\ Append(s, k)[Len(s) + 1] = k
    OBVIOUS
  <1>2. 1..(Len(s) + 1) = 1..Len(s) \cup {Len(s) + 1}
    BY <1>1
  <1>3. ToSet(Append(s, k)) = ToSet(s) \cup {k}
    BY <1>1, <1>2 DEF ToSet
  <1>4. \A i \in 1..Len(s) : s[i] # k
    BY DEF ToSet
  <1>5. Once(Append(s, k))
    BY <1>1, <1>2, <1>4 DEF Once
  <1>6. QED
    BY <1>1, <1>3, <1>5

\* Taking the head off a queue without duplicates takes it out of the queue's
\* set.
LEMMA TailOnce ==
  ASSUME NEW S, NEW s \in Seq(S), Once(s), s # <<>>
  PROVE  /\ Tail(s) \in Seq(S) /\ Once(Tail(s)) /\ s[1] \in ToSet(s)
         /\ ToSet(Tail(s)) = ToSet(s) \ {s[1]} /\ Len(Tail(s)) = Len(s) - 1
  <1>1. /\ Tail(s) \in Seq(S) /\ Len(s) \in Nat \ {0} /\ Len(Tail(s)) = Len(s) - 1
        /\ \A i \in 1..(Len(s) - 1) : Tail(s)[i] = s[i + 1]
    OBVIOUS
  <1>2. \A i \in 2..Len(s) : s[i] # s[1] /\ i - 1 \in 1..(Len(s) - 1) /\ s[i] = Tail(s)[i - 1]
    BY <1>1 DEF Once
  <1>3. Once(Tail(s))
    BY <1>1 DEF Once
  <1>4. DOMAIN s = 1..Len(s) /\ DOMAIN Tail(s) = 1..(Len(s) - 1)
    BY <1>1
  <1>5. ToSet(Tail(s)) \subseteq ToSet(s) \ {s[1]}
    <2> SUFFICES ASSUME NEW i \in 1..(Len(s) - 1)
                 PROVE  Tail(s)[i] \in ToSet(s) /\ Tail(s)[i] # s[1]
      BY <1>4 DEF ToSet
    <2>1. i + 1 \in 2..Len(s) /\ Tail(s)[i] = s[i + 1]
      BY <1>1
    <2>2. QED
      BY <2>1, <1>2, <1>4 DEF ToSet
  <1>6. ToSet(s) \ {s[1]} \subseteq ToSet(Tail(s))
    <2> SUFFICES ASSUME NEW i \in 1..Len(s), s[i] # s[1] PROVE s[i] \in ToSet(Tail(s))
      BY <1>4 DEF ToSet
    <2>1. i \in 2..Len(s)
      BY <1>1
    <2>2. QED
      BY <2>1, <1>2, <1>4 DEF ToSet
  <1>7. s[1] \in ToSet(s)
    BY <1>1, <1>4 DEF ToSet
  <1>8. QED
    BY <1>1, <1>3, <1>5, <1>6, <1>7

(* Only a request, a worker and Close touch the queues.                    *)
LEMMA QueuesMove ==
  ASSUME [Next]_vars
  PROVE  \/ UNCHANGED queues \/ CloseMark
         \/ \E c \in Callers : Enqueue(c)
         \/ \E w \in Workers : Take(w)
  <1> USE DEF queues
  <1>1. CASE UNCHANGED vars
    BY <1>1 DEF vars
  <1>2. ASSUME NEW q \in Procs, FlightStep(q)
        PROVE  UNCHANGED queues
    BY <1>2 DEF FlightStep, FlightClosed, Follow, Lead, Told, GiveUp, TakePermit, NoPermit,
                ReadFails, Decode, MakeTemp, Rename, TryAgain, LastAttempt, PublishFails,
                Settle, Answer
  <1>3. ASSUME NEW c \in Callers, CallerStep(c)
        PROVE  UNCHANGED queues \/ Enqueue(c)
    BY <1>3 DEF CallerStep, KnownBad, Unknown, EnqueueClosed, EnqueueKnown, Return
  <1>4. ASSUME NEW w \in Workers, WorkerStep(w)
        PROVE  UNCHANGED queues \/ Take(w)
    BY <1>4 DEF WorkerStep, Sleep, Exit, Rest
  <1>5. CASE CloseStep \/ Surroundings
    BY <1>5 DEF CloseStep, CloseStop, CloseReturn, Surroundings, CtxEnds, ForgetNegatives,
                Replace, Rescan, Strike, Expire, Miss, Abandon
  <1>6. QED
    BY <1>1, <1>2, <1>3, <1>4, <1>5 DEF Next, Step

(* What a request does to the queues, with or without a job to drop.       *)
LEMMA Enqueued ==
  ASSUME IInv, NEW c \in Callers, Enqueue(c)
  PROVE  /\ job[c] \in Keys /\ job[c] \notin queued
         /\ \/ /\ coverQ' = Append(coverQ, job[c]) /\ pageQ' = pageQ
               /\ queued' = queued \cup {job[c]} /\ owed' = owed \cup {job[c]}
            \/ /\ pageQ' = Append(pageQ, job[c]) /\ coverQ' = coverQ /\ Len(pageQ) < PageQueueMax
               /\ queued' = queued \cup {job[c]} /\ owed' = owed \cup {job[c]}
            \/ /\ pageQ # <<>> /\ coverQ' = coverQ
               /\ pageQ' = Append(Tail(pageQ), job[c])
               /\ queued' = (queued \ {pageQ[1]}) \cup {job[c]}
               /\ owed' = (owed \ {pageQ[1]}) \cup {job[c]}
  <1>1. job[c] \in Keys /\ op[c] \in {"get", "cover"}
    BY DEF Enqueue, IInv, Places, Resting, TypeOK, Procs, Ops
  <1>2. pageQ \in Seq(Keys) /\ PageQueueMax \in Nat \ {0}
    BY ThumbnailsAssumption DEF IInv, TypeOK
  <1>3. CASE op[c] = "cover"
    BY <1>1, <1>3 DEF Enqueue
  <1>4. CASE op[c] = "get" /\ Len(pageQ) < PageQueueMax
    BY <1>1, <1>2, <1>4 DEF Enqueue
  <1>5. CASE op[c] = "get" /\ Len(pageQ) >= PageQueueMax
    <2>1. pageQ # <<>> /\ Head(pageQ) = pageQ[1]
      BY <1>2, <1>5
    <2>2. /\ coverQ' = coverQ /\ pageQ' = Append(Tail(pageQ), job[c])
          /\ queued' = (queued \ {Head(pageQ)}) \cup {job[c]}
          /\ owed' = (owed \ {Head(pageQ)}) \cup {job[c]}
      BY <1>5 DEF Enqueue
    <2>3. QED
      BY <1>1, <2>1, <2>2 DEF Enqueue
  <1>6. QED
    BY <1>1, <1>2, <1>3, <1>4, <1>5

\* Every step keeps the set of queued keys and the two queues in agreement.
LEMMA QueuesStep == IInv /\ [Next]_vars => QueuedIsQueued' /\ Distinct'
  <1> SUFFICES ASSUME IInv, [Next]_vars PROVE QueuedIsQueued' /\ Distinct'
    OBVIOUS
  <1>0. /\ coverQ \in Seq(Keys) /\ pageQ \in Seq(Keys) /\ QueuedIsQueued /\ Distinct
        /\ Len(coverQ) \in Nat /\ Len(pageQ) \in Nat /\ PageQueueMax \in Nat
    BY ThumbnailsAssumption DEF IInv, TypeOK
  <1> USE <1>0 DEF QueuedIsQueued, Distinct
  <1>1. CASE UNCHANGED queues
    BY <1>1 DEF queues
  <1>2. CASE CloseMark
    BY <1>2, FS_EmptySet DEF CloseMark, ToSet, Once
  <1>3. ASSUME NEW c \in Callers, Enqueue(c)
        PROVE  QueuedIsQueued' /\ Distinct'
    <2> DEFINE k == job[c]
    <2>0. k \in Keys /\ k \notin queued
      BY <1>3, Enqueued
    <2>1. CASE /\ coverQ' = Append(coverQ, k) /\ pageQ' = pageQ /\ queued' = queued \cup {k}
      <3>1. Cardinality(queued \cup {k}) = Cardinality(queued) + 1 /\ IsFiniteSet(queued \cup {k})
        BY <2>0, FS_AddElement
      <3>2. QED
        BY <2>0, <2>1, <3>1, AppendOnce
    <2>2. CASE /\ pageQ' = Append(pageQ, k) /\ coverQ' = coverQ /\ Len(pageQ) < PageQueueMax
               /\ queued' = queued \cup {k}
      <3>1. Cardinality(queued \cup {k}) = Cardinality(queued) + 1 /\ IsFiniteSet(queued \cup {k})
        BY <2>0, FS_AddElement
      <3>2. QED
        BY <2>0, <2>2, <3>1, AppendOnce
    <2>3. CASE /\ pageQ # <<>> /\ coverQ' = coverQ /\ pageQ' = Append(Tail(pageQ), k)
               /\ queued' = (queued \ {pageQ[1]}) \cup {k}
      <3>1. /\ Tail(pageQ) \in Seq(Keys) /\ Once(Tail(pageQ)) /\ pageQ[1] \in ToSet(pageQ)
            /\ ToSet(Tail(pageQ)) = ToSet(pageQ) \ {pageQ[1]} /\ Len(Tail(pageQ)) = Len(pageQ) - 1
        BY <2>3, TailOnce
      <3>2. /\ Once(pageQ') /\ ToSet(pageQ') = ToSet(Tail(pageQ)) \cup {k} /\ Len(pageQ') = Len(pageQ)
        <4> DEFINE t == Tail(pageQ)
        <4>1. k \in Keys /\ k \notin ToSet(t) /\ t \in Seq(Keys) /\ Once(t) /\ Len(t) + 1 = Len(pageQ)
          BY <2>0, <3>1
        <4>2. pageQ' = Append(t, k)
          BY <2>3
        <4> HIDE DEF k, t
        <4>3. Once(Append(t, k)) /\ ToSet(Append(t, k)) = ToSet(t) \cup {k} /\ Len(Append(t, k)) = Len(t) + 1
          BY <4>1, AppendOnce
        <4>4. Once(pageQ') /\ ToSet(pageQ') = ToSet(t) \cup {k} /\ Len(pageQ') = Len(pageQ)
          BY <4>1, <4>2, <4>3
        <4>5. QED
          BY <4>4 DEF t
      <3>3. IsFiniteSet(queued \ {pageQ[1]}) /\ Cardinality(queued \ {pageQ[1]}) = Cardinality(queued) - 1
        BY <3>1, FS_RemoveElement
      <3>4. IsFiniteSet(queued') /\ Cardinality(queued') = Cardinality(queued \ {pageQ[1]}) + 1
        BY <2>0, <2>3, <3>3, FS_AddElement
      <3>5. QED
        BY <2>0, <2>3, <3>1, <3>2, <3>3, <3>4
    <2>4. QED
      BY <1>3, <2>1, <2>2, <2>3, Enqueued
  <1>4. ASSUME NEW w \in Workers, Take(w)
        PROVE  QueuedIsQueued' /\ Distinct'
    <2>1. PICK k \in Keys :
            /\ queued' = queued \ {k}
            /\ \/ coverQ # <<>> /\ k = coverQ[1] /\ coverQ' = Tail(coverQ) /\ pageQ' = pageQ
               \/ pageQ # <<>> /\ k = pageQ[1] /\ pageQ' = Tail(pageQ) /\ coverQ' = coverQ
      BY <1>4, TakenJob DEF IInv
    <2>2. IsFiniteSet(queued \ {k}) /\ (k \in queued => Cardinality(queued \ {k}) = Cardinality(queued) - 1)
      BY FS_RemoveElement
    <2>3. CASE coverQ # <<>> /\ k = coverQ[1] /\ coverQ' = Tail(coverQ) /\ pageQ' = pageQ
      BY <2>1, <2>2, <2>3, TailOnce
    <2>4. CASE pageQ # <<>> /\ k = pageQ[1] /\ pageQ' = Tail(pageQ) /\ coverQ' = coverQ
      BY <2>1, <2>2, <2>4, TailOnce
    <2>5. QED
      BY <2>1, <2>3, <2>4
  <1>5. QED
    BY <1>1, <1>2, <1>3, <1>4, QueuesMove

(* A promise is handed from a queue to a worker, from a worker to a flight, and ends with it. *)
LEMMA PromisesStep == IInv /\ [Next]_vars => Promises'
  <1> SUFFICES ASSUME IInv, [Next]_vars PROVE Promises'
    OBVIOUS
  <1> USE DEF Promises, Places, Resting, Procs, sources, files, queues, verdicts, flights, life, turn, flight
  <1>0. /\ TypeOK /\ Promises /\ Places /\ Workers \cap Callers = {} /\ None \notin Procs
        /\ pc \in [Procs -> PCs] /\ job \in [Procs -> Keys \cup {None}]
        /\ inflight \in [Keys -> Procs \cup {None}] /\ owed \subseteq Keys
    BY ThumbnailsAssumption DEF IInv, TypeOK, Procs
  <1>1. CASE UNCHANGED vars
    BY <1>0, <1>1 DEF vars
  <1>2. ASSUME NEW q \in Procs, FlightStep(q)
        PROVE  Promises'
    <2>1. CASE FlightClosed(q)
      BY <2>1, <1>0 DEF FlightClosed, Goto
    <2>2. CASE Follow(q)
      BY <2>2, <1>0 DEF Follow, Goto
    <2>3. CASE Lead(q)
      BY <2>3, <1>0 DEF Lead, Goto
    <2>4. CASE Told(q)
      BY <2>4, <1>0 DEF Told, Goto
    <2>5. CASE GiveUp(q)
      BY <2>5, <1>0 DEF GiveUp, Goto
    <2>6. CASE TakePermit(q)
      BY <2>6, <1>0 DEF TakePermit, Goto
    <2>7. CASE NoPermit(q)
      BY <2>7, <1>0 DEF NoPermit, Goto
    <2>8. CASE ReadFails(q)
      BY <2>8, <1>0 DEF ReadFails, Produced, Goto
    <2>9. CASE Decode(q)
      BY <2>9, <1>0 DEF Decode, MakeDir, Goto
    <2>10. CASE MakeTemp(q)
      BY <2>10, <1>0 DEF MakeTemp, Goto
    <2>11. CASE Rename(q)
      BY <2>11, <1>0 DEF Rename, Produced, Goto
    <2>12. CASE TryAgain(q)
      BY <2>12, <1>0 DEF TryAgain, MakeDir, Vanished, Goto
    <2>13. CASE LastAttempt(q)
      BY <2>13, <1>0 DEF LastAttempt, Produced, Vanished, Goto
    <2>14. CASE PublishFails(q)
      BY <2>14, <1>0 DEF PublishFails, Produced, Goto
    <2>15. CASE Settle(q)
      BY <2>15, <1>0 DEF Settle, Goto
    <2>16. CASE Answer(q)
      BY <2>16, <1>0 DEF Answer, Goto
    <2>q. QED
      BY <1>2, <2>1, <2>2, <2>3, <2>4, <2>5, <2>6, <2>7, <2>8, <2>9, <2>10, <2>11, <2>12, <2>13, <2>14, <2>15, <2>16 DEF FlightStep
  <1>3. ASSUME NEW c \in Callers, CallerStep(c)
        PROVE  Promises'
    <2>1. CASE KnownBad(c)
      BY <2>1, <1>0 DEF KnownBad, Forget, Goto
    <2>2. CASE Unknown(c)
      BY <2>2, <1>0 DEF Unknown, Goto
    <2>3. CASE EnqueueClosed(c)
      BY <2>3, <1>0 DEF EnqueueClosed, Forget, Goto
    <2>4. CASE EnqueueKnown(c)
      BY <2>4, <1>0 DEF EnqueueKnown, Forget, Goto
    <2>5. CASE Enqueue(c)
      <3>1. closed' = closed /\ ~closed /\ inflight' = inflight /\ job' = [job EXCEPT ![c] = None]
        BY <2>5 DEF Enqueue, Forget
      <3>2. \A w \in Workers : pc[w] = "enter" => pc'[w] = "enter" /\ job'[w] = job[w]
        BY <2>5, <3>1, <1>0 DEF Enqueue, Signal, Asleep, Goto
      <3>3. \A k \in owed' : k \in queued' \/ (k \in owed /\ (k \in queued => k \in queued'))
        BY <2>5, Enqueued
      <3>4. QED
        BY <3>1, <3>2, <3>3, <1>0
    <2>6. CASE Return(c)
      BY <2>6, <1>0 DEF Return, Forget, Goto
    <2>q. QED
      BY <1>3, <2>1, <2>2, <2>3, <2>4, <2>5, <2>6 DEF CallerStep
  <1>4. ASSUME NEW w \in Workers, WorkerStep(w)
        PROVE  Promises'
    <2>1. CASE Sleep(w)
      BY <2>1, <1>0 DEF Sleep, Goto
    <2>2. CASE Exit(w)
      BY <2>2, <1>0 DEF Exit, Goto
    <2>3. CASE Take(w)
      <3>1. PICK k \in Keys :
              /\ job' = [job EXCEPT ![w] = k] /\ queued' = queued \ {k}
              /\ \/ coverQ # <<>> /\ k = coverQ[1] /\ coverQ' = Tail(coverQ) /\ pageQ' = pageQ
                 \/ pageQ # <<>> /\ k = pageQ[1] /\ pageQ' = Tail(pageQ) /\ coverQ' = coverQ
        BY <2>3, <1>0, TakenJob
      <3>2. pc'[w] = "enter" /\ job'[w] = k
        BY <2>3, <3>1, <1>0 DEF Take, Goto
      <3>3. QED
        BY <2>3, <3>1, <3>2, <1>0 DEF Take, Goto
    <2>4. CASE Rest(w)
      BY <2>4, <1>0 DEF Rest, Broadcast, Asleep, Goto
    <2>q. QED
      BY <1>4, <2>1, <2>2, <2>3, <2>4 DEF WorkerStep
  <1>5. CASE CloseStep \/ Surroundings
    <2>1. CASE CloseStop \/ CloseReturn \/ CtxEnds \/ ForgetNegatives
      BY <2>1, <1>0 DEF CloseStop, CloseReturn, CtxEnds, ForgetNegatives
    <2>2. CASE CloseMark
      BY <2>2, <1>0 DEF CloseMark
    <2>3. ASSUME NEW s \in Sources, Replace(s) \/ Rescan(s)
          PROVE  Promises'
      BY <2>3, <1>0 DEF Replace, Rescan
    <2>4. ASSUME NEW k \in Keys, Strike(k) \/ Expire(k)
          PROVE  Promises'
      BY <2>4, <1>0 DEF Strike, Expire
    <2>5. ASSUME NEW c \in Callers, Miss(c)
          PROVE  Promises'
      <3>1. PICK s \in Sources : KeyOf(s) \in Keys /\ job' = [job EXCEPT ![c] = KeyOf(s)]
        BY <2>5, <1>0, MissedKey
      <3>2. QED
        BY <2>5, <3>1, <1>0 DEF Miss, Goto
    <2>6. ASSUME NEW c \in Callers, Abandon(c)
          PROVE  Promises'
      BY <2>6, <1>0 DEF Abandon
    <2>q. QED
      BY <1>5, <2>1, <2>2, <2>3, <2>4, <2>5, <2>6 DEF CloseStep, Surroundings
  <1>q. QED
    BY <1>1, <1>2, <1>3, <1>4, <1>5 DEF Next, Step

(* A job that is queued wakes a worker, and Close wakes all. *)
LEMMA WakeStep == IInv /\ [Next]_vars => NobodySleepsOnWork'
  <1> SUFFICES ASSUME IInv, [Next]_vars PROVE NobodySleepsOnWork'
    OBVIOUS
  <1> USE DEF NobodySleepsOnWork, Asleep, Places, Procs, sources, files, queues, verdicts, flights, life, turn, flight
  <1>0. /\ NobodySleepsOnWork /\ Places /\ Workers \cap Callers = {} /\ None \notin Procs
        /\ pc \in [Procs -> PCs] /\ Workers # {}
    BY ThumbnailsAssumption DEF IInv, TypeOK, Procs
  <1>1. CASE UNCHANGED vars
    BY <1>0, <1>1 DEF vars
  <1>2. ASSUME NEW q \in Procs, FlightStep(q)
        PROVE  NobodySleepsOnWork'
    <2>1. CASE FlightClosed(q)
      BY <2>1, <1>0 DEF FlightClosed, Goto
    <2>2. CASE Follow(q)
      BY <2>2, <1>0 DEF Follow, Goto
    <2>3. CASE Lead(q)
      BY <2>3, <1>0 DEF Lead, Goto
    <2>4. CASE Told(q)
      BY <2>4, <1>0 DEF Told, Goto
    <2>5. CASE GiveUp(q)
      BY <2>5, <1>0 DEF GiveUp, Goto
    <2>6. CASE TakePermit(q)
      BY <2>6, <1>0 DEF TakePermit, Goto
    <2>7. CASE NoPermit(q)
      BY <2>7, <1>0 DEF NoPermit, Goto
    <2>8. CASE ReadFails(q)
      BY <2>8, <1>0 DEF ReadFails, Produced, Goto
    <2>9. CASE Decode(q)
      BY <2>9, <1>0 DEF Decode, MakeDir, Goto
    <2>10. CASE MakeTemp(q)
      BY <2>10, <1>0 DEF MakeTemp, Goto
    <2>11. CASE Rename(q)
      BY <2>11, <1>0 DEF Rename, Produced, Goto
    <2>12. CASE TryAgain(q)
      BY <2>12, <1>0 DEF TryAgain, MakeDir, Vanished, Goto
    <2>13. CASE LastAttempt(q)
      BY <2>13, <1>0 DEF LastAttempt, Produced, Vanished, Goto
    <2>14. CASE PublishFails(q)
      BY <2>14, <1>0 DEF PublishFails, Produced, Goto
    <2>15. CASE Settle(q)
      BY <2>15, <1>0 DEF Settle, Goto
    <2>16. CASE Answer(q)
      BY <2>16, <1>0 DEF Answer, Goto
    <2>q. QED
      BY <1>2, <2>1, <2>2, <2>3, <2>4, <2>5, <2>6, <2>7, <2>8, <2>9, <2>10, <2>11, <2>12, <2>13, <2>14, <2>15, <2>16 DEF FlightStep
  <1>3. ASSUME NEW c \in Callers, CallerStep(c)
        PROVE  NobodySleepsOnWork'
    <2>1. CASE KnownBad(c)
      BY <2>1, <1>0 DEF KnownBad, Forget, Goto
    <2>2. CASE Unknown(c)
      BY <2>2, <1>0 DEF Unknown, Goto
    <2>3. CASE EnqueueClosed(c)
      BY <2>3, <1>0 DEF EnqueueClosed, Forget, Goto
    <2>4. CASE EnqueueKnown(c)
      BY <2>4, <1>0 DEF EnqueueKnown, Forget, Goto
    <2>5. CASE Enqueue(c)
      <3>1. closed' = closed /\ ~closed
        BY <2>5 DEF Enqueue
      <3>2. CASE Asleep = {} /\ Goto(c, "idle")
        <4>1. Asleep' = {}
          BY <3>2, <1>0 DEF Goto
        <4>2. QED
          BY <3>1, <4>1, <1>0
      <3>3. ASSUME NEW w \in Asleep, pc' = [pc EXCEPT ![c] = "idle", ![w] = "check"]
            PROVE  NobodySleepsOnWork'
        <4>1. w \in Workers /\ w \notin Asleep'
          BY <3>3, <1>0
        <4>2. QED
          BY <3>1, <4>1, <1>0
      <3>4. QED
        BY <2>5, <3>2, <3>3 DEF Enqueue, Signal
    <2>6. CASE Return(c)
      BY <2>6, <1>0 DEF Return, Forget, Goto
    <2>q. QED
      BY <1>3, <2>1, <2>2, <2>3, <2>4, <2>5, <2>6 DEF CallerStep
  <1>4. ASSUME NEW w \in Workers, WorkerStep(w)
        PROVE  NobodySleepsOnWork'
    <2>1. CASE Sleep(w)
      BY <2>1, <1>0 DEF Sleep, Goto
    <2>2. CASE Exit(w)
      BY <2>2, <1>0 DEF Exit, Goto
    <2>3. CASE Take(w)
      <3>1. w \notin Asleep' /\ closed' = closed /\ ~closed
        BY <2>3, <1>0 DEF Take, Goto
      <3>2. QED
        BY <3>1
    <2>4. CASE Rest(w)
      BY <2>4, <1>0 DEF Rest, Broadcast, Asleep, Goto
    <2>q. QED
      BY <1>4, <2>1, <2>2, <2>3, <2>4 DEF WorkerStep
  <1>5. CASE CloseStep \/ Surroundings
    <2>1. CASE CloseStop \/ CloseReturn \/ CtxEnds \/ ForgetNegatives
      BY <2>1, <1>0 DEF CloseStop, CloseReturn, CtxEnds, ForgetNegatives
    <2>2. CASE CloseMark
      <3>1. Asleep' = {}
        BY <2>2, <1>0, Awakening
      <3>2. QED
        BY <3>1, <1>0
    <2>3. ASSUME NEW s \in Sources, Replace(s) \/ Rescan(s)
          PROVE  NobodySleepsOnWork'
      BY <2>3, <1>0 DEF Replace, Rescan
    <2>4. ASSUME NEW k \in Keys, Strike(k) \/ Expire(k)
          PROVE  NobodySleepsOnWork'
      BY <2>4, <1>0 DEF Strike, Expire
    <2>5. ASSUME NEW c \in Callers, Miss(c)
          PROVE  NobodySleepsOnWork'
      BY <2>5, <1>0 DEF Miss, Goto, KeyOf
    <2>6. ASSUME NEW c \in Callers, Abandon(c)
          PROVE  NobodySleepsOnWork'
      BY <2>6, <1>0 DEF Abandon
    <2>q. QED
      BY <1>5, <2>1, <2>2, <2>3, <2>4, <2>5, <2>6 DEF CloseStep, Surroundings
  <1>q. QED
    BY <1>1, <1>2, <1>3, <1>4, <1>5 DEF Next, Step

(* Answer tells whoever follows, and nobody else has an outcome of another. *)
LEMMA FollowersStep == IInv /\ [Next]_vars => Followers'
  <1> SUFFICES ASSUME IInv, [Next]_vars PROVE Followers'
    OBVIOUS
  <1> USE DEF Followers, Places, Procs, sources, files, queues, verdicts, flights, life, turn, flight
  <1>0. /\ Followers /\ Places /\ Workers \cap Callers = {} /\ None \notin Procs
        /\ pc \in [Procs -> PCs] /\ leader \in [Procs -> Procs \cup {None}] /\ outcome \in [Procs -> Outcomes]
    BY ThumbnailsAssumption DEF IInv, TypeOK, Procs
  <1>1. CASE UNCHANGED vars
    BY <1>0, <1>1 DEF vars
  <1>2. ASSUME NEW q \in Procs, FlightStep(q)
        PROVE  Followers'
    <2>1. CASE FlightClosed(q)
      BY <2>1, <1>0 DEF FlightClosed, Goto
    <2>2. CASE Follow(q)
      BY <2>2, <1>0 DEF Follow, Goto
    <2>3. CASE Lead(q)
      BY <2>3, <1>0 DEF Lead, Goto
    <2>4. CASE Told(q)
      BY <2>4, <1>0 DEF Told, Goto
    <2>5. CASE GiveUp(q)
      BY <2>5, <1>0 DEF GiveUp, Goto
    <2>6. CASE TakePermit(q)
      BY <2>6, <1>0 DEF TakePermit, Goto
    <2>7. CASE NoPermit(q)
      BY <2>7, <1>0 DEF NoPermit, Goto
    <2>8. CASE ReadFails(q)
      BY <2>8, <1>0 DEF ReadFails, Produced, Goto
    <2>9. CASE Decode(q)
      BY <2>9, <1>0 DEF Decode, MakeDir, Goto
    <2>10. CASE MakeTemp(q)
      BY <2>10, <1>0 DEF MakeTemp, Goto
    <2>11. CASE Rename(q)
      BY <2>11, <1>0 DEF Rename, Produced, Goto
    <2>12. CASE TryAgain(q)
      BY <2>12, <1>0 DEF TryAgain, MakeDir, Vanished, Goto
    <2>13. CASE LastAttempt(q)
      BY <2>13, <1>0 DEF LastAttempt, Produced, Vanished, Goto
    <2>14. CASE PublishFails(q)
      BY <2>14, <1>0 DEF PublishFails, Produced, Goto
    <2>15. CASE Settle(q)
      BY <2>15, <1>0 DEF Settle, Goto
    <2>16. CASE Answer(q)
      BY <2>16, <1>0 DEF Answer, Goto
    <2>q. QED
      BY <1>2, <2>1, <2>2, <2>3, <2>4, <2>5, <2>6, <2>7, <2>8, <2>9, <2>10, <2>11, <2>12, <2>13, <2>14, <2>15, <2>16 DEF FlightStep
  <1>3. ASSUME NEW c \in Callers, CallerStep(c)
        PROVE  Followers'
    <2>1. CASE KnownBad(c)
      BY <2>1, <1>0 DEF KnownBad, Forget, Goto
    <2>2. CASE Unknown(c)
      BY <2>2, <1>0 DEF Unknown, Goto
    <2>3. CASE EnqueueClosed(c)
      BY <2>3, <1>0 DEF EnqueueClosed, Forget, Goto
    <2>4. CASE EnqueueKnown(c)
      BY <2>4, <1>0 DEF EnqueueKnown, Forget, Goto
    <2>5. CASE Enqueue(c)
      BY <2>5, <1>0 DEF Enqueue, Signal, Asleep, Forget, Goto
    <2>6. CASE Return(c)
      BY <2>6, <1>0 DEF Return, Forget, Goto
    <2>q. QED
      BY <1>3, <2>1, <2>2, <2>3, <2>4, <2>5, <2>6 DEF CallerStep
  <1>4. ASSUME NEW w \in Workers, WorkerStep(w)
        PROVE  Followers'
    <2>1. CASE Sleep(w)
      BY <2>1, <1>0 DEF Sleep, Goto
    <2>2. CASE Exit(w)
      BY <2>2, <1>0 DEF Exit, Goto
    <2>3. CASE Take(w)
      BY <2>3, <1>0 DEF Take, Goto
    <2>4. CASE Rest(w)
      BY <2>4, <1>0 DEF Rest, Broadcast, Asleep, Goto
    <2>q. QED
      BY <1>4, <2>1, <2>2, <2>3, <2>4 DEF WorkerStep
  <1>5. CASE CloseStep \/ Surroundings
    <2>1. CASE CloseStop \/ CloseReturn \/ CtxEnds \/ ForgetNegatives
      BY <2>1, <1>0 DEF CloseStop, CloseReturn, CtxEnds, ForgetNegatives
    <2>2. CASE CloseMark
      BY <2>2, <1>0, Awakening DEF CloseMark, Asleep
    <2>3. ASSUME NEW s \in Sources, Replace(s) \/ Rescan(s)
          PROVE  Followers'
      BY <2>3, <1>0 DEF Replace, Rescan
    <2>4. ASSUME NEW k \in Keys, Strike(k) \/ Expire(k)
          PROVE  Followers'
      BY <2>4, <1>0 DEF Strike, Expire
    <2>5. ASSUME NEW c \in Callers, Miss(c)
          PROVE  Followers'
      BY <2>5, <1>0 DEF Miss, Goto
    <2>6. ASSUME NEW c \in Callers, Abandon(c)
          PROVE  Followers'
      BY <2>6, <1>0 DEF Abandon
    <2>q. QED
      BY <1>5, <2>1, <2>2, <2>3, <2>4, <2>5, <2>6 DEF CloseStep, Surroundings
  <1>q. QED
    BY <1>1, <1>2, <1>3, <1>4, <1>5 DEF Next, Step

(* A file gets newer, the index follows it, and a key is made of what the  *)
(* index has: what is read later is no older than the key.                 *)
LEMMA VersionedStep == IInv /\ [Next]_vars => Versioned'
  <1> SUFFICES ASSUME IInv, [Next]_vars PROVE Versioned'
    OBVIOUS
  <1> USE DEF Versioned, Places, Resting, Procs, Known, OfIts, TrueOf, Cancelled, SourceOf, Versions, Keys, sources, files, queues, verdicts, flights, life, turn, flight
  <1>0. /\ TypeOK /\ Versioned /\ Places /\ Followers /\ Workers \cap Callers = {} /\ None \notin Procs
        /\ pc \in [Procs -> PCs] /\ leader \in [Procs -> Procs \cup {None}] /\ outcome \in [Procs -> Outcomes]
        /\ job \in [Procs -> Keys \cup {None}] /\ picture \in [Procs -> 0..MaxVersion]
        /\ disk \in [Sources -> Versions] /\ indexed \in [Sources -> Versions] /\ MaxVersion \in Nat
        /\ cache \in [Keys -> 0..MaxVersion] /\ queued \subseteq Keys
        /\ negative \subseteq Keys /\ unread \subseteq negative
    BY ThumbnailsAssumption DEF IInv, TypeOK, Procs
  <1>1. CASE UNCHANGED vars
    BY <1>0, <1>1 DEF vars
  <1>2. ASSUME NEW q \in Procs, FlightStep(q)
        PROVE  Versioned'
    <2>1. CASE FlightClosed(q)
      BY <2>1, <1>0 DEF FlightClosed, Goto
    <2>2. CASE Follow(q)
      BY <2>2, <1>0 DEF Follow, Goto
    <2>3. CASE Lead(q)
      BY <2>3, <1>0 DEF Lead, Goto
    <2>4. CASE Told(q)
      BY <2>4, <1>0 DEF Told, Goto
    <2>5. CASE GiveUp(q)
      BY <2>5, <1>0 DEF GiveUp, Goto
    <2>6. CASE TakePermit(q)
      BY <2>6, <1>0 DEF TakePermit, Goto
    <2>7. CASE NoPermit(q)
      BY <2>7, <1>0 DEF NoPermit, Goto
    <2>8. CASE ReadFails(q)
      <3>1. PICK o \in ReadErrors(q) : Produced(q, o)
        BY <2>8 DEF ReadFails
      <3>2. job[q] \in Keys /\ Known(job[q])
        BY <2>8, <1>0 DEF ReadFails
      <3>3. o = "undecodable" /\ ~Cancelled(q) => TrueOf(job[q])
        <4>1. /\ job[q][1] \in Sources /\ job[q][2] \in Nat /\ disk[job[q][1]] \in Nat
              /\ indexed[job[q][1]] \in Nat /\ indexed[job[q][1]] <= disk[job[q][1]]
          BY <3>2, <1>0
        <4>2. o = "undecodable" /\ ~Cancelled(q) =>
                 \/ <<job[q][1], disk[job[q][1]]>> \in Broken
                 \/ job[q][1] \notin Loose /\ disk[job[q][1]] # indexed[job[q][1]]
          BY <3>1, <1>0 DEF ReadErrors
        <4>3. QED
          BY <3>2, <4>1, <4>2
      <3>4. /\ UNCHANGED <<sources, files, queues, life, job, verdicts, gone>>
            /\ pc' = [pc EXCEPT ![q] = "settle"] /\ outcome' = [outcome EXCEPT ![q] = o]
            /\ picture' = [picture EXCEPT ![q] = 0] /\ pc[q] = "read"
        BY <2>8, <3>1 DEF ReadFails, Produced, Goto
      <3>5. TrueOf(job[q])' = TrueOf(job[q]) /\ Cancelled(q)' = Cancelled(q)
        BY <3>4
      <3>6. \A r \in Procs : pc'[r] = "settle" /\ outcome'[r] = "undecodable" /\ ~Cancelled(r)' =>
                   TrueOf(job[r])'
        <4> SUFFICES ASSUME NEW r \in Procs, pc'[r] = "settle", outcome'[r] = "undecodable",
                            ~Cancelled(r)'
                     PROVE  TrueOf(job[r])'
          OBVIOUS
        <4>1. CASE r = q
          BY <4>1, <3>3, <3>4, <3>5, <1>0
        <4>2. CASE r # q
          BY <4>2, <3>4, <1>0
        <4>3. QED
          BY <4>1, <4>2
      <3>7. QED
        BY <3>4, <3>6, <1>0
    <2>9. CASE Decode(q)
      BY <2>9, <1>0 DEF Decode, MakeDir, Goto
    <2>10. CASE MakeTemp(q)
      BY <2>10, <1>0 DEF MakeTemp, Goto
    <2>11. CASE Rename(q)
      BY <2>11, <1>0 DEF Rename, Produced, Goto
    <2>12. CASE TryAgain(q)
      BY <2>12, <1>0 DEF TryAgain, MakeDir, Vanished, Goto
    <2>13. CASE LastAttempt(q)
      BY <2>13, <1>0 DEF LastAttempt, Produced, Vanished, Goto
    <2>14. CASE PublishFails(q)
      BY <2>14, <1>0 DEF PublishFails, Produced, Goto
    <2>15. CASE Settle(q)
      <3>1. /\ UNCHANGED <<sources, files, queues, life, job, outcome, picture, gone>>
            /\ pc' = [pc EXCEPT ![q] = "answer"] /\ pc[q] = "settle"
        BY <2>15 DEF Settle, Goto
      <3>2. negative' \subseteq negative \cup {job[q]}
        BY <2>15 DEF Settle, Remember
      <3>3. job[q] \in Keys /\ Known(job[q])
        BY <3>1, <1>0
      <3>4. \A k \in negative' \ unread' : k \in negative \ unread \/ TrueOf(k)
        <4>1. CASE outcome[q] = "undecodable" /\ ~Cancelled(q)
          <5>1. TrueOf(job[q]) /\ negative' = negative \cup {job[q]} /\ unread' = unread \ {job[q]}
            BY <2>15, <4>1, <3>1, <1>0 DEF Settle, Remember, Verdicts
          <5>2. QED
            BY <5>1
        <4>2. CASE outcome[q] = "unread" /\ ~Cancelled(q)
          <5>1. negative' = negative \cup {job[q]} /\ unread' = unread \cup {job[q]}
            BY <2>15, <4>2 DEF Settle, Remember, Verdicts
          <5>2. QED
            BY <5>1
        <4>3. CASE outcome[q] \notin Verdicts \/ Cancelled(q)
          BY <2>15, <4>3 DEF Settle
        <4>4. QED
          BY <4>1, <4>2, <4>3 DEF Verdicts
      <3>5. QED
        BY <3>1, <3>2, <3>3, <3>4, <1>0
    <2>16. CASE Answer(q)
      <3>1. /\ UNCHANGED <<sources, files, queues, life, job, verdicts, gone, picture>>
            /\ pc' = [pc EXCEPT ![q] = "end"]
            /\ outcome' = [f \in Procs |-> IF leader[f] = q THEN outcome[q] ELSE outcome[f]]
        BY <2>16 DEF Answer, Goto
      <3>2. \A f \in Procs : leader[f] = q => pc[f] = "follow"
        BY <1>0 DEF Followers
      <3>3. \A f \in Procs : pc'[f] = "settle" => pc[f] = "settle" /\ outcome'[f] = outcome[f]
        BY <3>1, <3>2, <1>0
      <3>4. pc[q] = "answer"
        BY <2>16 DEF Answer
      <3>5. QED
        BY <3>1, <3>3, <3>4, <1>0
    <2>q. QED
      BY <1>2, <2>1, <2>2, <2>3, <2>4, <2>5, <2>6, <2>7, <2>8, <2>9, <2>10, <2>11, <2>12, <2>13, <2>14, <2>15, <2>16 DEF FlightStep
  <1>3. ASSUME NEW c \in Callers, CallerStep(c)
        PROVE  Versioned'
    <2>1. CASE KnownBad(c)
      BY <2>1, <1>0 DEF KnownBad, Forget, Goto
    <2>2. CASE Unknown(c)
      BY <2>2, <1>0 DEF Unknown, Goto
    <2>3. CASE EnqueueClosed(c)
      BY <2>3, <1>0 DEF EnqueueClosed, Forget, Goto
    <2>4. CASE EnqueueKnown(c)
      BY <2>4, <1>0 DEF EnqueueKnown, Forget, Goto
    <2>5. CASE Enqueue(c)
      <3>1. queued' \subseteq queued \cup {job[c]}
        BY <2>5, Enqueued
      <3>2. UNCHANGED <<sources, files, flights, life, flight>> /\ job' = [job EXCEPT ![c] = None] /\ gone' = gone \ {c}
        BY <2>5 DEF Enqueue, Forget
      <3>3. /\ pc[c] = "enqueue" /\ pc'[c] = "idle"
            /\ \A q \in Procs : pc'[q] \in {pc[q], "idle", "check"} /\ (pc'[q] = "idle" \/ pc'[q] = "check" \/ pc'[q] = pc[q])
            /\ \A q \in Procs : pc'[q] # pc[q] => pc'[q] \in {"idle", "check"} /\ pc[q] \notin {"temp", "rename"}
        BY <2>5, <1>0 DEF Enqueue, Signal, Asleep, Goto
      <3>4. QED
        BY <3>1, <3>2, <3>3, <1>0
    <2>6. CASE Return(c)
      BY <2>6, <1>0 DEF Return, Forget, Goto
    <2>q. QED
      BY <1>3, <2>1, <2>2, <2>3, <2>4, <2>5, <2>6 DEF CallerStep
  <1>4. ASSUME NEW w \in Workers, WorkerStep(w)
        PROVE  Versioned'
    <2>1. CASE Sleep(w)
      BY <2>1, <1>0 DEF Sleep, Goto
    <2>2. CASE Exit(w)
      BY <2>2, <1>0 DEF Exit, Goto
    <2>3. CASE Take(w)
      <3>1. PICK k \in Keys :
              /\ job' = [job EXCEPT ![w] = k] /\ queued' = queued \ {k}
              /\ \/ coverQ # <<>> /\ k = coverQ[1] /\ coverQ' = Tail(coverQ) /\ pageQ' = pageQ
                 \/ pageQ # <<>> /\ k = pageQ[1] /\ pageQ' = Tail(pageQ) /\ coverQ' = coverQ
        BY <2>3, <1>0, TakenJob
      <3>2. k \in queued
        <4>1. queued = ToSet(coverQ) \cup ToSet(pageQ) /\ Once(coverQ) /\ Once(pageQ)
          BY DEF IInv, QueuedIsQueued, Distinct
        <4>2. coverQ \in Seq(Keys) /\ pageQ \in Seq(Keys)
          BY <1>0 DEF TypeOK
        <4>3. \A s \in Seq(Keys) : s # <<>> => s[1] \in ToSet(s)
          BY DEF ToSet
        <4>4. QED
          BY <3>1, <4>1, <4>2, <4>3
      <3>3. QED
        BY <2>3, <3>1, <3>2, <1>0 DEF Take, Goto
    <2>4. CASE Rest(w)
      BY <2>4, <1>0 DEF Rest, Broadcast, Asleep, Goto
    <2>q. QED
      BY <1>4, <2>1, <2>2, <2>3, <2>4 DEF WorkerStep
  <1>5. CASE CloseStep \/ Surroundings
    <2>1. CASE CloseStop \/ CloseReturn \/ CtxEnds \/ ForgetNegatives
      BY <2>1, <1>0 DEF CloseStop, CloseReturn, CtxEnds, ForgetNegatives
    <2>2. CASE CloseMark
      <3>1. /\ UNCHANGED <<sources, files, flights, ctxDone, job, flight, gone>> /\ queued' = {}
            /\ Broadcast(None, "end")
        BY <2>2 DEF CloseMark
      <3>2. \A q \in Procs : pc'[q] \in {pc[q], "check"} /\ (pc'[q] # pc[q] => pc[q] = "asleep")
        BY <2>2, <1>0, Awakening DEF Asleep
      <3>3. QED
        BY <3>1, <3>2, <1>0
    <2>3. ASSUME NEW s \in Sources, Replace(s) \/ Rescan(s)
          PROVE  Versioned'
      BY <2>3, <1>0, SMTT(20) DEF Replace, Rescan
    <2>4. ASSUME NEW k \in Keys, Strike(k) \/ Expire(k)
          PROVE  Versioned'
      BY <2>4, <1>0 DEF Strike, Expire
    <2>5. ASSUME NEW c \in Callers, Miss(c)
          PROVE  Versioned'
      <3>1. PICK s \in Sources : KeyOf(s) \in Keys /\ job' = [job EXCEPT ![c] = KeyOf(s)]
        BY <2>5, <1>0, MissedKey
      <3>2. Known(KeyOf(s))
        BY <1>0 DEF KeyOf
      <3>3. QED
        BY <2>5, <3>1, <3>2, <1>0 DEF Miss, Goto
    <2>6. ASSUME NEW c \in Callers, Abandon(c)
          PROVE  Versioned'
      BY <2>6, <1>0 DEF Abandon
    <2>q. QED
      BY <1>5, <2>1, <2>2, <2>3, <2>4, <2>5, <2>6 DEF CloseStep, Surroundings
  <1>q. QED
    BY <1>1, <1>2, <1>3, <1>4, <1>5 DEF Next, Step

-----------------------------------------------------------------------------
\* Every step keeps the inductive invariant.
LEMMA NextIInv == IInv /\ [Next]_vars => IInv'
  <1> SUFFICES ASSUME IInv, [Next]_vars PROVE IInv'
    OBVIOUS
  <1>2. TypeOK' /\ Places' /\ Leaders' /\ Followers' /\ Counts'
    BY TypeStep, PlacesStep, LeadersStep, FollowersStep, CountsStep
  <1>3. QueuedIsQueued' /\ Distinct' /\ Promises' /\ NobodySleepsOnWork'
    BY QueuesStep, PromisesStep, WakeStep
  <1>4. Versioned'
    BY VersionedStep
  <1>5. QED
    BY <1>2, <1>3, <1>4 DEF IInv

(* The service keeps the inductive invariant.                              *)
THEOREM ThumbnailsInvariant == Spec => []IInv
  BY InitIInv, NextIInv, PTL DEF Spec

(* For any number of goroutines that queue, generate and drain, a key is   *)
(* generated by one at a time: the flight names its leader until it has    *)
(* settled, and everybody else follows.                                    *)
THEOREM OneFlight == Spec => []OneFlightPerKey
  <1>1. IInv => OneFlightPerKey
    BY DEF IInv, Leaders, OneFlightPerKey, Leading, Flying
  <1>2. QED
    BY <1>1, ThumbnailsInvariant, PTL

(* decodeSem: no more goroutines read, decode or publish at a time than    *)
(* thumbnails.workers, requests that bypass the queue included, and a      *)
(* permit that was taken is held by one of them.                           *)
THEOREM DecodesAreBounded ==
  Spec => [](IsFiniteSet(Flyers) /\ held = Cardinality(Flyers) /\ Cardinality(Flyers) <= Permits)
  <1>1. IInv => IsFiniteSet(Flyers) /\ held = Cardinality(Flyers) /\ Cardinality(Flyers) <= Permits
    BY ThumbnailsAssumption DEF IInv, Counts, TypeOK
  <1>2. QED
    BY <1>1, ThumbnailsInvariant, PTL

(* The queues hold what enqueue believes they hold, the page queue never   *)
(* outgrows its bound, and Stats calls a service idle only when every      *)
(* answer ErrQueued has been kept.                                         *)
THEOREM QueuesAlwaysAgree == Spec => []QueuesAgree
  <1>1. ASSUME IInv, Idle PROVE owed = {} /\ \A q \in Procs : pc[q] # "rename"
    <2>1. queued = {}
      BY <1>1 DEF IInv, Idle, QueuedIsQueued, ToSet
    <2>2. \A w \in Workers : pc[w] # "enter"
      <3>1. Busy = {}
        BY <1>1, BusyCount DEF Idle
      <3>2. QED
        BY <3>1 DEF Busy
    <2>3. owed = {}
      BY <1>1, <2>1, <2>2 DEF IInv, Idle, Promises, TypeOK
    <2>4. \A q \in Procs : pc[q] # "rename"
      BY <1>1, ThumbnailsAssumption
         DEF IInv, Idle, Leaders, Places, Leading, Flying, Resting, Procs
    <2>5. QED
      BY <2>3, <2>4
  <1>2. IInv => QueuesAgree
    BY <1>1 DEF IInv, QueuesAgree, IdleMeansDone
  <1>3. QED
    BY <1>2, ThumbnailsInvariant, PTL

(* No wake-up is lost: a job that is queued finds a worker that is awake,  *)
(* and a closed service has no worker asleep.                              *)
THEOREM NoWakeUpIsLost == Spec => []NobodySleepsOnWork
  <1>1. IInv => NobodySleepsOnWork
    BY DEF IInv
  <1>2. QED
    BY <1>1, ThumbnailsInvariant, PTL

(* What is served for a page that is scanned is made of the page as it is, *)
(* and a page that is called undecodable is, unless a read of it failed    *)
(* half way: whatever was replaced, rescanned, cancelled or purged while   *)
(* it was made.                                                            *)
THEOREM PicturesStayCurrent == Spec => []PicturesAreCurrent
  <1>1. ASSUME IInv, NEW s \in Sources \ Loose, Scanned(s)
        PROVE  /\ cache[KeyOf(s)] # 0 => cache[KeyOf(s)] = disk[s]
               /\ KeyOf(s) \in negative \ unread => <<s, disk[s]>> \in Broken
    <2>1. KeyOf(s) = <<s, disk[s]>> /\ disk[s] \in 1..MaxVersion
      BY <1>1 DEF KeyOf, Scanned, IInv, TypeOK, Versions
    <2>2. KeyOf(s) \in Keys /\ cache[KeyOf(s)] \in 0..MaxVersion
      BY <2>1, ThumbnailsAssumption, <1>1 DEF Keys, IInv, TypeOK
    <2>3. OfIts(KeyOf(s), cache[KeyOf(s)]) /\ (KeyOf(s) \in negative \ unread => TrueOf(KeyOf(s)))
      BY <1>1, <2>2 DEF IInv, Versioned
    <2>4. QED
      BY <2>1, <2>2, <2>3, ThumbnailsAssumption DEF OfIts, TrueOf
  <1>2. IInv => PicturesAreCurrent
    BY <1>1 DEF PicturesAreCurrent, VersionedIsCurrent, VerdictIsOfThePicture
  <1>3. QED
    BY <1>2, ThumbnailsInvariant, PTL
=============================================================================
