------------------------------ MODULE Thumbnails ------------------------------
(***************************************************************************)
(* The thumbnail service: internal/thumbs/worker.go, with the publishing   *)
(* half of cache.go, Close of thumbs.go and the pipeline of generate.go.   *)
(* Requests miss the cache and are queued; workers drain two queues; every *)
(* generation goes through one flight per key and takes a decode permit;   *)
(* meanwhile files are replaced, the index follows, the cache directory is *)
(* deleted, requests are cancelled and the service is closed.              *)
(*                                                                         *)
(* A critical section of Service.mu is one action.  A picture is the       *)
(* version of the source it was made from.                                 *)
(***************************************************************************)
EXTENDS Integers, FiniteSets, Sequences, SequencesExt

CONSTANTS
    Workers,        \* the goroutines of the pool
    Callers,        \* goroutines that call Get, Enqueue or Generate
    Sources,        \* pages of books and loose cover files
    Loose,          \* the loose cover files among them
    Broken,         \* <<source, version>>: pictures that no decoder can read
    Permits,        \* thumbnails.workers, the capacity of decodeSem
    PageQueueMax,   \* Options.PageQueue
    Attempts,       \* publishAttempts
    MaxVersion,     \* bound: versions of a source
    MaxStrikes,     \* bound: deletions of a fan-out directory
    None

ASSUME ThumbnailsAssumption ==
    /\ Workers # {} /\ IsFiniteSet(Workers)
    /\ Workers \cap Callers = {} /\ None \notin Workers \cup Callers
    /\ Loose \subseteq Sources
    /\ Permits \in Nat \ {0} /\ PageQueueMax \in Nat \ {0} /\ Attempts \in Nat \ {0}
    /\ MaxVersion \in Nat \ {0} /\ MaxStrikes \in Nat

Versions == 1..MaxVersion
Keys     == Sources \X (0..MaxVersion)
Procs    == Workers \cup Callers
Ops      == {"get", "cover", "generate"}

(* Where a goroutine is.  The last two groups are the leader of a flight.  *)
Flying   == {"read", "temp", "rename"}
Leading  == {"permit", "settle"} \cup Flying
PCs      == {"idle", "missed", "enqueue", "check", "asleep", "exit", "enter", "follow", "answer",
             "end"} \cup Leading

(* "unread" is what the code calls undecodable, too: the read failed half  *)
(* way, for a reason that is not in the picture.                           *)
Verdicts == {"undecodable", "unread"}
Outcomes == {"none", "ok", "failed", "vanished", "cancelled", "closed"} \cup Verdicts

VARIABLES
    disk,       \* [Sources -> Versions], the version of the file
    indexed,    \* [Sources -> Versions], the version the index has
    cache,      \* [Keys -> 0..MaxVersion], the picture in the file of a key, 0 without a file
    intact,     \* publishers whose directory, and temporary file in it, nobody has removed
    strikes,    \* deletions of fan-out directories so far
    coverQ,     \* Service.coverQ, keys
    pageQ,      \* Service.pageQ, keys
    queued,     \* Service.queued
    inflight,   \* Service.inflight: [Keys -> Procs \cup {None}], a flight is its leader
    negative,   \* Service.negative, keys
    unread,     \* those of them whose picture was never read: a history, which no step reads
    active,     \* Service.active
    closed,     \* Service.closed
    ctxDone,    \* the service's context is over
    stopped,    \* Service.stopped is closed
    closing,    \* where Close is
    held,       \* permits taken of decodeSem
    pc,         \* [Procs -> PCs]
    job,        \* [Procs -> Keys \cup {None}]
    op,         \* [Callers -> Ops], what a caller asks for
    leader,     \* [Procs -> Procs \cup {None}], whose flight a follower waits for
    outcome,    \* [Procs -> Outcomes], what a generation ended with; a follower's once told
    picture,    \* [Procs -> 0..MaxVersion], what was read and decoded
    attempt,    \* [Procs -> 0..Attempts], the attempt at publishing
    gone,       \* callers whose context is over
    owed        \* keys that were answered with ErrQueued and have not been dealt with since

sources == <<disk, indexed>>
files   == <<cache, intact, strikes>>
queues  == <<coverQ, pageQ, queued>>
verdicts == <<negative, unread>>
flights == <<inflight, verdicts, held>>
life    == <<closed, ctxDone, stopped, closing>>
turn    == <<pc, job, op>>
flight  == <<leader, outcome, picture, attempt>>
vars    == <<sources, files, queues, flights, active, life, turn, flight, gone, owed>>

TypeOK ==
    /\ disk \in [Sources -> Versions] /\ indexed \in [Sources -> Versions]
    /\ cache \in [Keys -> 0..MaxVersion] /\ intact \subseteq Procs
    /\ strikes \in 0..MaxStrikes
    /\ coverQ \in Seq(Keys) /\ pageQ \in Seq(Keys) /\ queued \subseteq Keys
    /\ inflight \in [Keys -> Procs \cup {None}] /\ negative \subseteq Keys /\ unread \subseteq negative
    /\ active \in 0..Cardinality(Workers) /\ held \in 0..Permits
    /\ closed \in BOOLEAN /\ ctxDone \in BOOLEAN /\ stopped \in BOOLEAN
    /\ closing \in {"open", "marked", "waiting", "returned"}
    /\ pc \in [Procs -> PCs] /\ job \in [Procs -> Keys \cup {None}] /\ op \in [Callers -> Ops]
    /\ leader \in [Procs -> Procs \cup {None}] /\ outcome \in [Procs -> Outcomes]
    /\ picture \in [Procs -> 0..MaxVersion] /\ attempt \in [Procs -> 0..Attempts]
    /\ gone \subseteq Callers /\ owed \subseteq Keys

Init ==
    /\ disk = [s \in Sources |-> 1] /\ indexed = [s \in Sources |-> 1]
    /\ cache = [k \in Keys |-> 0] /\ intact = {} /\ strikes = 0
    /\ coverQ = <<>> /\ pageQ = <<>> /\ queued = {}
    /\ inflight = [k \in Keys |-> None] /\ negative = {} /\ unread = {} /\ held = 0 /\ active = 0
    /\ closed = FALSE /\ ctxDone = FALSE /\ stopped = FALSE /\ closing = "open"
    /\ pc = [q \in Procs |-> IF q \in Workers THEN "check" ELSE "idle"]
    /\ job = [q \in Procs |-> None] /\ op = [c \in Callers |-> "get"]
    /\ leader = [q \in Procs |-> None] /\ outcome = [q \in Procs |-> "none"]
    /\ picture = [q \in Procs |-> 0] /\ attempt = [q \in Procs |-> 0]
    /\ gone = {} /\ owed = {}

-----------------------------------------------------------------------------
(* A key without the content version.                                     *)
KeyOf_Bug(s) == <<s, 0>>

(* The key of a source.  The content version is part of it; a loose cover  *)
(* has none.                                                               *)
KeyOf(s) == <<s, IF s \in Loose THEN 0 ELSE indexed[s]>>

SourceOf(q) == job[q][1]

(* The context a generation runs on is over.                               *)
Cancelled(q) == IF q \in Workers THEN ctxDone ELSE q \in gone

Goto(q, label) == pc' = [pc EXCEPT ![q] = label]

(* cond.Signal and cond.Broadcast: c goes to label, and one sleeper, or    *)
(* every one, checks the queues again.                                     *)
Asleep == {w \in Workers : pc[w] = "asleep"}

(* The wake-up is forgotten.                                               *)
Signal_Bug(c, label) == pc' = [pc EXCEPT ![c] = label]

Signal(c, label) ==
    \/ Asleep = {} /\ Goto(c, label)
    \/ \E w \in Asleep : pc' = [pc EXCEPT ![c] = label, ![w] = "check"]

Broadcast(c, label) ==
    pc' = [q \in Procs |-> IF q = c THEN label ELSE IF q \in Asleep THEN "check" ELSE pc[q]]

-----------------------------------------------------------------------------
(* A request.                                                              *)

(* Get, Enqueue and Generate look in the cache; a hit ends them.           *)
Miss(c) ==
    /\ pc[c] = "idle"
    /\ \E s \in Sources, o \in Ops :
        /\ cache[KeyOf(s)] = 0
        /\ job' = [job EXCEPT ![c] = KeyOf(s)] /\ op' = [op EXCEPT ![c] = o]
    /\ Goto(c, "missed")
    /\ UNCHANGED <<sources, files, queues, flights, active, life, flight, gone, owed>>

(* The caller has its answer and may ask again.                            *)
Forget(c) ==
    /\ job' = [job EXCEPT ![c] = None] /\ op' = [op EXCEPT ![c] = "get"]
    /\ gone' = gone \ {c}

(* A verdict that is still fresh answers the request.                      *)
KnownBad(c) ==
    /\ pc[c] = "missed" /\ job[c] \in negative
    /\ Goto(c, "idle") /\ Forget(c)
    /\ UNCHANGED <<sources, files, queues, flights, active, life, flight, owed>>

Unknown(c) ==
    /\ pc[c] = "missed" /\ job[c] \notin negative
    /\ Goto(c, IF op[c] = "generate" THEN "enter" ELSE "enqueue")
    /\ UNCHANGED <<sources, files, queues, flights, active, life, job, op, flight, gone, owed>>

EnqueueClosed(c) ==
    /\ pc[c] = "enqueue" /\ closed
    /\ Goto(c, "idle") /\ Forget(c)
    /\ UNCHANGED <<sources, files, queues, flights, active, life, flight, owed>>

(* Somebody has queued the key or is generating it.                        *)
EnqueueKnown(c) ==
    /\ pc[c] = "enqueue" /\ ~closed
    /\ job[c] \in queued \/ inflight[job[c]] # None
    /\ owed' = owed \cup {job[c]}
    /\ Goto(c, "idle") /\ Forget(c)
    /\ UNCHANGED <<sources, files, queues, flights, active, life, flight>>

(* A dropped job stays in the set that enqueue deduplicates by.            *)
Enqueue_Bug(c) ==
    /\ pc[c] = "enqueue" /\ ~closed
    /\ job[c] \notin queued /\ inflight[job[c]] = None
    /\ LET k    == job[c]
           drop == IF op[c] = "get" /\ Len(pageQ) >= PageQueueMax THEN {Head(pageQ)} ELSE {}
       IN  /\ IF op[c] = "cover"
              THEN coverQ' = Append(coverQ, k) /\ UNCHANGED pageQ
              ELSE /\ pageQ' = Append(IF drop = {} THEN pageQ ELSE Tail(pageQ), k)
                   /\ UNCHANGED coverQ
           /\ queued' = queued \cup {k}
           /\ owed' = (owed \ drop) \cup {k}
    /\ Signal(c, "idle") /\ Forget(c)
    /\ UNCHANGED <<sources, files, flights, active, life, flight>>

(* Covers are never dropped; a full page queue drops its oldest job.       *)
Enqueue(c) ==
    /\ pc[c] = "enqueue" /\ ~closed
    /\ job[c] \notin queued /\ inflight[job[c]] = None
    /\ LET k    == job[c]
           drop == IF op[c] = "get" /\ Len(pageQ) >= PageQueueMax THEN {Head(pageQ)} ELSE {}
       IN  /\ IF op[c] = "cover"
              THEN coverQ' = Append(coverQ, k) /\ UNCHANGED pageQ
              ELSE /\ pageQ' = Append(IF drop = {} THEN pageQ ELSE Tail(pageQ), k)
                   /\ UNCHANGED coverQ
           /\ queued' = (queued \ drop) \cup {k}
           /\ owed' = (owed \ drop) \cup {k}
    /\ Signal(c, "idle") /\ Forget(c)
    /\ UNCHANGED <<sources, files, flights, active, life, flight>>

(* Generate returns what its flight came to.                               *)
Return(c) ==
    /\ c \in Callers /\ pc[c] = "end"
    /\ Goto(c, "idle") /\ Forget(c)
    /\ outcome' = [outcome EXCEPT ![c] = "none"]
    /\ UNCHANGED <<sources, files, queues, flights, active, life, leader, picture, attempt, owed>>

-----------------------------------------------------------------------------
(* A worker.                                                               *)

Sleep(w) ==
    /\ pc[w] = "check" /\ ~closed /\ coverQ = <<>> /\ pageQ = <<>>
    /\ Goto(w, "asleep")
    /\ UNCHANGED <<sources, files, queues, flights, active, life, job, op, flight, gone, owed>>

Exit(w) ==
    /\ pc[w] = "check" /\ closed
    /\ Goto(w, "exit")
    /\ UNCHANGED <<sources, files, queues, flights, active, life, job, op, flight, gone, owed>>

(* The worker counts itself only when the work is done.                    *)
Take_Bug(w) ==
    /\ pc[w] = "check" /\ ~closed
    /\ \/ /\ coverQ # <<>>
          /\ job' = [job EXCEPT ![w] = Head(coverQ)] /\ coverQ' = Tail(coverQ) /\ UNCHANGED pageQ
       \/ /\ coverQ = <<>> /\ pageQ # <<>>
          /\ job' = [job EXCEPT ![w] = Head(pageQ)] /\ pageQ' = Tail(pageQ) /\ UNCHANGED coverQ
    /\ queued' = queued \ {job'[w]}
    /\ Goto(w, "enter")
    /\ UNCHANGED <<sources, files, flights, active, life, op, flight, gone, owed>>

(* takeLocked: covers first.                                               *)
Take(w) ==
    /\ pc[w] = "check" /\ ~closed
    /\ \/ /\ coverQ # <<>>
          /\ job' = [job EXCEPT ![w] = Head(coverQ)] /\ coverQ' = Tail(coverQ) /\ UNCHANGED pageQ
       \/ /\ coverQ = <<>> /\ pageQ # <<>>
          /\ job' = [job EXCEPT ![w] = Head(pageQ)] /\ pageQ' = Tail(pageQ) /\ UNCHANGED coverQ
    /\ queued' = queued \ {job'[w]}
    /\ active' = active + 1
    /\ Goto(w, "enter")
    /\ UNCHANGED <<sources, files, flights, life, op, flight, gone, owed>>

(* active never goes down.                                                 *)
Rest_Bug(w) ==
    /\ w \in Workers /\ pc[w] = "end"
    /\ job' = [job EXCEPT ![w] = None]
    /\ outcome' = [outcome EXCEPT ![w] = "none"]
    /\ Broadcast(w, "check")
    /\ UNCHANGED <<sources, files, queues, flights, active, life, op, leader, picture, attempt,
                   gone, owed>>

(* The turn is over: active goes down, and everybody asleep is told.       *)
Rest(w) ==
    /\ w \in Workers /\ pc[w] = "end"
    /\ active' = active - 1
    /\ job' = [job EXCEPT ![w] = None]
    /\ outcome' = [outcome EXCEPT ![w] = "none"]
    /\ Broadcast(w, "check")
    /\ UNCHANGED <<sources, files, queues, flights, life, op, leader, picture, attempt, gone,
                   owed>>

-----------------------------------------------------------------------------
(* singleflight.                                                           *)

FlightClosed(q) ==
    /\ pc[q] = "enter" /\ closed
    /\ outcome' = [outcome EXCEPT ![q] = "closed"]
    /\ Goto(q, "end")
    /\ UNCHANGED <<sources, files, queues, flights, active, life, job, op, leader, picture,
                   attempt, gone, owed>>

Follow(q) ==
    /\ pc[q] = "enter" /\ ~closed /\ inflight[job[q]] # None
    /\ leader' = [leader EXCEPT ![q] = inflight[job[q]]]
    /\ Goto(q, "follow")
    /\ UNCHANGED <<sources, files, queues, flights, active, life, job, op, outcome, picture,
                   attempt, gone, owed>>

(* Nobody asks whether the key is in flight.                               *)
Lead_Bug(q) ==
    /\ pc[q] = "enter" /\ ~closed
    /\ inflight' = [inflight EXCEPT ![job[q]] = q]
    /\ Goto(q, "permit")
    /\ UNCHANGED <<sources, files, queues, verdicts, held, active, life, job, op, flight, gone,
                   owed>>

Lead(q) ==
    /\ pc[q] = "enter" /\ ~closed /\ inflight[job[q]] = None
    /\ inflight' = [inflight EXCEPT ![job[q]] = q]
    /\ Goto(q, "permit")
    /\ UNCHANGED <<sources, files, queues, verdicts, held, active, life, job, op, flight, gone,
                   owed>>

(* A follower takes the leader's result, or its own context ends first.    *)
Told(q) ==
    /\ pc[q] = "follow" /\ outcome[q] # "none"
    /\ Goto(q, "end")
    /\ UNCHANGED <<sources, files, queues, flights, active, life, job, op, flight, gone, owed>>

GiveUp(q) ==
    /\ pc[q] = "follow" /\ Cancelled(q)
    /\ outcome' = [outcome EXCEPT ![q] = "cancelled"]
    /\ leader' = [leader EXCEPT ![q] = None]
    /\ Goto(q, "end")
    /\ UNCHANGED <<sources, files, queues, flights, active, life, job, op, picture, attempt, gone,
                   owed>>

(* acquireDecode, and the test of the context that produce begins with: a  *)
(* permit that is taken when the context is over is returned at once, with *)
(* what NoPermit ends with.                                                *)
TakePermit(q) ==
    /\ pc[q] = "permit" /\ held < Permits /\ ~Cancelled(q)
    /\ held' = held + 1
    /\ Goto(q, "read")
    /\ UNCHANGED <<sources, files, queues, inflight, verdicts, active, life, job, op, flight, gone,
                   owed>>

(* A leader without a permit returns, and leaves its flight behind.        *)
NoPermit_Bug(q) ==
    /\ pc[q] = "permit"
    /\ \/ Cancelled(q) /\ outcome' = [outcome EXCEPT ![q] = "cancelled"]
       \/ stopped /\ outcome' = [outcome EXCEPT ![q] = "closed"]
    /\ Goto(q, "end")
    /\ UNCHANGED <<sources, files, queues, flights, active, life, job, op, leader, picture,
                   attempt, gone, owed>>

NoPermit(q) ==
    /\ pc[q] = "permit"
    /\ \/ Cancelled(q) /\ outcome' = [outcome EXCEPT ![q] = "cancelled"]
       \/ stopped /\ outcome' = [outcome EXCEPT ![q] = "closed"]
    /\ Goto(q, "settle")
    /\ UNCHANGED <<sources, files, queues, flights, active, life, job, op, leader, picture,
                   attempt, gone, owed>>

(* produce returns, and its permit with it.                                *)
Produced(q, o) ==
    /\ outcome' = [outcome EXCEPT ![q] = o]
    /\ picture' = [picture EXCEPT ![q] = 0] /\ attempt' = [attempt EXCEPT ![q] = 0]
    /\ held' = held - 1
    /\ Goto(q, "settle")

(* What reading and decoding may come to.  The row of the index is read    *)
(* now, and the file is not compared with it: pages of a container that    *)
(* was replaced may be found where the old ones were, or not.  A read that *)
(* a cancellation ends may fail with an error of the reader's own, and any *)
(* read may fail half way.                                                 *)
ReadErrors(q) ==
    LET s == SourceOf(q)
    IN  {"failed", "unread"}
        \cup (IF <<s, disk[s]>> \in Broken THEN {"undecodable"} ELSE {})
        \cup (IF Cancelled(q) THEN {"cancelled", "undecodable"} ELSE {})
        \cup (IF s \notin Loose /\ disk[s] # indexed[s] THEN {"undecodable"} ELSE {})

ReadFails(q) ==
    /\ pc[q] = "read"
    /\ \E o \in ReadErrors(q) : Produced(q, o)
    /\ UNCHANGED <<sources, files, queues, inflight, verdicts, active, life, job, op, leader,
                   gone, owed>>

(* An attempt at publishing begins with MkdirAll.                          *)
MakeDir(q) ==
    /\ intact' = intact \cup {q}
    /\ attempt' = [attempt EXCEPT ![q] = @ + 1]
    /\ Goto(q, "temp")

Decode(q) ==
    /\ pc[q] = "read" /\ <<SourceOf(q), disk[SourceOf(q)]>> \notin Broken
    /\ picture' = [picture EXCEPT ![q] = disk[SourceOf(q)]]
    /\ MakeDir(q)
    /\ UNCHANGED <<sources, cache, strikes, queues, flights, active, life, job, op, leader, outcome,
                   gone, owed>>

MakeTemp(q) ==
    /\ pc[q] = "temp" /\ q \in intact
    /\ Goto(q, "rename")
    /\ UNCHANGED <<sources, files, queues, flights, active, life, job, op, flight, gone, owed>>

Rename(q) ==
    /\ pc[q] = "rename" /\ q \in intact
    /\ cache' = [cache EXCEPT ![job[q]] = picture[q]]
    /\ intact' = intact \ {q}
    /\ Produced(q, "ok")
    /\ UNCHANGED <<sources, strikes, queues, inflight, verdicts, active, life, job, op, leader,
                   gone, owed>>

(* The directory or the temporary file is gone: start over, or this was    *)
(* the last attempt.                                                       *)
Vanished(q) == pc[q] \in {"temp", "rename"} /\ q \notin intact

TryAgain(q) ==
    /\ Vanished(q) /\ attempt[q] < Attempts
    /\ MakeDir(q)
    /\ UNCHANGED <<sources, cache, strikes, queues, flights, active, life, job, op, leader, outcome,
                   picture, gone, owed>>

LastAttempt(q) ==
    /\ Vanished(q) /\ attempt[q] = Attempts
    /\ Produced(q, "vanished")
    /\ UNCHANGED <<sources, files, queues, inflight, verdicts, active, life, job, op, leader,
                   gone, owed>>

(* The disk is full, or cannot be written.                                 *)
PublishFails(q) ==
    /\ pc[q] \in {"temp", "rename"}
    /\ intact' = intact \ {q}
    /\ Produced(q, "failed")
    /\ UNCHANGED <<sources, cache, strikes, queues, inflight, verdicts, active, life, job,
                   op, leader, gone, owed>>

(* The verdict of the flight replaces what was known of the key.           *)
Remember(q) ==
    /\ negative' = negative \cup {job[q]}
    /\ unread' = IF outcome[q] = "unread" THEN unread \cup {job[q]} ELSE unread \ {job[q]}

(* A read that a cancellation ended is a verdict like any other.           *)
Settle_Bug(q) ==
    /\ pc[q] = "settle"
    /\ inflight' = [inflight EXCEPT ![job[q]] = None]
    /\ IF outcome[q] \in Verdicts THEN Remember(q) ELSE UNCHANGED verdicts
    /\ owed' = owed \ {job[q]}
    /\ Goto(q, "answer")
    /\ UNCHANGED <<sources, files, queues, held, active, life, job, op, flight, gone>>

(* The flight leaves the map.  A verdict is remembered, unless the context *)
(* is over.                                                                *)
Settle(q) ==
    /\ pc[q] = "settle"
    /\ inflight' = [inflight EXCEPT ![job[q]] = None]
    /\ IF outcome[q] \in Verdicts /\ ~Cancelled(q) THEN Remember(q) ELSE UNCHANGED verdicts
    /\ owed' = owed \ {job[q]}
    /\ Goto(q, "answer")
    /\ UNCHANGED <<sources, files, queues, held, active, life, job, op, flight, gone>>

(* close(f.done): the followers can read the result.                       *)
Answer(q) ==
    /\ pc[q] = "answer"
    /\ outcome' = [f \in Procs |-> IF leader[f] = q THEN outcome[q] ELSE outcome[f]]
    /\ leader' = [f \in Procs |-> IF leader[f] = q THEN None ELSE leader[f]]
    /\ Goto(q, "end")
    /\ UNCHANGED <<sources, files, queues, flights, active, life, job, op, picture, attempt, gone,
                   owed>>

-----------------------------------------------------------------------------
(* Close, and the context that New was given, which a signal ends.         *)

CtxEnds ==
    /\ ~ctxDone
    /\ ctxDone' = TRUE
    /\ UNCHANGED <<sources, files, queues, flights, active, closed, stopped, closing, turn, flight,
                   gone, owed>>

(* Close does not wake the workers.                                        *)
CloseMark_Bug ==
    /\ closing = "open"
    /\ closing' = "marked" /\ closed' = TRUE
    /\ coverQ' = <<>> /\ pageQ' = <<>> /\ queued' = {} /\ owed' = {}
    /\ UNCHANGED <<sources, files, flights, active, ctxDone, stopped, turn, flight, gone>>

CloseMark ==
    /\ closing = "open"
    /\ closing' = "marked" /\ closed' = TRUE
    /\ coverQ' = <<>> /\ pageQ' = <<>> /\ queued' = {} /\ owed' = {}
    /\ Broadcast(None, "end")
    /\ UNCHANGED <<sources, files, flights, active, ctxDone, stopped, job, op, flight, gone>>

CloseStop ==
    /\ closing = "marked"
    /\ closing' = "waiting" /\ stopped' = TRUE /\ ctxDone' = TRUE
    /\ UNCHANGED <<sources, files, queues, flights, active, closed, turn, flight, gone, owed>>

CloseReturn ==
    /\ closing = "waiting" /\ \A w \in Workers : pc[w] = "exit"
    /\ closing' = "returned"
    /\ UNCHANGED <<sources, files, queues, flights, active, closed, ctxDone, stopped, turn, flight,
                   gone, owed>>

(* What happens around the service.                                        *)

(* A file is replaced, and the index learns of it.                         *)
Replace(s) ==
    /\ disk[s] < MaxVersion
    /\ disk' = [disk EXCEPT ![s] = @ + 1]
    /\ UNCHANGED <<indexed, files, queues, flights, active, life, turn, flight, gone, owed>>

Rescan(s) ==
    /\ indexed[s] # disk[s]
    /\ indexed' = [indexed EXCEPT ![s] = disk[s]]
    /\ UNCHANGED <<disk, files, queues, flights, active, life, turn, flight, gone, owed>>

(* A fan-out directory is removed with what is in it: a purge, or rm -rf.  *)
Strike(k) ==
    /\ strikes < MaxStrikes
    /\ cache[k] # 0 \/ \E q \in intact : job[q] = k
    /\ strikes' = strikes + 1
    /\ cache' = [cache EXCEPT ![k] = 0]
    /\ intact' = {q \in intact : job[q] # k}
    /\ UNCHANGED <<sources, queues, flights, active, life, turn, flight, gone, owed>>

(* A purge ends by forgetting the verdicts; a verdict is forgotten when it *)
(* is ten minutes old.                                                     *)
ForgetNegatives ==
    /\ negative # {}
    /\ negative' = {} /\ unread' = {}
    /\ UNCHANGED <<sources, files, queues, inflight, held, active, life, turn, flight, gone, owed>>

Expire(k) ==
    /\ k \in negative
    /\ negative' = negative \ {k} /\ unread' = unread \ {k}
    /\ UNCHANGED <<sources, files, queues, inflight, held, active, life, turn, flight, gone, owed>>

(* The context of a caller of Generate ends.                               *)
Abandon(c) ==
    /\ pc[c] # "idle" /\ op[c] = "generate" /\ c \notin gone
    /\ gone' = gone \cup {c}
    /\ UNCHANGED <<sources, files, queues, flights, active, life, turn, flight, owed>>

-----------------------------------------------------------------------------
FlightStep(q) ==
    \/ FlightClosed(q) \/ Follow(q) \/ Lead(q) \/ Told(q) \/ GiveUp(q)
    \/ TakePermit(q) \/ NoPermit(q) \/ ReadFails(q) \/ Decode(q)
    \/ MakeTemp(q) \/ Rename(q) \/ TryAgain(q) \/ LastAttempt(q) \/ PublishFails(q)
    \/ Settle(q) \/ Answer(q)

CallerStep(c) ==
    \/ KnownBad(c) \/ Unknown(c) \/ EnqueueClosed(c) \/ EnqueueKnown(c) \/ Enqueue(c) \/ Return(c)

WorkerStep(w) == Sleep(w) \/ Exit(w) \/ Take(w) \/ Rest(w)

Step(q) ==
    \/ FlightStep(q)
    \/ q \in Callers /\ CallerStep(q)
    \/ q \in Workers /\ WorkerStep(q)

CloseStep == CloseStop \/ CloseReturn

Surroundings ==
    \/ CtxEnds \/ CloseMark \/ ForgetNegatives
    \/ \E s \in Sources : Replace(s) \/ Rescan(s)
    \/ \E k \in Keys : Strike(k) \/ Expire(k)
    \/ \E c \in Callers : Miss(c) \/ Abandon(c)

Next == (\E q \in Procs : Step(q)) \/ CloseStep \/ Surroundings

(* Goroutines are scheduled and a read takes a finite time.  A permit is a *)
(* place in a channel, which serves its waiters in order, hence the strong *)
(* fairness; a goroutine that waits for nothing else can always go on.     *)
Fairness == WF_vars(CloseStep) /\ \A q \in Procs : SF_vars(Step(q))

Spec     == Init /\ [][Next]_vars
FairSpec == Spec /\ Fairness

-----------------------------------------------------------------------------
(* Properties.                                                             *)

(* singleflight: one goroutine at a time generates a key, whether it was   *)
(* queued, asked for directly, or asked for twice.                         *)
OneFlightPerKey ==
    \A q, r \in Procs : pc[q] \in Flying /\ pc[r] \in Flying /\ job[q] = job[r] => q = r

(* The set that enqueue deduplicates by is the contents of the two queues, *)
(* after takes, drops and Close; a job is queued once; the page queue is   *)
(* bounded.                                                                *)
QueuedIsQueued ==
    /\ queued = ToSet(coverQ) \cup ToSet(pageQ)
    /\ Cardinality(queued) = Len(coverQ) + Len(pageQ)
    /\ Len(pageQ) <= PageQueueMax

(* The comment of Stats: when nothing is queued, active or in flight, all  *)
(* that a request was told is queued has been dealt with, and no temporary *)
(* file is open.                                                           *)
Idle == coverQ = <<>> /\ pageQ = <<>> /\ active = 0 /\ \A k \in Keys : inflight[k] = None

IdleMeansDone == Idle => owed = {} /\ \A q \in Procs : pc[q] # "rename"

(* Every variable has its type, the queues hold what enqueue believes they *)
(* hold, and an idle service has nothing left to do.                       *)
QueuesAgree == TypeOK /\ QueuedIsQueued /\ IdleMeansDone

(* A thumbnail that a request for a scanned page would be served is made   *)
(* of the page as it is, whatever was replaced while it was queued, read   *)
(* or published: the content version in the key.                           *)
Scanned(s) == indexed[s] = disk[s]

VersionedIsCurrent ==
    \A s \in Sources \ Loose :
        Scanned(s) /\ cache[KeyOf(s)] # 0 => cache[KeyOf(s)] = disk[s]

(* A page is called undecodable only if it is, or if a read of it failed   *)
(* half way: no verdict comes from a read that was cancelled, nor from a   *)
(* file that was replaced meanwhile.                                       *)
VerdictIsOfThePicture ==
    \A s \in Sources \ Loose :
        Scanned(s) /\ KeyOf(s) \in negative \ unread => <<s, disk[s]>> \in Broken

(* Neither a picture nor a verdict on one outlives the page it was made of.*)
PicturesAreCurrent == VersionedIsCurrent /\ VerdictIsOfThePicture

(* No wake-up is lost: while there is a job, a worker is up, and when the  *)
(* service is closed none sleeps on.                                       *)
NobodySleepsOnWork ==
    /\ coverQ # <<>> \/ pageQ # <<>> => Asleep # Workers
    /\ closed => Asleep = {}

(* Every request returns: who leads a flight tells its followers, also     *)
(* when it gets no permit, and a permit comes back.                        *)
RequestsReturn == \A c \in Callers : pc[c] # "idle" ~> pc[c] = "idle"

(* Close returns: every worker leaves, from its sleep, from another's      *)
(* flight or from the queue for a permit.                                  *)
CloseReturns == closing = "marked" ~> closing = "returned"

(* Everybody who waits for the service gets to go on: requests, followers  *)
(* of a flight, workers and Close.                                         *)
EverybodyReturns == RequestsReturn /\ CloseReturns

(* The package comment of thumbs.go: "A changed source file therefore      *)
(* produces a different key, a different path, and a miss."  False of a    *)
(* loose cover file, whose key has no content version.                     *)
ChangedSourceMisses ==
    \A s \in Sources : Scanned(s) /\ cache[KeyOf(s)] # 0 => cache[KeyOf(s)] = disk[s]

(* The comment of ErrUndecodable: "the source picture cannot be turned     *)
(* into a thumbnail".  False of a read that fails half way: readCapped     *)
(* calls every error but a cancellation a verdict, and it is remembered.   *)
UndecodableIsBroken ==
    \A s \in Sources \ Loose :
        Scanned(s) /\ KeyOf(s) \in negative => <<s, disk[s]>> \in Broken

(* The package comment of thumbs.go: concurrent misses for one key         *)
(* coalesce into exactly one decode.  False for a miss that reaches        *)
(* singleflight when the flight it overlapped with has landed.             *)
CachedIsNotRegenerated == \A q \in Procs : pc[q] = "read" => cache[job[q]] = 0

(* Who follows a flight ends with a cancellation only if its own context   *)
(* ended.  False when a caller of Generate that leads is cancelled.        *)
OwnCancellation == \A q \in Procs : pc[q] = "end" /\ outcome[q] = "cancelled" => Cancelled(q)
=============================================================================
