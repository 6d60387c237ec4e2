--------------------------- MODULE ServicesProofs ---------------------------
(***************************************************************************)
(* When each series was first seen, for any collection and any number of   *)
(* runs; the readers' data, for any books, requests and options; the list  *)
(* of roots, for any file and any requests, edits and restarts, and the    *)
(* splice of the file's text, for any text; and reads of an inner archive, *)
(* for any lengths and any order of them.                                  *)
(***************************************************************************)
EXTENDS FirstSeen, RootsAdmin, RootsFile, UserData, NestedReader,
        FiniteSetTheorems, SequenceTheorems, NaturalsInduction, WellFoundedInduction, TLAPS

(* The marker is older than the run under way, which bootstraps while      *)
(* there is none, and nothing on the disk arrived in the future.           *)
Ordered ==
  /\ marker <= seenClock
  /\ \A s \in DOMAIN disk : disk[s].arrived <= seenClock
  /\ run # NoRun =>
       /\ marker < run.at /\ run.at <= seenClock
       /\ run.bootstrap = (marker = 0) /\ run.done \subseteq run.wanted

(* The sightings in the run's hands wait for the flush.  In a bootstrap    *)
(* none is later than its files.                                           *)
Carries ==
  /\ run.phase # "flush" => batch = <<>>
  /\ \A s \in DOMAIN batch : marker = 0 /\ disk[s].mtime > 0 => batch[s] <= disk[s].mtime

(* A run that records, and to which nothing has happened so far, has all   *)
(* the series of the roots that it is done with, those that were there     *)
(* when it began.                                                          *)
Sound == run # NoRun /\ run.records /\ ~ run.cancelled /\ ~ run.failed /\ run.bad = {}
NoneIsMissed ==
  Sound =>
    \A s \in DOMAIN disk :
      RootOf[s] \in run.done /\ Asked(s) /\ disk[s].arrived < run.at =>
        s \in DOMAIN seen \cup DOMAIN batch

(* Once the bootstrap is completed, what has not been seen is new.         *)
UnseenIsNew == marker > 0 => \A s \in DOMAIN disk \ DOMAIN seen : disk[s].arrived >= marker

SeenInv == seenTypeOK /\ Ordered /\ Carries /\ NoneIsMissed /\ UnseenIsNew /\ OldIsNotNew

(* The collection that is there before the first scan. *)
LEMMA SeenInit ==
  ASSUME seenInit PROVE SeenInv
  <1> USE DEF seenInit
  <1>1. PICK S \in SUBSET Series : \E m \in {0, 1} : disk = [s \in S |-> [mtime |-> m, arrived |-> 1]]
    OBVIOUS
  <1>2. PICK m \in {0, 1} : disk = [s \in S |-> [mtime |-> m, arrived |-> 1]]
    BY <1>1
  <1>3. seenTypeOK
    BY <1>2 DEF seenTypeOK
  <1>4. Ordered
    BY <1>2 DEF Ordered, NoRun
  <1>5. Carries /\ NoneIsMissed /\ UnseenIsNew /\ OldIsNotNew
    BY DEF Carries, NoneIsMissed, Sound, UnseenIsNew, OldIsNotNew, NoRun
  <1>6. QED
    BY <1>3, <1>4, <1>5 DEF SeenInv

\* Every step keeps the types.
LEMMA SeenTypes ==
  ASSUME seenTypeOK, [seenNext]_seenVars PROVE seenTypeOK'
  <1> USE FirstSeenAssumption DEF seenTypeOK
  <1>1. ASSUME NEW wanted \in SUBSET Roots, NEW only \in SUBSET Series, BeginSeen(wanted, only)
        PROVE  seenTypeOK'
    <2>1. run' \in Runs
      BY <1>1 DEF BeginSeen, Runs, FirstSeenBootstrapNeeded
    <2>2. DOMAIN batch' = {} /\ batch' = <<>>
      BY <1>1 DEF BeginSeen
    <2>3. seenClock' \in Nat /\ UNCHANGED <<disk, mounted, seen, marker>>
      BY <1>1 DEF BeginSeen, seendb
    <2>4. QED
      BY <2>1, <2>2, <2>3
  <1>2. ASSUME NEW r \in Roots, Unreachable(r) PROVE seenTypeOK'
    <2>1. run \in Runs
      BY <1>2 DEF Unreachable, NoRun
    <2>2. run' \in Runs
      BY <1>2, <2>1 DEF Unreachable, Runs
    <2>3. QED
      BY <1>2, <2>2 DEF Unreachable, outside, seendb
  <1>3. ASSUME NEW r \in Roots, Mount(r) PROVE seenTypeOK'
    BY <1>3 DEF Mount, seendb
  <1>4. ASSUME NEW s \in Series, Arrive(s) PROVE seenTypeOK'
    <2>1. PICK m \in {1, seenClock + 1} :
            disk' = [x \in DOMAIN disk \cup {s} |->
                       IF x = s THEN [mtime |-> m, arrived |-> seenClock + 1] ELSE disk[x]]
      BY <1>4 DEF Arrive
    <2>2. DOMAIN disk' = DOMAIN disk \cup {s} /\ disk' \in [DOMAIN disk' -> [mtime : Nat, arrived : Nat]]
      BY <2>1
    <2>3. QED
      BY <1>4, <2>2 DEF Arrive, seendb
  <1>5. ASSUME NEW r \in Roots, NEW listed \in SUBSET DOMAIN disk, NEW outcome, ScanRoot(r, listed, outcome)
        PROVE  seenTypeOK'
    <2>1. run \in Runs
      BY <1>5 DEF ScanRoot, NoRun
    <2>2. run' \in Runs
      BY <1>5, <2>1 DEF ScanRoot, Runs
    <2>3. \A s \in DOMAIN disk : StampOf(s) \in Nat
      BY <2>1 DEF StampOf, Earliest, Runs
    <2>4. batch' = IF run.records THEN [s \in listed |-> StampOf(s)] ELSE <<>>
      BY <1>5 DEF ScanRoot
    <2>5. DOMAIN batch' \subseteq DOMAIN disk /\ batch' \in [DOMAIN batch' -> Nat]
      BY <2>3, <2>4
    <2>6. QED
      BY <1>5, <2>2, <2>5 DEF ScanRoot, outside, seendb
  <1>6. CASE Flush
    <2>1. run \in Runs
      BY <1>6 DEF Flush, NoRun
    <2>2. Cardinality(DOMAIN batch) \in Nat
      <3>1. IsFiniteSet(DOMAIN batch)
        BY FS_Subset DEF Series
      <3>2. QED
        BY <3>1, FS_CardinalityType
    <2>3. run' \in Runs
      <3>1. PICK n \in Nat : n = run.recorded + Cardinality(DOMAIN batch)
        BY <2>1, <2>2 DEF Runs
      <3>2. run' = [run EXCEPT !.phase = "roots", !.recorded = n]
        BY <1>6, <3>1 DEF Flush
      <3>3. \A m \in Nat : [run EXCEPT !.phase = "roots", !.recorded = m] \in Runs
        BY <2>1 DEF Runs
      <3>4. QED
        BY <3>2, <3>3
    <2>4. DOMAIN seen' = DOMAIN seen \cup DOMAIN batch /\ seen' \in [DOMAIN seen' -> Nat]
      BY <1>6 DEF Flush, Insert
    <2>5. DOMAIN batch' = {} /\ batch' = <<>>
      BY <1>6 DEF Flush
    <2>6. QED
      BY <1>6, <2>3, <2>4, <2>5 DEF Flush, outside
  <1>7. CASE FlushFails
    <2>1. run \in Runs
      BY <1>7 DEF FlushFails, NoRun
    <2>2. run' \in Runs
      BY <1>7, <2>1 DEF FlushFails, Runs
    <2>3. DOMAIN batch' = {} /\ batch' = <<>>
      BY <1>7 DEF FlushFails
    <2>4. QED
      BY <1>7, <2>2, <2>3 DEF FlushFails, outside, seendb
  <1>8. CASE Cancel
    <2>1. run \in Runs
      BY <1>8 DEF Cancel, NoRun
    <2>2. run' \in Runs
      BY <1>8, <2>1 DEF Cancel, Runs
    <2>3. QED
      BY <1>8, <2>2 DEF Cancel, outside, seendb
  <1>9. CASE Crash
    BY <1>9 DEF Crash, outside, seendb
  <1>10. ASSUME NEW written \in BOOLEAN, FinishSeen(written) PROVE seenTypeOK'
    <2>1. run \in Runs
      BY <1>10 DEF FinishSeen, NoRun
    <2>2. run.at \in Nat
      BY <2>1 DEF Runs
    <2>3. QED
      BY <1>10, <2>2 DEF FinishSeen, outside
  <1>11. CASE UNCHANGED seenVars
    BY <1>11 DEF seenVars, outside, seendb
  <1>12. ASSUME BeginSeen(Roots, {}) PROVE seenTypeOK'
    <2>1. Roots \in SUBSET Roots /\ {} \in SUBSET Series
      OBVIOUS
    <2> HIDE DEF seenTypeOK
    <2>2. QED
      BY <1>1, <1>12, <2>1
  <1>13. ASSUME NEW r \in Roots, BeginSeen({r}, {}) PROVE seenTypeOK'
    <2>1. {r} \in SUBSET Roots /\ {} \in SUBSET Series
      OBVIOUS
    <2> HIDE DEF seenTypeOK
    <2>2. QED
      BY <1>1, <1>13, <2>1
  <1>14. ASSUME NEW s \in Series, BeginSeen({RootOf[s]}, {s}) PROVE seenTypeOK'
    <2>1. {RootOf[s]} \in SUBSET Roots /\ {s} \in SUBSET Series
      BY DEF Roots
    <2> HIDE DEF seenTypeOK
    <2>2. QED
      BY <1>1, <1>14, <2>1
  <1> HIDE DEF seenTypeOK
  <1>15. QED
    BY <1>2, <1>3, <1>4, <1>5, <1>6, <1>7, <1>8, <1>9, <1>10, <1>11, <1>12, <1>13, <1>14 DEF seenNext

(* What a step of the run, the reader or the operator leaves of the rest.  *)
LEMMA SeenStep ==
  ASSUME SeenInv, [seenNext]_seenVars PROVE SeenInv'
  <1> USE FirstSeenAssumption DEF SeenInv
  <1>0. seenTypeOK'
    BY SeenTypes
  <1> SUFFICES Ordered' /\ Carries' /\ NoneIsMissed' /\ UnseenIsNew' /\ OldIsNotNew'
    BY <1>0
  <1>a. run # NoRun => run \in Runs
    BY DEF seenTypeOK
  <1>b. run = NoRun \/ run.phase # "flush" => DOMAIN batch = {}
    BY DEF Carries, NoRun
  <1>1. ASSUME NEW wanted \in SUBSET Roots, NEW only \in SUBSET Series, BeginSeen(wanted, only)
        PROVE  Ordered' /\ Carries' /\ NoneIsMissed' /\ UnseenIsNew' /\ OldIsNotNew'
    <2>1. /\ seenClock' = seenClock + 1 /\ UNCHANGED <<disk, seen, marker>> /\ batch' = <<>>
          /\ run'.phase = "roots" /\ run'.at = seenClock + 1 /\ run'.done = {}
          /\ run'.bootstrap = (marker = 0)
      BY <1>1 DEF BeginSeen, seendb, FirstSeenBootstrapNeeded
    <2>2. Ordered'
      BY <2>1 DEF Ordered, seenTypeOK
    <2>3. Carries' /\ NoneIsMissed'
      BY <2>1 DEF Carries, NoneIsMissed
    <2>4. UnseenIsNew' /\ OldIsNotNew'
      BY <2>1 DEF UnseenIsNew, OldIsNotNew
    <2>5. QED
      BY <2>2, <2>3, <2>4
  <1>2. ASSUME NEW r \in Roots, Unreachable(r)
        PROVE  Ordered' /\ Carries' /\ NoneIsMissed' /\ UnseenIsNew' /\ OldIsNotNew'
    <2>1. run \in Runs /\ UNCHANGED <<seenClock, disk, seen, marker, batch>>
      BY <1>2, <1>a DEF Unreachable, NoRun, outside, seendb
    <2>2. /\ run'.phase = run.phase /\ run'.at = run.at /\ run'.bootstrap = run.bootstrap
          /\ run'.done = run.done \cup {r} /\ run'.wanted = run.wanted /\ run'.bad # {}
      BY <1>2, <2>1 DEF Unreachable, Runs
    <2>3. r \in run.wanted
      BY <1>2 DEF Unreachable, Next1
    <2>4. Ordered'
      BY <1>2, <2>1, <2>2, <2>3 DEF Ordered, Unreachable, NoRun
    <2>5. Carries' /\ NoneIsMissed'
      BY <2>1, <2>2 DEF Carries, NoneIsMissed, Sound
    <2>6. UnseenIsNew' /\ OldIsNotNew'
      BY <2>1 DEF UnseenIsNew, OldIsNotNew
    <2>7. QED
      BY <2>4, <2>5, <2>6
  <1>3. ASSUME NEW r \in Roots, Mount(r)
        PROVE  Ordered' /\ Carries' /\ NoneIsMissed' /\ UnseenIsNew' /\ OldIsNotNew'
    BY <1>3 DEF Mount, seendb, Ordered, Carries, NoneIsMissed, Sound, Asked, UnseenIsNew, OldIsNotNew
  <1>4. ASSUME NEW s \in Series, Arrive(s)
        PROVE  Ordered' /\ Carries' /\ NoneIsMissed' /\ UnseenIsNew' /\ OldIsNotNew'
    <2>1. /\ DOMAIN disk' = DOMAIN disk \cup {s} /\ s \notin DOMAIN disk
          /\ \A x \in DOMAIN disk : disk'[x] = disk[x]
          /\ disk'[s].arrived = seenClock + 1
      BY <1>4 DEF Arrive
    <2>2. seenClock' = seenClock + 1 /\ UNCHANGED <<seen, marker, run, batch>>
      BY <1>4 DEF Arrive, seendb
    <2>3. Ordered'
      BY <2>1, <2>2, <1>a DEF Ordered, seenTypeOK, Runs
    <2>4. Carries'
      BY <2>1, <2>2 DEF Carries, seenTypeOK
    <2>5. NoneIsMissed'
      <3>1. Sound' => Sound /\ seenClock + 1 > run.at
        BY <2>2, <1>a DEF Sound, Ordered, seenTypeOK, Runs
      <3>2. QED
        BY <2>1, <2>2, <3>1, <1>a DEF NoneIsMissed, Asked, Runs, Sound, seenTypeOK
    <2>6. UnseenIsNew' /\ OldIsNotNew'
      BY <2>1, <2>2 DEF UnseenIsNew, OldIsNotNew, Ordered, seenTypeOK
    <2>7. QED
      BY <2>3, <2>4, <2>5, <2>6
  <1>5. ASSUME NEW r \in Roots, NEW listed \in SUBSET DOMAIN disk,
               NEW outcome \in {"ok", "failed", "cancelled"}, ScanRoot(r, listed, outcome)
        PROVE  Ordered' /\ Carries' /\ NoneIsMissed' /\ UnseenIsNew' /\ OldIsNotNew'
    <2>1. run \in Runs /\ UNCHANGED <<seenClock, disk, seen, marker>> /\ DOMAIN batch = {}
      BY <1>5, <1>a, <1>b DEF ScanRoot, NoRun, outside, seendb
    <2>2. /\ run'.phase = "flush" /\ run'.at = run.at /\ run'.bootstrap = run.bootstrap
          /\ run'.done = run.done \cup {r} /\ run'.wanted = run.wanted /\ run'.only = run.only
          /\ run'.records = run.records /\ run'.failed = run.failed
          /\ run'.bad = (IF outcome = "failed" THEN run.bad \cup {r} ELSE run.bad)
          /\ run'.cancelled = (outcome = "cancelled") /\ ~ run.cancelled
      BY <1>5, <2>1 DEF ScanRoot, Runs
    <2>3. r \in run.wanted /\ run # NoRun /\ run' # NoRun
      <3>1. r \in run.wanted /\ run.phase = "roots"
        BY <1>5 DEF ScanRoot, Next1
      <3>2. QED
        BY <2>2, <3>1 DEF NoRun
    <2>4. Ordered'
      BY <2>1, <2>2, <2>3 DEF Ordered
    <2>5. batch' = IF run.records THEN [s \in listed |-> StampOf(s)] ELSE <<>>
      BY <1>5 DEF ScanRoot
    <2>6. Carries'
      <3>1. ASSUME NEW s \in DOMAIN batch', marker = 0, disk[s].mtime > 0
            PROVE  batch'[s] <= disk[s].mtime
        <4>1. s \in listed /\ batch'[s] = StampOf(s)
          BY <2>5, <3>1
        <4>2. run.bootstrap /\ run.at \in Nat /\ disk[s].mtime \in Nat
          BY <2>1, <2>3, <3>1, <4>1 DEF Ordered, Runs, seenTypeOK
        <4>3. QED
          BY <3>1, <4>1, <4>2 DEF StampOf, Earliest
      <3>2. QED
        BY <2>1, <2>2, <3>1 DEF Carries
    <2>7. NoneIsMissed'
      <3>1. ASSUME Sound', NEW s \in DOMAIN disk, RootOf[s] \in run'.done, Asked(s)', disk[s].arrived < run.at
            PROVE  s \in DOMAIN seen \cup DOMAIN batch'
        <4>1. Sound /\ outcome = "ok" /\ run.records /\ Asked(s)
          BY <2>2, <2>3, <3>1 DEF Sound, Asked
        <4>2. CASE RootOf[s] = r
          <5>1. s \in listed
            BY <1>5, <4>1, <4>2 DEF ScanRoot
          <5>2. QED
            BY <2>5, <4>1, <5>1
        <4>3. CASE RootOf[s] \in run.done
          BY <2>1, <3>1, <4>1, <4>3 DEF NoneIsMissed
        <4>4. QED
          BY <2>2, <3>1, <4>2, <4>3
      <3>2. QED
        BY <2>1, <2>2, <3>1 DEF NoneIsMissed
    <2>8. UnseenIsNew' /\ OldIsNotNew'
      BY <2>1 DEF UnseenIsNew, OldIsNotNew
    <2>9. QED
      BY <2>4, <2>6, <2>7, <2>8
  <1>6. CASE Flush
    <2>1. run \in Runs /\ run # NoRun /\ UNCHANGED <<seenClock, disk, marker>> /\ DOMAIN batch' = {} /\ batch' = <<>>
      BY <1>6, <1>a DEF Flush, NoRun, outside
    <2>2. /\ run'.phase = "roots" /\ run'.at = run.at /\ run'.bootstrap = run.bootstrap
          /\ run'.done = run.done /\ run'.wanted = run.wanted /\ run'.only = run.only
          /\ run'.records = run.records /\ run'.failed = run.failed
          /\ run'.bad = run.bad /\ run'.cancelled = run.cancelled
      BY <1>6, <2>1 DEF Flush, Runs
    <2>3. /\ DOMAIN seen' = DOMAIN seen \cup DOMAIN batch
          /\ \A s \in DOMAIN seen : seen'[s] = seen[s]
          /\ \A s \in DOMAIN batch \ DOMAIN seen : seen'[s] = batch[s]
      BY <1>6 DEF Flush, Insert
    <2>4. Ordered'
      BY <2>1, <2>2 DEF Ordered
    <2>5. Carries'
      BY <2>1, <2>2 DEF Carries
    <2>6. NoneIsMissed'
      BY <2>1, <2>2, <2>3 DEF NoneIsMissed, Sound, Asked
    <2>7. UnseenIsNew'
      BY <2>1, <2>3 DEF UnseenIsNew
    <2>8. OldIsNotNew'
      <3>1. ASSUME NEW s \in DOMAIN seen', seen'[s] > disk[s].mtime, disk[s].mtime > 0
            PROVE  marker > 0 /\ disk[s].arrived >= marker
        <4>1. CASE s \in DOMAIN seen
          BY <2>3, <3>1, <4>1 DEF OldIsNotNew
        <4>2. CASE s \in DOMAIN batch \ DOMAIN seen
          <5>1. s \in DOMAIN disk /\ batch[s] \in Nat /\ disk[s].mtime \in Nat /\ marker \in Nat
            BY <4>2 DEF seenTypeOK
          <5>2. seen'[s] = batch[s]
            BY <2>3, <4>2
          <5>3. marker > 0
            BY <3>1, <4>2, <5>1, <5>2 DEF Carries
          <5>4. QED
            BY <4>2, <5>1, <5>3 DEF UnseenIsNew
        <4>3. QED
          BY <2>3, <4>1, <4>2
      <3>2. QED
        BY <2>1, <3>1 DEF OldIsNotNew
    <2>9. QED
      BY <2>4, <2>5, <2>6, <2>7, <2>8
  <1>7. CASE FlushFails
    <2>1. run \in Runs /\ UNCHANGED <<seenClock, disk, seen, marker>> /\ DOMAIN batch' = {} /\ batch' = <<>>
      BY <1>7, <1>a DEF FlushFails, NoRun, outside, seendb
    <2>2. /\ run'.phase = "roots" /\ run'.at = run.at /\ run'.bootstrap = run.bootstrap
          /\ run'.done = run.done /\ run'.wanted = run.wanted /\ run'.failed
      BY <1>7, <2>1 DEF FlushFails, Runs
    <2>3. Ordered'
      BY <1>7, <2>1, <2>2 DEF Ordered, FlushFails, NoRun
    <2>4. Carries' /\ NoneIsMissed'
      BY <2>1, <2>2 DEF Carries, NoneIsMissed, Sound
    <2>5. UnseenIsNew' /\ OldIsNotNew'
      BY <2>1 DEF UnseenIsNew, OldIsNotNew
    <2>6. QED
      BY <2>3, <2>4, <2>5
  <1>8. CASE Cancel
    <2>1. run \in Runs /\ UNCHANGED <<seenClock, disk, seen, marker, batch>>
      BY <1>8, <1>a DEF Cancel, NoRun, outside, seendb
    <2>2. /\ run'.phase = run.phase /\ run'.at = run.at /\ run'.bootstrap = run.bootstrap
          /\ run'.done = run.done /\ run'.wanted = run.wanted /\ run'.cancelled
      BY <1>8, <2>1 DEF Cancel, Runs
    <2>3. Ordered'
      BY <1>8, <2>1, <2>2 DEF Ordered, Cancel, NoRun
    <2>4. Carries' /\ NoneIsMissed'
      BY <2>1, <2>2 DEF Carries, NoneIsMissed, Sound
    <2>5. UnseenIsNew' /\ OldIsNotNew'
      BY <2>1 DEF UnseenIsNew, OldIsNotNew
    <2>6. QED
      BY <2>3, <2>4, <2>5
  <1>9. CASE Crash
    <2>1. UNCHANGED <<seenClock, disk, seen, marker>> /\ run' = NoRun /\ batch' = <<>> /\ DOMAIN batch' = {}
      BY <1>9 DEF Crash, outside, seendb
    <2>2. QED
      BY <2>1 DEF Ordered, Carries, NoneIsMissed, Sound, UnseenIsNew, OldIsNotNew
  <1>10. ASSUME NEW written \in BOOLEAN, FinishSeen(written)
         PROVE  Ordered' /\ Carries' /\ NoneIsMissed' /\ UnseenIsNew' /\ OldIsNotNew'
    <2>1. run \in Runs /\ run # NoRun /\ UNCHANGED <<seenClock, disk, seen, batch>> /\ run' = NoRun /\ DOMAIN batch = {}
      BY <1>10, <1>a, <1>b DEF FinishSeen, NoRun, outside
    <2>2. Carries' /\ NoneIsMissed'
      BY <2>1, <1>10 DEF Carries, NoneIsMissed, Sound, FinishSeen
    <2>3. CASE marker' = marker
      BY <2>1, <2>2, <2>3 DEF Ordered, UnseenIsNew, OldIsNotNew
    <2>4. CASE marker' = run.at /\ run.records /\ run.bootstrap /\ Complete
      <3>1. marker = 0 /\ run.at > 0 /\ run.at <= seenClock /\ run.at \in Nat
        BY <2>1, <2>4 DEF Ordered, Runs
      <3>2. Ordered'
        BY <2>1, <2>4, <3>1 DEF Ordered
      <3>3. OldIsNotNew'
        BY <2>1, <3>1 DEF OldIsNotNew
      <3>4. ASSUME NEW s \in DOMAIN disk, s \notin DOMAIN seen PROVE disk[s].arrived >= run.at
        <4>1. RootOf[s] \in run.done /\ Asked(s) /\ Sound
          BY <2>1, <2>4 DEF Complete, Asked, Sound, Roots, seenTypeOK
        <4>2. ~(disk[s].arrived < run.at)
          BY <2>1, <3>4, <4>1 DEF NoneIsMissed
        <4>3. QED
          BY <3>1, <4>2 DEF seenTypeOK
      <3>5. UnseenIsNew'
        BY <2>1, <2>4, <3>4 DEF UnseenIsNew
      <3>6. QED
        BY <2>2, <3>2, <3>3, <3>5
    <2>5. QED
      BY <1>10, <2>3, <2>4 DEF FinishSeen
  <1>11. CASE UNCHANGED seenVars
    BY <1>11 DEF seenVars, outside, seendb, Ordered, Carries, NoneIsMissed, Sound, Asked, UnseenIsNew, OldIsNotNew
  <1>12. ASSUME BeginSeen(Roots, {})
         PROVE  Ordered' /\ Carries' /\ NoneIsMissed' /\ UnseenIsNew' /\ OldIsNotNew'
    BY <1>1, <1>12
  <1>13. ASSUME NEW r \in Roots, BeginSeen({r}, {})
         PROVE  Ordered' /\ Carries' /\ NoneIsMissed' /\ UnseenIsNew' /\ OldIsNotNew'
    <2>1. {r} \in SUBSET Roots /\ {} \in SUBSET Series
      OBVIOUS
    <2>2. QED
      BY <1>1, <1>13, <2>1
  <1>14. ASSUME NEW s \in Series, BeginSeen({RootOf[s]}, {s})
         PROVE  Ordered' /\ Carries' /\ NoneIsMissed' /\ UnseenIsNew' /\ OldIsNotNew'
    <2>1. {RootOf[s]} \in SUBSET Roots /\ {s} \in SUBSET Series
      BY DEF Roots
    <2>2. QED
      BY <1>1, <1>14, <2>1
  <1>15. QED
    BY <1>2, <1>3, <1>4, <1>5, <1>6, <1>7, <1>8, <1>9, <1>10, <1>11, <1>12, <1>13, <1>14 DEF seenNext

(* However many runs were cancelled, failed or cut short, and whatever     *)
(* arrived between them, a series that was there before sightings were     *)
(* recorded is never dated later than its files (bootstrapIncomplete and   *)
(* seenTally of the scanner).                                              *)
THEOREM OldStaysOld == seenSpec => []OldIsNotNew
  <1>1. seenInit => SeenInv
    BY SeenInit
  <1>2. SeenInv /\ [seenNext]_seenVars => SeenInv'
    BY SeenStep
  <1>3. SeenInv => OldIsNotNew
    BY DEF SeenInv
  <1>4. QED
    BY <1>1, <1>2, <1>3, PTL DEF seenSpec

(* What was recorded stays.  A step keeps every series and its time.       *)
LEMMA SeenStays ==
  ASSUME [seenNext]_seenVars
  PROVE  \A s \in DOMAIN seen : s \in DOMAIN seen' /\ seen'[s] = seen[s]
  <1>1. CASE Flush
    BY <1>1 DEF Flush, Insert
  <1>2. CASE UNCHANGED seen
    BY <1>2
  <1>3. QED
    BY <1>1, <1>2
       DEF seenNext, BeginSeen, Unreachable, Mount, Arrive, ScanRoot, FlushFails, Cancel, Crash,
           FinishSeen, seenVars, outside, seendb

(* The first sighting wins for ever, and a run that ends well has recorded *)
(* every series that was there when it began (MarkSeriesSeen, finishSeen). *)
THEOREM SightingsAreKept == seenSpec => SightingsLast
  <1>1. seenInit => SeenInv
    BY SeenInit
  <1>2. SeenInv /\ [seenNext]_seenVars => SeenInv'
    BY SeenStep
  <1>3. SeenInv /\ [seenNext]_seenVars => SightingsStay
    <2> SUFFICES ASSUME SeenInv, [seenNext]_seenVars PROVE SightingsStay
      OBVIOUS
    <2>1. \A s \in DOMAIN seen : s \in DOMAIN seen' /\ seen'[s] = seen[s]
      BY SeenStays
    <2>2. ASSUME NEW written \in BOOLEAN, FinishSeen(written), run.records,
                 ~ run.cancelled, ~ run.failed, run.bad = {},
                 NEW s \in DOMAIN disk, RootOf[s] \in run.wanted, Asked(s), disk[s].arrived < run.at
          PROVE  s \in DOMAIN seen
      <3>1. run # NoRun /\ run.phase = "roots" /\ run.done = run.wanted
        BY <2>2 DEF FinishSeen, NoRun
      <3>2. DOMAIN batch = {}
        BY <3>1 DEF SeenInv, Carries
      <3>3. QED
        BY <2>2, <3>1, <3>2 DEF SeenInv, NoneIsMissed, Sound
    <2>3. QED
      BY <2>1, <2>2 DEF SightingsStay
  <1>4. QED
    BY <1>1, <1>2, <1>3, PTL DEF seenSpec, SightingsLast

------------------------------------------------------------------------------
(* The readers' data. *)

(* What a partial function of books is.                                    *)
LEMMA PartialIs ==
  ASSUME NEW X, NEW f
  PROVE  f \in Partial(X) <=> DOMAIN f \in SUBSET Books /\ f \in [DOMAIN f -> X]
  <1>1. ASSUME f \in Partial(X) PROVE DOMAIN f \in SUBSET Books /\ f \in [DOMAIN f -> X]
    <2>1. PICK S \in SUBSET Books : f \in [S -> X]
      BY <1>1 DEF Partial
    <2>2. QED
      BY <2>1
  <1>2. ASSUME DOMAIN f \in SUBSET Books, f \in [DOMAIN f -> X] PROVE f \in Partial(X)
    BY <1>2 DEF Partial
  <1>3. QED
    BY <1>1, <1>2

(* One value of a partial function is set, or unset.                       *)
LEMMA PartialWith ==
  ASSUME NEW X, NEW f \in Partial(X), NEW b \in Books, NEW value \in X
  PROVE  With(f, b, value) \in Partial(X)
  <1>1. DOMAIN f \in SUBSET Books /\ f \in [DOMAIN f -> X]
    BY PartialIs
  <1>2. With(f, b, value) \in [DOMAIN f \cup {b} -> X]
    BY <1>1 DEF With
  <1>3. QED
    BY <1>1, <1>2 DEF Partial

\* Taking a book out of a table leaves a table.
LEMMA PartialWithout ==
  ASSUME NEW X, NEW f \in Partial(X), NEW b
  PROVE  Without(f, b) \in Partial(X)
  <1>1. DOMAIN f \in SUBSET Books /\ f \in [DOMAIN f -> X]
    BY PartialIs
  <1>2. Without(f, b) \in [DOMAIN f \ {b} -> X]
    BY <1>1 DEF Without
  <1>3. QED
    BY <1>1, <1>2 DEF Partial

\* A table may be empty.
LEMMA PartialEmpty ==
  ASSUME NEW X PROVE <<>> \in Partial(X)
  <1>1. <<>> \in [{} -> X]
    OBVIOUS
  <1>2. QED
    BY <1>1 DEF Partial

(* A clamped place is a place.                                             *)
LEMMA ClampType ==
  ASSUME NEW page \in Nat, NEW len \in Nat PROVE clampPage(page, len) \in Nat
  BY DEF clampPage

\* A clamped item, and one that joins a row, is a place.
LEMMA JoinedType ==
  ASSUME NEW local \in Places, NEW item \in Places
  PROVE  /\ [item EXCEPT !.page = clampPage(@, item.base)] \in Places
         /\ Joined(local, item) \in Places
  <1>1. item.page \in Nat /\ item.base \in Nat /\ item.started \in Nat /\ local.started \in Nat
    BY DEF Places
  <1>2. PICK page \in Nat : page = clampPage(item.page, item.base)
    BY <1>1, ClampType
  <1>3. PICK started \in Nat : started = IF local.started < item.started THEN local.started ELSE item.started
    BY <1>1
  <1>4. [item EXCEPT !.page = page] \in Places
    BY <1>2 DEF Places
  <1>5. [item EXCEPT !.page = page, !.started = started] \in Places
    BY <1>2, <1>3 DEF Places
  <1>6. [item EXCEPT !.page = clampPage(@, item.base)] = [item EXCEPT !.page = page]
    BY <1>2
  <1>7. Joined(local, item) = [item EXCEPT !.page = page, !.started = started]
    BY <1>2, <1>3 DEF Joined
  <1>8. QED
    BY <1>4, <1>5, <1>6, <1>7

\* An import of progress leaves a table of places.
LEMMA ImportedItemsType ==
  ASSUME NEW local \in Partial(Places), NEW items \in Partial(Places), NEW strategy
  PROVE  ImportedItems(local, items, strategy) \in Partial(Places)
  <1> DEFINE f == ImportedItems(local, items, strategy)
             S == DOMAIN local \cup DOMAIN items
  <1>0. \A b \in S : f[b] = ImportedItem(local, items, strategy, b)
    BY DEF ImportedItems
  <1>1. S \in SUBSET Books /\ local \in [DOMAIN local -> Places] /\ items \in [DOMAIN items -> Places]
    BY PartialIs
  <1>2. ASSUME NEW b \in S PROVE f[b] \in Places
    <2>1. CASE b \notin DOMAIN items
      <3> HIDE DEF f
      <3>1. QED
        BY <1>0, <1>1, <2>1 DEF ImportedItem
    <2>2. CASE b \in DOMAIN items /\ b \notin DOMAIN local
      <3>1. f[b] = [items[b] EXCEPT !.page = clampPage(@, items[b].base)]
        BY <1>0, <2>2 DEF ImportedItem
      <3> HIDE DEF f
      <3>2. QED
        BY <1>1, <2>2, <3>1, JoinedType
    <2>3. CASE b \in DOMAIN items /\ b \in DOMAIN local
      <3>1. f[b] \in {local[b], Joined(local[b], items[b])}
        BY <1>0, <2>3 DEF ImportedItem
      <3> HIDE DEF f
      <3>2. QED
        BY <1>1, <2>3, <3>1, JoinedType
    <2>4. QED
      BY <2>1, <2>2, <2>3
  <1>3. f = [b \in S |-> f[b]]
    BY DEF ImportedItems
  <1> HIDE DEF f, S
  <1>4. f \in [S -> Places]
    BY <1>2, <1>3
  <1>5. QED
    BY <1>1, <1>4 DEF f, Partial

\* An import of overrides leaves a table of overrides.
LEMMA ImportedPrefsType ==
  ASSUME NEW local \in Partial(Prefs), NEW new \in Partial(Prefs), NEW strategy
  PROVE  ImportedPrefs(local, new, strategy) \in Partial(Prefs)
  <1> DEFINE S == DOMAIN local \cup {b \in DOMAIN new : new[b] # Inherit}
  <1>1. S \in SUBSET Books /\ local \in [DOMAIN local -> Prefs] /\ new \in [DOMAIN new -> Prefs]
    BY PartialIs
  <1>2. ImportedPrefs(local, new, strategy) \in [S -> Prefs]
    BY <1>1 DEF ImportedPrefs
  <1>3. QED
    BY <1>1, <1>2 DEF Partial

\* What the two devices must agree on, and a place that a clamp leaves alone.
Newest(r) == [page |-> r.page, base |-> r.base, done |-> r.done, updated |-> r.updated]
Within(r) == r.base = 0 \/ r.page <= r.base

\* Merging either of two places of a book into the other ends at the newer one.
LEMMA MergeAgrees ==
  ASSUME NEW mine \in Partial(Places), NEW theirs \in Partial(Places), NEW b \in DOMAIN mine \cup DOMAIN theirs,
         b \in DOMAIN mine => Within(mine[b]), b \in DOMAIN theirs => Within(theirs[b]),
         b \in DOMAIN mine \cap DOMAIN theirs => mine[b].updated # theirs[b].updated
  PROVE  Newest(ImportedItem(mine, theirs, "merge", b)) = Newest(ImportedItem(theirs, mine, "merge", b))
  <1>1. mine \in [DOMAIN mine -> Places] /\ theirs \in [DOMAIN theirs -> Places]
    BY PartialIs
  <1>2. ASSUME NEW r \in Places, Within(r)
        PROVE  /\ Newest([r EXCEPT !.page = clampPage(@, r.base)]) = Newest(r)
               /\ \A l \in Places : Newest(Joined(l, r)) = Newest(r)
    <2>1. clampPage(r.page, r.base) = r.page
      BY <1>2 DEF clampPage, Within, Places
    <2>2. QED
      BY <2>1 DEF Newest, Joined, Places
  <1>3. CASE b \in DOMAIN mine /\ b \notin DOMAIN theirs
    <2>1. ImportedItem(mine, theirs, "merge", b) = mine[b]
      BY <1>3 DEF ImportedItem
    <2>2. ImportedItem(theirs, mine, "merge", b) = [mine[b] EXCEPT !.page = clampPage(@, mine[b].base)]
      BY <1>3 DEF ImportedItem
    <2>3. QED
      BY <1>1, <1>2, <1>3, <2>1, <2>2
  <1>4. CASE b \notin DOMAIN mine /\ b \in DOMAIN theirs
    <2>1. ImportedItem(theirs, mine, "merge", b) = theirs[b]
      BY <1>4 DEF ImportedItem
    <2>2. ImportedItem(mine, theirs, "merge", b) = [theirs[b] EXCEPT !.page = clampPage(@, theirs[b].base)]
      BY <1>4 DEF ImportedItem
    <2>3. QED
      BY <1>1, <1>2, <1>4, <2>1, <2>2
  <1>5. CASE b \in DOMAIN mine /\ b \in DOMAIN theirs
    <2>1. mine[b].updated \in Nat /\ theirs[b].updated \in Nat /\ mine[b].updated # theirs[b].updated
      BY <1>1, <1>5 DEF Places
    <2>2. CASE theirs[b].updated > mine[b].updated
      <3>1. ImportedItem(mine, theirs, "merge", b) = Joined(mine[b], theirs[b])
        BY <1>5, <2>2 DEF ImportedItem, Wins
      <3>2. ImportedItem(theirs, mine, "merge", b) = theirs[b]
        BY <1>5, <2>1, <2>2 DEF ImportedItem, Wins
      <3>3. mine[b] \in Places /\ theirs[b] \in Places
        BY <1>1, <1>5
      <3>4. Newest(Joined(mine[b], theirs[b])) = Newest(theirs[b])
        BY <1>2, <1>5, <3>3
      <3>5. QED
        BY <3>1, <3>2, <3>4
    <2>3. CASE mine[b].updated > theirs[b].updated
      <3>1. ImportedItem(theirs, mine, "merge", b) = Joined(theirs[b], mine[b])
        BY <1>5, <2>3 DEF ImportedItem, Wins
      <3>2. ImportedItem(mine, theirs, "merge", b) = mine[b]
        BY <1>5, <2>1, <2>3 DEF ImportedItem, Wins
      <3>3. mine[b] \in Places /\ theirs[b] \in Places
        BY <1>1, <1>5
      <3>4. Newest(Joined(theirs[b], mine[b])) = Newest(mine[b])
        BY <1>2, <1>5, <3>3
      <3>5. QED
        BY <3>1, <3>2, <3>4
    <2>4. QED
      BY <2>1, <2>2, <2>3
  <1>6. QED
    BY <1>3, <1>4, <1>5

(* Importing a document twice is importing it once.                        *)
LEMMA ImportTwice ==
  ASSUME NEW local \in Partial(Places), NEW items \in Partial(Places), NEW strategy \in {"merge", "replace"}
  PROVE  ImportedItems(ImportedItems(local, items, strategy), items, strategy) = ImportedItems(local, items, strategy)
  <1>1. PICK once \in Partial(Places) : once = ImportedItems(local, items, strategy)
    BY ImportedItemsType
  <1>2. DOMAIN once = DOMAIN local \cup DOMAIN items
    BY <1>1 DEF ImportedItems
  <1>3. once \in [DOMAIN once -> Places] /\ local \in [DOMAIN local -> Places] /\ items \in [DOMAIN items -> Places]
    BY PartialIs
  <1>4. \A b \in DOMAIN once : once[b] = ImportedItem(local, items, strategy, b)
    BY <1>1, <1>2 DEF ImportedItems
  <1>5. ASSUME NEW r \in Places, NEW l \in Places
        PROVE  /\ Joined([r EXCEPT !.page = clampPage(@, r.base)], r) = [r EXCEPT !.page = clampPage(@, r.base)]
               /\ Joined(Joined(l, r), r) = Joined(l, r)
               /\ [r EXCEPT !.page = clampPage(@, r.base)].updated = r.updated
               /\ Joined(l, r).updated = r.updated
    <2>1. r.page \in Nat /\ r.base \in Nat /\ r.started \in Nat /\ l.started \in Nat
      BY DEF Places
    <2>2. QED
      BY <2>1 DEF Joined, Places
  <1>6. ASSUME NEW b \in DOMAIN once PROVE ImportedItem(once, items, strategy, b) = once[b]
    <2>1. CASE b \notin DOMAIN items
      BY <2>1 DEF ImportedItem
    <2>2. CASE b \in DOMAIN items
      <3> DEFINE r == items[b]
      <3>1. r \in Places
        BY <1>3, <2>2
      <3>2. ImportedItem(once, items, strategy, b) =
              IF strategy = "replace" \/ Wins(once[b], r) THEN Joined(once[b], r) ELSE once[b]
        BY <2>2 DEF ImportedItem
      <3>3. CASE b \notin DOMAIN local
        <4>1. once[b] = [r EXCEPT !.page = clampPage(@, r.base)]
          BY <1>4, <2>2, <3>3 DEF ImportedItem
        <4>2. Joined(once[b], r) = once[b]
          BY <1>5, <3>1, <4>1
        <4>3. QED
          BY <3>2, <4>2
      <3>4. CASE b \in DOMAIN local /\ (strategy = "replace" \/ Wins(local[b], r))
        <4>1. once[b] = Joined(local[b], r)
          BY <1>4, <2>2, <3>4 DEF ImportedItem
        <4>2. local[b] \in Places
          BY <1>3, <3>4
        <4>3. Joined(once[b], r) = once[b]
          BY <1>5, <3>1, <4>1, <4>2
        <4>4. QED
          BY <3>2, <4>3
      <3>5. CASE b \in DOMAIN local /\ ~(strategy = "replace" \/ Wins(local[b], r))
        <4>1. once[b] = local[b]
          BY <1>4, <2>2, <3>5 DEF ImportedItem
        <4>2. QED
          BY <3>2, <3>5, <4>1
      <3>6. QED
        BY <3>3, <3>4, <3>5
    <2>3. QED
      BY <2>1, <2>2
  <1>7. ImportedItems(once, items, strategy) = [b \in DOMAIN once |-> ImportedItem(once, items, strategy, b)]
    BY <1>2 DEF ImportedItems
  <1>8. ImportedItems(once, items, strategy) = once
    BY <1>3, <1>6, <1>7
  <1>9. QED
    BY <1>1, <1>8

\* DevicesMerge follows from the types: it says what importProgress computes.
LEMMA TypedMerge ==
  ASSUME udTypeOK PROVE DevicesMerge
  <1>1. progress \in Partial(Places) /\ doc.items \in Partial(Places)
    BY DEF udTypeOK, Docs
  <1>2. ASSUME NEW b \in DOMAIN ImportedItems(progress, doc.items, "merge"),
               b \in DOMAIN progress => Within(progress[b]), b \in DOMAIN doc.items => Within(doc.items[b]),
               b \in DOMAIN progress \cap DOMAIN doc.items => progress[b].updated # doc.items[b].updated
        PROVE  Newest(ImportedItems(progress, doc.items, "merge")[b]) = Newest(ImportedItems(doc.items, progress, "merge")[b])
    <2>1. b \in DOMAIN progress \cup DOMAIN doc.items
      BY <1>2 DEF ImportedItems
    <2>2. /\ ImportedItems(progress, doc.items, "merge")[b] = ImportedItem(progress, doc.items, "merge", b)
          /\ ImportedItems(doc.items, progress, "merge")[b] = ImportedItem(doc.items, progress, "merge", b)
      BY <2>1 DEF ImportedItems
    <2>3. QED
      BY <1>1, <1>2, <2>1, <2>2, MergeAgrees
  <1>3. \A strategy \in {"merge", "replace"} :
          LET once == ImportedItems(progress, doc.items, strategy)
          IN  ImportedItems(once, doc.items, strategy) = once
    BY <1>1, ImportTwice
  <1>4. QED
    BY <1>2, <1>3 DEF DevicesMerge, Newest, Within

(* Types, and no row of a book whose options were all reset.               *)
LEMMA UserInit ==
  ASSUME udInit PROVE udTypeOK /\ ResetLeavesNothing
  <1> USE UserDataAssumption DEF udInit
  <1>1. progress \in Partial(Places) /\ prefs \in Partial(Prefs)
    BY PartialEmpty
  <1>2. doc \in Docs
    BY PartialEmpty DEF NoDoc, Docs
  <1>3. length \in [Books -> 0..MaxLength]
    BY DEF Pages
  <1>4. udTypeOK
    BY <1>1, <1>2, <1>3 DEF udTypeOK
  <1>5. ResetLeavesNothing
    BY DEF ResetLeavesNothing
  <1>6. QED
    BY <1>4, <1>5

\* Every step keeps the types.
LEMMA UserTypes ==
  ASSUME udTypeOK, [udNext]_udVars PROVE udTypeOK'
  <1> USE UserDataAssumption DEF udTypeOK
  <1>1. ASSUME NEW c \in Clients, NEW b \in Books, NEW page \in Pages, NEW done \in {"auto", "no"},
               NEW seen_ \in BOOLEAN, ReadLength(c, b, page, done, seen_)
        PROVE  udTypeOK'
    <2>1. [kind |-> "progress", book |-> b, page |-> page, len |-> length[b], done |-> done, seen |-> seen_]
            \in PutRequests
      BY DEF PutRequests, Pages
    <2>2. QED
      BY <1>1, <2>1 DEF ReadLength, userdb
  <1>2. ASSUME NEW c \in Clients, PutProgress(c) PROVE udTypeOK'
    <2> DEFINE r == request[c]
               old == progress[r.book]
               there == r.book \in DOMAIN progress
               page == clampPage(r.page, r.len)
               row == [page |-> page,
                       base |-> IF there THEN Baseline(r, old) ELSE r.len,
                       done |-> IF r.done = "auto" THEN r.len > 0 /\ page >= r.len ELSE r.done = "yes",
                       started |-> IF there THEN old.started ELSE userClock + 1,
                       updated |-> userClock + 1]
    <2>1. r \in PutRequests
      BY <1>2 DEF PutProgress, NoRequest, PrefsRequests, ExportRequests
    <2>2. r.book \in Books /\ r.page \in Nat /\ r.len \in Nat
      BY <2>1 DEF PutRequests
    <2>3. page \in Nat
      BY <2>2, ClampType
    <2>4. there => old \in Places
      BY PartialIs
    <2>5. there => old.base \in Nat /\ old.started \in Nat
      BY <2>4 DEF Places
    <2>6. row \in Places
      <3>1. row.base \in Nat /\ row.started \in Nat /\ row.updated \in Nat
        BY <2>2, <2>5 DEF Baseline
      <3>2. row.done \in BOOLEAN
        OBVIOUS
      <3>3. row = [page |-> page, base |-> row.base, done |-> row.done,
                   started |-> row.started, updated |-> row.updated]
        OBVIOUS
      <3> HIDE DEF row, page
      <3>4. QED
        BY <2>3, <3>1, <3>2, <3>3 DEF Places
    <2>7. progress' = With(progress, r.book, row)
      BY <1>2 DEF PutProgress
    <2> HIDE DEF row
    <2>8. progress' \in Partial(Places)
      BY <2>2, <2>6, <2>7, PartialWith
    <2>9. QED
      BY <1>2, <2>8 DEF PutProgress
  <1>3. ASSUME NEW b \in Books, DeleteProgress(b) PROVE udTypeOK'
    <2>1. progress' \in Partial(Places)
      BY <1>3, PartialWithout DEF DeleteProgress
    <2>2. QED
      BY <1>3, <2>1 DEF DeleteProgress
  <1>4. ASSUME NEW c \in Clients, NEW b \in Books, NEW o \in Options, NEW value \in {"", "x"},
               ReadPrefs(c, b, o, value)
        PROVE  udTypeOK'
    <2> DEFINE current == IF b \in DOMAIN prefs THEN prefs[b] ELSE Inherit
    <2>1. current \in Prefs
      <3>1. prefs \in [DOMAIN prefs -> Prefs]
        BY PartialIs
      <3>2. Inherit \in Prefs
        BY DEF Inherit, Prefs
      <3>3. QED
        BY <3>1, <3>2
    <2>2. [current EXCEPT ![o] = value] \in Prefs
      BY <2>1 DEF Prefs
    <2>3. [kind |-> "prefs", book |-> b, option |-> o, next |-> [current EXCEPT ![o] = value]] \in PrefsRequests
      BY <2>2 DEF PrefsRequests
    <2>4. request' = [request EXCEPT ![c] =
                        [kind |-> "prefs", book |-> b, option |-> o, next |-> [current EXCEPT ![o] = value]]]
      BY <1>4 DEF ReadPrefs
    <2> HIDE DEF current
    <2>5. QED
      BY <1>4, <2>3, <2>4 DEF ReadPrefs, userdb
  <1>5. ASSUME NEW c \in Clients, PutPrefs(c) PROVE udTypeOK'
    <2>1. request[c] \in PrefsRequests
      BY <1>5 DEF PutPrefs, NoRequest, PutRequests, ExportRequests
    <2>2. request[c].book \in Books /\ request[c].next \in Prefs
      BY <2>1 DEF PrefsRequests
    <2>3. prefs' \in {Without(prefs, request[c].book), With(prefs, request[c].book, request[c].next)}
      BY <1>5 DEF PutPrefs, Stored
    <2>4. prefs' \in Partial(Prefs)
      BY <2>2, <2>3, PartialWith, PartialWithout
    <2>5. QED
      BY <1>5, <2>4 DEF PutPrefs
  <1>6. ASSUME NEW c \in Clients, ExportItems(c) PROVE udTypeOK'
    <2>1. [kind |-> "export", items |-> progress] \in ExportRequests
      BY DEF ExportRequests
    <2>2. QED
      BY <1>6, <2>1 DEF ExportItems, userdb
  <1>7. ASSUME NEW c \in Clients, ExportPrefs(c) PROVE udTypeOK'
    <2>1. request[c] \in ExportRequests
      BY <1>7 DEF ExportPrefs, NoRequest, PutRequests, PrefsRequests
    <2>2. request[c].items \in Partial(Places)
      BY <2>1 DEF ExportRequests
    <2>3. doc' \in Docs
      BY <1>7, <2>2 DEF ExportPrefs, NoDoc, Docs
    <2>4. QED
      BY <1>7, <2>3 DEF ExportPrefs, userdb
  <1>8. ASSUME NEW strategy \in {"merge", "replace"}, Import(strategy) PROVE udTypeOK'
    <2>1. doc.items \in Partial(Places) /\ doc.prefs \in Partial(Prefs)
      BY DEF Docs
    <2>2. progress' \in Partial(Places) /\ prefs' \in Partial(Prefs)
      BY <1>8, <2>1, ImportedItemsType, ImportedPrefsType DEF Import
    <2>3. QED
      BY <1>8, <2>2 DEF Import
  <1>9. ASSUME NEW b \in Books, EditDoc(b) PROVE udTypeOK'
    <2>1. doc.items \in Partial(Places) /\ doc.prefs \in Partial(Prefs)
      BY DEF Docs
    <2>2. CASE doc' = [doc EXCEPT !.edited = TRUE, !.valid = FALSE]
      BY <1>9, <2>2 DEF EditDoc, Docs, userdb
    <2>3. CASE doc' = [doc EXCEPT !.edited = TRUE, !.items[b].page = MaxLength]
      <3>1. PICK items : items = [doc.items EXCEPT ![b].page = MaxLength]
        OBVIOUS
      <3>2. doc.items \in [DOMAIN doc.items -> Places] /\ DOMAIN doc.items \in SUBSET Books
        BY <2>1, PartialIs
      <3>3. items \in [DOMAIN doc.items -> Places]
        BY <3>1, <3>2 DEF Places
      <3>4. items \in Partial(Places)
        BY <3>2, <3>3 DEF Partial
      <3>5. doc' = [doc EXCEPT !.edited = TRUE, !.items = items]
        BY <2>3, <3>1
      <3>6. doc' \in Docs
        BY <3>4, <3>5 DEF Docs
      <3>7. QED
        BY <1>9, <3>6 DEF EditDoc, userdb
    <2>4. CASE doc' = [doc EXCEPT !.edited = TRUE, !.prefs = With(@, b, Inherit)]
      <3>1. Inherit \in Prefs
        BY DEF Inherit, Prefs
      <3>2. PICK new \in Partial(Prefs) : new = With(doc.prefs, b, Inherit)
        BY <2>1, <3>1, PartialWith
      <3>3. doc' = [doc EXCEPT !.edited = TRUE, !.prefs = new]
        BY <2>4, <3>2
      <3>4. doc' \in Docs
        BY <3>3 DEF Docs
      <3>5. QED
        BY <1>9, <3>4 DEF EditDoc, userdb
    <2>5. QED
      BY <1>9, <2>2, <2>3, <2>4 DEF EditDoc
  <1>10. ASSUME NEW b \in Books, ScanBook(b) PROVE udTypeOK'
    BY <1>10 DEF ScanBook, userdb
  <1>11. CASE Fresh
    <2>1. progress' \in Partial(Places) /\ prefs' \in Partial(Prefs)
      BY <1>11, PartialEmpty DEF Fresh
    <2>2. QED
      BY <1>11, <2>1 DEF Fresh
  <1>12. CASE UNCHANGED udVars
    BY <1>12 DEF udVars, userdb
  <1> HIDE DEF udTypeOK
  <1>13. QED
    BY <1>1, <1>2, <1>3, <1>4, <1>5, <1>6, <1>7, <1>8, <1>9, <1>10, <1>11, <1>12 DEF udNext

(* A write or an import leaves no row without an override.                 *)
LEMMA ResetStep ==
  ASSUME udTypeOK, ResetLeavesNothing, [udNext]_udVars PROVE ResetLeavesNothing'
  <1> USE DEF ResetLeavesNothing
  <1>1. ASSUME NEW c \in Clients, PutPrefs(c) PROVE ResetLeavesNothing'
    BY <1>1 DEF PutPrefs, Stored, With, Without
  <1>2. ASSUME NEW strategy \in {"merge", "replace"}, Import(strategy) PROVE ResetLeavesNothing'
    BY <1>2 DEF Import, ImportedPrefs
  <1>3. CASE Fresh
    BY <1>3 DEF Fresh
  <1>4. CASE UNCHANGED prefs
    BY <1>4
  <1> HIDE DEF ResetLeavesNothing
  <1>5. QED
    BY <1>1, <1>2, <1>3, <1>4
       DEF udNext, ReadLength, ReadPrefs, PutProgress, ExportItems, ExportPrefs, DeleteProgress,
           EditDoc, ScanBook, udVars, userdb

(* Of two devices that import each other's export the later place wins on  *)
(* both, importing twice is importing once, and a book whose options were  *)
(* all reset has no row (importProgress, importPrefs, PutPrefs).           *)
THEOREM DevicesConverge == udSpec => []DevicesAgree
  <1>1. udInit => udTypeOK /\ ResetLeavesNothing
    BY UserInit
  <1>2. udTypeOK /\ ResetLeavesNothing /\ [udNext]_udVars => udTypeOK' /\ ResetLeavesNothing'
    BY UserTypes, ResetStep
  <1>3. udTypeOK /\ ResetLeavesNothing => DevicesAgree
    BY TypedMerge DEF DevicesAgree
  <1>4. QED
    BY <1>1, <1>2, <1>3, PTL DEF udSpec

(* A hint that a book has changed lasts until it is acknowledged: a PUT    *)
(* that does not acknowledge the length keeps the one the place was        *)
(* written against (the conflict clause of PutProgress).                   *)
THEOREM HintsAreKept == udSpec => HintLasts
  <1>1. udInit => udTypeOK
    BY UserInit
  <1>2. udTypeOK /\ [udNext]_udVars => udTypeOK'
    BY UserTypes
  <1>3. udTypeOK /\ [udNext]_udVars => HintStays
    <2> SUFFICES ASSUME udTypeOK, [udNext]_udVars, NEW b \in Books,
                        b \in DOMAIN progress, b \in DOMAIN progress'
                 PROVE  \/ progress'[b].base = progress[b].base
                        \/ \E c \in Clients : PutProgress(c) /\ request[c].seen /\ request[c].len # 0
                        \/ \E strategy \in {"merge", "replace"} : Import(strategy)
      BY DEF HintStays
    <2>1. ASSUME NEW c \in Clients, PutProgress(c)
          PROVE  progress'[b].base = progress[b].base \/ (request[c].seen /\ request[c].len # 0)
      <3> DEFINE r == request[c]
      <3>1. CASE r.book = b
        <4>1. progress'[b].base = Baseline(r, progress[b])
          BY <2>1, <3>1 DEF PutProgress, With
        <4>2. r \in PutRequests
          BY <2>1 DEF PutProgress, udTypeOK, NoRequest, PrefsRequests, ExportRequests
        <4>3. r.len \in Nat
          BY <4>2 DEF PutRequests
        <4>4. QED
          BY <4>1, <4>3 DEF Baseline
      <3>2. CASE r.book # b
        BY <2>1, <3>2 DEF PutProgress, With
      <3>3. QED
        BY <3>1, <3>2
    <2>2. ASSUME NEW c \in Books, DeleteProgress(c) PROVE progress'[b].base = progress[b].base
      BY <2>2 DEF DeleteProgress, Without
    <2>3. CASE Fresh
      BY <2>3 DEF Fresh
    <2>4. CASE UNCHANGED progress
      BY <2>4
    <2>5. QED
      BY <2>1, <2>2, <2>3, <2>4
         DEF udNext, ReadLength, ReadPrefs, PutPrefs, ExportItems, ExportPrefs, EditDoc, ScanBook, udVars, userdb
  <1>4. QED
    BY <1>1, <1>2, <1>3, PTL DEF udSpec, HintLasts

------------------------------------------------------------------------------
(* The list of roots. *)

\* A set of numbers that is not empty has a least one.
LEMMA LeastOf ==
  ASSUME NEW S \in SUBSET Nat, S # {}
  PROVE  \E n \in S : \A k \in S : n <= k
  <1>1. PICK n \in S : \A k \in S : ~(<<k, n>> \in OpToRel(<, Nat))
    BY NatLessThanWellFounded, WFMin
  <1>2. ASSUME NEW k \in S PROVE n <= k
    <2>1. ~ (k < n)
      BY <1>1 DEF OpToRel
    <2>2. QED
      BY <2>1
  <1>3. QED
    BY <1>2

\* Appending adds the entry to the set of the entries.
LEMMA Appended ==
  ASSUME NEW s \in Seq(Entries), NEW e \in Entries
  PROVE  /\ Append(s, e) \in Seq(Entries)
         /\ ToSet(Append(s, e)) = ToSet(s) \union {e}
         /\ Unique(s) /\ e.name \notin NamesOf(ToSet(s)) => Unique(Append(s, e))
  <1>1. /\ Append(s, e) \in Seq(Entries) /\ Len(s) \in Nat /\ Len(Append(s, e)) = Len(s) + 1
        /\ \A i \in 1..Len(s) : Append(s, e)[i] = s[i] /\ i # Len(s) + 1
        /\ Append(s, e)[Len(s) + 1] = e
        /\ DOMAIN s = 1..Len(s)
        /\ \A i \in 1..(Len(s) + 1) : i \in 1..Len(s) \/ i = Len(s) + 1
        /\ DOMAIN Append(s, e) = 1..(Len(s) + 1)
    OBVIOUS
  <1>2. ToSet(Append(s, e)) = ToSet(s) \union {e}
    <2>1. Len(s) + 1 \in 1..(Len(s) + 1) /\ \A i \in 1..Len(s) : i \in 1..(Len(s) + 1)
      BY <1>1
    <2>2. QED
      BY <1>1, <2>1, Zenon DEF ToSet
  <1>3. \A i \in DOMAIN s : s[i].name \in NamesOf(ToSet(s))
    BY DEF NamesOf, ToSet
  <1>4. ASSUME Unique(s), e.name \notin NamesOf(ToSet(s)) PROVE Unique(Append(s, e))
    BY <1>1, <1>3, <1>4 DEF Unique
  <1>5. QED
    BY <1>1, <1>2, <1>4

\* The first n elements of a sequence.
LEMMA FrontOf ==
  ASSUME NEW S, NEW s \in Seq(S), NEW n \in 0..Len(s)
  PROVE  /\ SubSeq(s, 1, n) \in Seq(S) /\ Len(SubSeq(s, 1, n)) = n
         /\ \A k \in 1..n : SubSeq(s, 1, n)[k] = s[k]
  <1> DEFINE front == SubSeq(s, 1, n)
  <1>1. Len(s) \in Nat /\ n \in Nat /\ n \in Int /\ 1 \in Int /\ n <= Len(s)
    BY LenProperties
  <1>2. \A k \in 1..n : s[k] \in S
    BY <1>1, ElementOfSeq
  <1>3. /\ front \in Seq(S) /\ Len(front) = IF 1 <= n THEN n - 1 + 1 ELSE 0
        /\ \A k \in 1..(n - 1 + 1) : front[k] = s[1 + k - 1]
    BY <1>1, <1>2, SubSeqProperties
  <1> HIDE DEF front
  <1>4. (IF 1 <= n THEN n - 1 + 1 ELSE 0) = n /\ n - 1 + 1 = n
    BY <1>1
  <1>5. ASSUME NEW k \in 1..n PROVE front[k] = s[k]
    <2>1. 1 + k - 1 = k /\ k \in 1..(n - 1 + 1)
      BY <1>4
    <2>2. front[k] = s[1 + k - 1]
      BY <1>3, <2>1
    <2>3. QED
      BY <2>1, <2>2
  <1>6. Len(front) = n
    BY <1>3, <1>4
  <1>7. QED
    BY <1>3, <1>5, <1>6 DEF front

\* What is left of a sequence after the first n elements.
LEMMA BackOf ==
  ASSUME NEW S, NEW s \in Seq(S), NEW n \in 0..Len(s)
  PROVE  /\ SubSeq(s, n + 1, Len(s)) \in Seq(S) /\ Len(SubSeq(s, n + 1, Len(s))) = Len(s) - n
         /\ \A k \in 1..(Len(s) - n) : SubSeq(s, n + 1, Len(s))[k] = s[n + k]
  <1> DEFINE l == Len(s)
             back == SubSeq(s, n + 1, l)
  <1>1. l \in Nat /\ n \in Nat /\ n <= l /\ n + 1 \in Int /\ l \in Int
    BY LenProperties
  <1>2. \A k \in (n + 1)..l : s[k] \in S
    BY <1>1, ElementOfSeq
  <1> HIDE DEF l
  <1>3. /\ back \in Seq(S) /\ Len(back) = IF n + 1 <= l THEN l - (n + 1) + 1 ELSE 0
        /\ \A k \in 1..(l - (n + 1) + 1) : back[k] = s[(n + 1) + k - 1]
    BY <1>1, <1>2, SubSeqProperties
  <1> HIDE DEF back
  <1>4. (IF n + 1 <= l THEN l - (n + 1) + 1 ELSE 0) = l - n /\ l - (n + 1) + 1 = l - n
    BY <1>1
  <1>5. ASSUME NEW k \in 1..(l - n) PROVE back[k] = s[n + k]
    <2>1. (n + 1) + k - 1 = n + k
      BY <1>1
    <2>2. k \in 1..(l - (n + 1) + 1)
      BY <1>4
    <2>3. back[k] = s[(n + 1) + k - 1]
      BY <1>3, <2>2
    <2>4. QED
      BY <2>1, <2>3
  <1>6. Len(back) = l - n
    BY <1>3, <1>4
  <1>7. QED
    BY <1>3, <1>5, <1>6 DEF back, l

\* Removing the entry of a name takes it out of the set of the entries.
LEMMA Removed ==
  ASSUME NEW s \in Seq(Entries), Unique(s), NEW n \in NamesOf(ToSet(s))
  PROVE  /\ RemoveAt(s, IndexOf(s, n)) \in Seq(Entries)
         /\ Len(RemoveAt(s, IndexOf(s, n))) = Len(s) - 1
         /\ ToSet(RemoveAt(s, IndexOf(s, n))) = NotNamed(ToSet(s), n)
         /\ Unique(RemoveAt(s, IndexOf(s, n)))
         /\ s[IndexOf(s, n)] \in ToSet(s) /\ s[IndexOf(s, n)].name = n
  <1> DEFINE i == IndexOf(s, n)
             t == RemoveAt(s, i)
  <1>1. \E k \in DOMAIN s : s[k].name = n
    BY DEF NamesOf, ToSet
  <1>2. i \in DOMAIN s /\ s[i].name = n
    BY <1>1 DEF IndexOf
  <1>3. DOMAIN s = 1..Len(s) /\ Len(s) \in Nat /\ i \in 1..Len(s)
    BY <1>2
  <1>. HIDE DEF i
  <1> DEFINE front == SubSeq(s, 1, i - 1)
             back == SubSeq(s, i + 1, Len(s))
  <1>4. /\ front \in Seq(Entries) /\ Len(front) = i - 1
        /\ \A k \in 1..(i - 1) : front[k] = s[k]
    <2>1. i - 1 \in 0..Len(s)
      BY <1>3
    <2>2. QED
      BY <2>1, FrontOf
  <1>5. /\ back \in Seq(Entries) /\ Len(back) = Len(s) - i
        /\ \A k \in 1..(Len(s) - i) : back[k] = s[k + i]
    <2>1. i \in 0..Len(s)
      BY <1>3
    <2>2. /\ back \in Seq(Entries) /\ Len(back) = Len(s) - i
          /\ \A k \in 1..(Len(s) - i) : back[k] = s[i + k]
      BY <2>1, BackOf
    <2>3. \A k \in 1..(Len(s) - i) : i + k = k + i
      BY <1>3
    <2> HIDE DEF back
    <2>4. QED
      BY <2>2, <2>3
  <1>b. t = front \o back
    BY DEF RemoveAt
  <1>. HIDE DEF front, back, t
  <1>c. /\ t \in Seq(Entries) /\ Len(t) = Len(front) + Len(back)
        /\ \A k \in 1..(Len(front) + Len(back)) :
              t[k] = IF k <= Len(front) THEN front[k] ELSE back[k - Len(front)]
    BY <1>b, <1>4, <1>5, ConcatProperties
  <1>6. t \in Seq(Entries) /\ Len(t) = Len(s) - 1 /\ DOMAIN t = 1..(Len(s) - 1)
    BY <1>c, <1>3, <1>4, <1>5
  <1>7. \A k \in 1..(Len(s) - 1) : t[k] = IF k < i THEN s[k] ELSE s[k + 1]
    <2> SUFFICES ASSUME NEW k \in 1..(Len(s) - 1) PROVE t[k] = IF k < i THEN s[k] ELSE s[k + 1]
      OBVIOUS
    <2>0. t[k] = IF k <= i - 1 THEN front[k] ELSE back[k - (i - 1)]
      <3>1. Len(front) + Len(back) = Len(s) - 1
        BY <1>3, <1>4, <1>5
      <3>2. QED
        BY <3>1, <1>4, <1>c
    <2>1. CASE k < i
      <3>1. k <= i - 1 /\ k \in 1..(i - 1)
        BY <2>1, <1>3
      <3>2. QED
        BY <3>1, <2>0, <2>1, <1>4
    <2>2. CASE ~ (k < i)
      <3>0. ~ (k <= i - 1)
        BY <2>2, <1>3
      <3>1. t[k] = back[k - (i - 1)]
        BY <3>0, <2>0
      <3>2. k - (i - 1) \in 1..(Len(s) - i)
        BY <2>2, <1>3
      <3>3. k - (i - 1) + i = k + 1
        BY <1>3
      <3>4. QED
        BY <3>1, <3>2, <3>3, <2>2, <1>5
    <2>3. QED
      BY <2>1, <2>2
  <1>8. \A k \in 1..(Len(s) - 1) : \E j \in 1..Len(s) : j # i /\ t[k] = s[j] /\ j = (IF k < i THEN k ELSE k + 1)
    BY <1>3, <1>7
  <1>9. \A j \in 1..Len(s) : j # i => \E k \in 1..(Len(s) - 1) : t[k] = s[j]
    <2> SUFFICES ASSUME NEW j \in 1..Len(s), j # i PROVE \E k \in 1..(Len(s) - 1) : t[k] = s[j]
      OBVIOUS
    <2>1. CASE j < i
      BY <2>1, <1>3, <1>7
    <2>2. CASE j > i
      <3>1. j - 1 \in 1..(Len(s) - 1) /\ ~ (j - 1 < i) /\ (j - 1) + 1 = j
        BY <2>2, <1>3
      <3>2. QED
        BY <3>1, <1>7
    <2>3. QED
      BY <2>1, <2>2, <1>3
  <1>10. \A j \in 1..Len(s) : j = i <=> s[j].name = n
    BY <1>2, <1>3 DEF Unique
  <1>11. ToSet(t) = NotNamed(ToSet(s), n)
    <2>1. ASSUME NEW e \in ToSet(t) PROVE e \in NotNamed(ToSet(s), n)
      <3>1. PICK k \in 1..(Len(s) - 1) : e = t[k]
        BY <1>6 DEF ToSet
      <3>2. PICK j \in 1..Len(s) : j # i /\ e = s[j]
        BY <3>1, <1>8
      <3>3. QED
        BY <3>2, <1>3, <1>10 DEF ToSet, NotNamed
    <2>2. ASSUME NEW e \in NotNamed(ToSet(s), n) PROVE e \in ToSet(t)
      <3>1. PICK j \in 1..Len(s) : e = s[j] /\ j # i
        BY <1>3, <1>10 DEF ToSet, NotNamed
      <3>2. PICK k \in 1..(Len(s) - 1) : e = t[k]
        BY <3>1, <1>9
      <3>3. QED
        BY <3>2, <1>6 DEF ToSet
    <2>3. QED
      BY <2>1, <2>2
  <1>12. Unique(t)
    <2> SUFFICES ASSUME NEW k \in 1..(Len(s) - 1), NEW l \in 1..(Len(s) - 1), t[k].name = t[l].name
                 PROVE  k = l
      BY <1>6 DEF Unique
    <2>1. PICK a \in 1..Len(s) : t[k] = s[a] /\ a = (IF k < i THEN k ELSE k + 1)
      BY <1>8
    <2>2. PICK b \in 1..Len(s) : t[l] = s[b] /\ b = (IF l < i THEN l ELSE l + 1)
      BY <1>8
    <2>3. a = b
      BY <2>1, <2>2, <1>3 DEF Unique
    <2>4. QED
      BY <2>1, <2>2, <2>3, <1>3
  <1>13. QED
    BY <1>2, <1>3, <1>6, <1>11, <1>12 DEF t, i, ToSet

------------------------------------------------------------------------------
(* Where a request may go on to.                                           *)
Later == {"splice", "backup", "rename", "mark", "release", "open", "adopt", "table", "row", "start"}

(* What the file says after the splice, of what the handler has read.      *)
Edited(f) ==
  IF edit.op = "add"
    THEN Listed(f) = Listed(edit.prior) \union {edit.entry}
    ELSE Listed(f) = NotNamed(Listed(edit.prior), edit.entry.name)

AtRest == ~ up => edit = NoEdit /\ ask = NoAsk /\ scan = NoScan /\ removed = {} /\ added = {}

NamesUnique ==
  /\ Unique(file.roots) /\ Unique(bak.roots)
  /\ edit # NoEdit => Unique(edit.out.roots)

Stages ==
  edit # NoEdit =>
    /\ edit.pc \in {"purge", "mark", "release"} => edit.op = "remove"
    /\ edit.pc \in {"open", "adopt", "table", "row", "start"} => edit.op = "add"
    /\ edit.op = "add" => Reach(edit.entry.path) /\ edit.entry.path \notin StorageUnder
    /\ edit.pc = "release" => edit.entry.name \in removed
    /\ edit.pc \in {"table", "row", "start"} => edit.entry \in added

(* While nobody edits the file by hand, it is what the handler has read,   *)
(* and then what it has written.                                           *)
ReadsHold ==
  edit # NoEdit /\ ~ past.raced =>
    /\ edit.pc \in {"purge", "splice", "backup", "rename"} => file = edit.prior
    /\ edit.pc \in {"backup", "rename"} => Edited(edit.out)
    /\ edit.pc \in {"mark", "release", "open", "adopt"} => Edited(file)

(* The adopted baseline lists what the process serves, but for the root    *)
(* whose removal is recorded and not yet released.                         *)
Known == Served \union added
Kept(S) == IF edit.pc = "release" THEN NotNamed(S, edit.entry.name) ELSE S
Adopted == up /\ ~ past.raced /\ ~ past.adrift => Kept(Known) = Kept(Listed(digest))

(* No scan that was asked for after a removal walks the removed root.      *)
Excused ==
  /\ removed \intersect (books \union scan.names \union ask.roots) \subseteq past.late \union NamesOf(added)
  /\ ask.all => removed \subseteq past.late
  /\ edit.pc = "release" /\ edit.entry.name \notin past.late =>
       ~ ask.all /\ edit.entry.name \notin books \union scan.names \union ask.roots

RootsInv ==
  /\ rootsTypeOK /\ AtRest /\ NamesUnique /\ Stages
  /\ ReadsHold /\ Adopted /\ Excused

\* Files and edits keep their type in the updates the actions make.
LEMMA FileUpdates ==
  ASSUME NEW f \in Files, NEW r \in Seq(Entries), NEW form \in Forms
  PROVE  /\ [f EXCEPT !.roots = r] \in Files /\ [f EXCEPT !.roots = r].roots = r
         /\ [f EXCEPT !.roots = r].form = f.form
         /\ [f EXCEPT !.form = form] \in Files /\ [f EXCEPT !.form = form].roots = f.roots
         /\ [f EXCEPT !.note = 1 - @] \in Files /\ [f EXCEPT !.note = 1 - @].roots = f.roots
  BY DEF Files

\* A request goes on to its next stage.
LEMMA EditUpdates ==
  ASSUME NEW e \in Edits, NEW c \in Later
  PROVE  /\ [e EXCEPT !.pc = c] \in Edits /\ [e EXCEPT !.pc = c].pc = c
         /\ [e EXCEPT !.pc = c].op = e.op /\ [e EXCEPT !.pc = c].entry = e.entry
         /\ [e EXCEPT !.pc = c].prior = e.prior /\ [e EXCEPT !.pc = c].out = e.out
  BY DEF Edits, Later

\* A request has decided what to write.
LEMMA EditWrites ==
  ASSUME NEW e \in Edits, NEW f \in Files
  PROVE  /\ [e EXCEPT !.pc = "backup", !.out = f] \in Edits
         /\ [e EXCEPT !.pc = "backup", !.out = f].pc = "backup"
         /\ [e EXCEPT !.pc = "backup", !.out = f].op = e.op
         /\ [e EXCEPT !.pc = "backup", !.out = f].entry = e.entry
         /\ [e EXCEPT !.pc = "backup", !.out = f].prior = e.prior
         /\ [e EXCEPT !.pc = "backup", !.out = f].out = f
  BY DEF Edits

\* Who edits is not idle.
LEMMA EditIs ==
  ASSUME rootsTypeOK
  PROVE  /\ edit = NoEdit <=> edit \notin Edits
         /\ edit.pc = "idle" <=> edit = NoEdit
         /\ edit \in Edits => /\ edit.prior \in Files /\ edit.out \in Files /\ edit.entry \in Entries
                               /\ edit.op \in {"add", "remove"} /\ edit.entry.name \in Names
  BY DEF rootsTypeOK, Edits, NoEdit, Entries

\* A request to scan is one or is none, and so is a scan.
LEMMA ScanIs ==
  ASSUME rootsTypeOK
  PROVE  /\ ask = NoAsk <=> ask \notin Asks
         /\ scan = NoScan <=> scan \notin Scans
         /\ scan.pc = "idle" <=> scan = NoScan
         /\ ask.roots \subseteq Names /\ scan.names \subseteq Names /\ ask.all \in BOOLEAN
         /\ scan.todo \in Seq(Entries) /\ scan.table \in Seq(Entries)
  <1>1. <<>> \in Seq(Entries)
    OBVIOUS
  <1>2. scan \in {NoScan} \union Scans /\ ask \in {NoAsk} \union Asks
    BY DEF rootsTypeOK
  <1>3. /\ ask = NoAsk <=> ask \notin Asks
        /\ ask.roots \subseteq Names /\ ask.all \in BOOLEAN
    <2>1. ask = NoAsk => ask \notin Asks /\ ask.roots = {} /\ ask.all = FALSE
      BY DEF Asks, NoAsk
    <2>2. ask \in Asks => ask.roots \subseteq Names /\ ask.all \in BOOLEAN
      BY DEF Asks
    <2>3. QED
      BY <1>2, <2>1, <2>2
  <1>4. scan = NoScan => /\ scan \notin Scans /\ scan.pc = "idle" /\ scan.names = {}
                          /\ scan.todo = <<>> /\ scan.table = <<>>
    BY DEF Scans, NoScan
  <1>5. scan \in Scans => /\ scan.pc # "idle" /\ scan.names \subseteq Names
                          /\ scan.todo \in Seq(Entries) /\ scan.table \in Seq(Entries)
    BY DEF Scans
  <1>6. QED
    BY <1>1, <1>2, <1>3, <1>4, <1>5

\* The function that PathOf builds has the names of its entries, and Overlay both.
LEMMA PathsOf ==
  ASSUME NEW S \in SUBSET Entries
  PROVE  DOMAIN PathOf(S) = NamesOf(S) /\ NamesOf(S) \subseteq Names
  BY DEF PathOf, NamesOf, Entries

\* One function laid over another.
LEMMA Overlaid ==
  ASSUME NEW f, NEW g PROVE DOMAIN Overlay(f, g) = DOMAIN f \union DOMAIN g
  BY DEF Overlay

\* The file at the beginning is one.
LEMMA rootsInitType ==
  ASSUME rootsInit PROVE rootsTypeOK
  <1>1. <<>> \in Seq(Entries) /\ NoFile \in Files
    BY DEF NoFile, Files, Forms
  <1>2. InitialFile \in Files
    BY RootsAssumption
  <1>3. DOMAIN handles = {} /\ DOMAIN rows = {}
    BY DEF rootsInit
  <1>4. used \in Spent /\ past \in Pasts
    BY DEF rootsInit, Spent, Pasts
  <1>5. QED
    BY <1>1, <1>2, <1>3, <1>4 DEF rootsInit, rootsTypeOK

\* Every step keeps the types.
LEMMA rootsTypeStep ==
  ASSUME RootsInv, [rootsNext]_rootsVars PROVE rootsTypeOK'
  <1> USE DEF process, Later
  <1>i. rootsTypeOK /\ NamesUnique
    BY DEF RootsInv
  <1>t. /\ file \in Files /\ bak \in Files /\ digest \in Files
        /\ Listed(file) \subseteq Entries /\ file.roots \in Seq(Entries)
    BY <1>i DEF rootsTypeOK, Files, Listed, ToSet
  <1>n. <<>> \in Seq(Entries) /\ NoFile \in Files
    BY DEF NoFile, Files, Forms
  <1>s. ASSUME NEW what \in {"edits", "requests", "scans", "starts"}, Spend(what) PROVE used' \in Spent
    BY <1>s, <1>i DEF Spend, rootsTypeOK, Spent
  <1>p. ASSUME NEW late \in SUBSET Names, NEW gone \in SUBSET Names, NEW raced \in BOOLEAN, NEW adrift \in BOOLEAN
        PROVE  /\ [past EXCEPT !.late = late, !.raced = raced, !.adrift = adrift] \in Pasts
               /\ [past EXCEPT !.late = late] \in Pasts
               /\ [past EXCEPT !.gone = gone] \in Pasts
               /\ [past EXCEPT !.adrift = adrift] \in Pasts
               /\ [past EXCEPT !.gone = gone, !.raced = raced] \in Pasts
               /\ [past EXCEPT !.gone = gone, !.adrift = adrift] \in Pasts
    BY <1>i DEF rootsTypeOK, Pasts
  <1>g. past \in Pasts /\ past.gone \in SUBSET Names /\ past.late \in SUBSET Names
        /\ past.raced \in BOOLEAN /\ past.adrift \in BOOLEAN
    BY <1>i DEF rootsTypeOK, Pasts
  <1>r. ASSUME edit \in Edits PROVE {edit.entry} \in SUBSET Entries /\ edit.entry.name \in Names
    BY <1>r, <1>i, EditIs
  <1>1. CASE Start
    <2>1. cfg' \subseteq Entries /\ table' \in Seq(Entries) /\ digest' \in Files
      BY <1>1, <1>t DEF Start
    <2>2. DOMAIN rows' = DOMAIN rows \union NamesOf(Listed(file)) /\ DOMAIN rows' \subseteq Names
      <3>1. DOMAIN reconcileRoots(Listed(file)) = DOMAIN rows \union DOMAIN PathOf(Listed(file))
        BY Overlaid DEF reconcileRoots
      <3>2. QED
        BY <3>1, <1>1, <1>i, <1>t, PathsOf DEF Start, rootsTypeOK
    <2>3. DOMAIN handles' \subseteq Names
      <3>1. {e \in Listed(file) : e.enabled} \in SUBSET Entries
        BY <1>t
      <3>2. QED
        BY <3>1, <1>1, PathsOf DEF Start, OpenRoots
    <2>4. used' \in Spent
      BY <1>s, <1>1 DEF Start
    <2>5. past' \in Pasts
      BY <1>1, <1>p DEF Start
    <2>6. QED
      BY <2>1, <2>2, <2>3, <2>4, <2>5, <1>1, <1>i DEF Start, rootsTypeOK
  <1>2. CASE Stop
    <2>1. DOMAIN handles' = {}
      BY <1>2 DEF Stop
    <2>2. QED
      BY <2>1, <1>2, <1>n, <1>i DEF Stop, rootsTypeOK
  <1>3. CASE HandEdit
    <2>1. file' \in Files
      <3>1. ASSUME NEW form \in Forms, file' = [file EXCEPT !.form = form] PROVE file' \in Files
        BY <3>1, <1>t, FileUpdates
      <3>2. CASE file' = [file EXCEPT !.note = 1 - @]
        BY <3>2, <1>t, FileUpdates DEF Forms
      <3>3. ASSUME NEW e \in Entries, file' = [file EXCEPT !.roots = Append(@, e)] PROVE file' \in Files
        <4>1. Append(file.roots, e) \in Seq(Entries)
          BY <1>t
        <4>2. file' = [file EXCEPT !.roots = Append(file.roots, e)]
          BY <3>3
        <4>3. QED
          BY <4>1, <4>2, <1>t, FileUpdates DEF Forms
      <3>4. ASSUME NEW n \in NamesOf(Listed(file)),
                   file' = [file EXCEPT !.roots = RemoveAt(@, IndexOf(@, n))]
            PROVE  file' \in Files
        <4>1. RemoveAt(file.roots, IndexOf(file.roots, n)) \in Seq(Entries)
          BY <1>t, <1>i, Removed DEF Listed, NamesUnique
        <4>2. file' = [file EXCEPT !.roots = RemoveAt(file.roots, IndexOf(file.roots, n))]
          BY <3>4
        <4>3. QED
          BY <4>1, <4>2, <1>t, FileUpdates DEF Forms
      <3>5. QED
        BY <3>1, <3>2, <3>3, <3>4, <1>3, <1>t DEF HandEdit
    <2>2. used' \in Spent
      BY <1>s, <1>3 DEF HandEdit
    <2>3. past' \in Pasts
      <3>1. past.gone \ NamesOf(Listed(file')) \in SUBSET Names /\ (past.raced \/ InWindow) \in BOOLEAN
        BY <1>g DEF InWindow
      <3>2. past' = [past EXCEPT !.gone = past.gone \ NamesOf(Listed(file')), !.raced = (past.raced \/ InWindow)]
        BY <1>3 DEF HandEdit
      <3>3. QED
        BY <3>1, <3>2, <1>p, <1>g
    <2>4. QED
      BY <2>1, <2>2, <2>3, <1>3, <1>i DEF HandEdit, rootsTypeOK
  <1>f. ASSUME edit' \in {NoEdit} \union Edits, used' \in Spent, past' \in Pasts, file' \in Files, bak' \in Files,
               UNCHANGED <<up, process, ask, scan, rows, books>>
        PROVE  rootsTypeOK'
    BY <1>f, <1>i DEF rootsTypeOK
  <1>u. used \in Spent /\ NoEdit \in {NoEdit} \union Edits /\ edit \in {NoEdit} \union Edits
    BY <1>i DEF rootsTypeOK
  <1>4. ASSUME NEW p \in Paths, CreateRoot(p) PROVE rootsTypeOK'
    <2> DEFINE name == uniqueRootName(Slug[p], NamesOf(Listed(file)))
    <2>1. name \in Names
      <3> DEFINE taken == NamesOf(Listed(file))
      <3>1. \E n \in 1..MaxSuffix : <<Slug[p], n>> \notin taken
        BY <1>4 DEF CreateRoot
      <3>. HIDE DEF taken
      <3>2. \E n \in 1..MaxSuffix : <<Slug[p], n>> \notin taken /\ \A k \in 1..(n - 1) : <<Slug[p], k>> \in taken
        <4> DEFINE Free == {n \in 1..MaxSuffix : <<Slug[p], n>> \notin taken}
        <4>1. Free \subseteq Nat /\ Free # {}
          BY <3>1
        <4>2. PICK n \in Free : \A k \in Free : n <= k
          <5>. HIDE DEF Free
          <5>1. QED
            BY <4>1, LeastOf
        <4>3. \A k \in 1..(n - 1) : k \in 1..MaxSuffix /\ ~ (n <= k)
          BY RootsAssumption
        <4>4. QED
          BY <4>2, <4>3
      <3>3. uniqueRootName(Slug[p], taken) \in {Slug[q] : q \in Paths} \X (1..MaxSuffix)
        BY <3>2 DEF uniqueRootName
      <3>4. QED
        BY <3>3 DEF Names, taken
    <2>. HIDE DEF name
    <2>2. [name |-> name, path |-> p, enabled |-> TRUE] \in Entries
      BY <2>1 DEF Entries
    <2>3. edit' = [pc |-> "splice", op |-> "add", prior |-> file, out |-> NoFile,
                   entry |-> [name |-> name, path |-> p, enabled |-> TRUE]]
      BY <1>4 DEF CreateRoot, name
    <2>4. edit' \in Edits
      BY <2>2, <2>3, <1>t, <1>n DEF Edits
    <2>5. used' \in Spent
      BY <1>s, <1>4 DEF CreateRoot
    <2>6. QED
      BY <2>4, <2>5, <1>f, <1>4, <1>t, <1>g DEF CreateRoot
  <1>5. ASSUME NEW n \in Names, DeleteRoot(n) PROVE rootsTypeOK'
    <2>1. file.roots[IndexOf(file.roots, n)] \in Entries
      BY <1>5, <1>t, <1>i, Removed DEF DeleteRoot, Listed, NamesUnique
    <2>2. edit' \in Edits
      BY <2>1, <1>5, <1>t, <1>n DEF DeleteRoot, Edits
    <2>3. used' \in Spent
      BY <1>s, <1>5 DEF DeleteRoot
    <2>4. QED
      BY <2>2, <2>3, <1>f, <1>5, <1>t, <1>g DEF DeleteRoot
  <1>6. ASSUME Refuse PROVE rootsTypeOK'
    BY <1>6, <1>f, <1>u, <1>t, <1>g DEF Refuse
  <1>7. CASE SpliceAdd
    <2>1. edit \in Edits
      BY <1>7, <1>i, EditIs DEF SpliceAdd
    <2>2. CASE Refuse
      BY <2>2, <1>6
    <2>3. CASE edit' = [edit EXCEPT !.pc = "backup", !.out = [file EXCEPT !.roots = Append(@, edit.entry)]]
               /\ UNCHANGED <<file, bak, up, process, ask, scan, rows, books, used, past>>
      <3>1. Append(file.roots, edit.entry) \in Seq(Entries)
        BY <2>1, <1>r, <1>t, Appended
      <3>2. [file EXCEPT !.roots = Append(file.roots, edit.entry)] \in Files
        BY <3>1, <1>t, FileUpdates DEF Forms
      <3>3. edit' = [edit EXCEPT !.pc = "backup", !.out = [file EXCEPT !.roots = Append(file.roots, edit.entry)]]
        BY <2>3
      <3>4. edit' \in Edits
        <4>1. ASSUME NEW f \in Files PROVE [edit EXCEPT !.pc = "backup", !.out = f] \in Edits
          BY <2>1, EditWrites
        <4>2. QED
          BY <3>2, <3>3, <4>1
      <3>5. QED
        BY <3>4, <2>3, <1>f, <1>u, <1>t, <1>g
    <2>4. QED
      BY <2>2, <2>3, <1>7 DEF SpliceAdd
  <1>8. CASE SpliceRemove
    <2>1. edit \in Edits
      BY <1>8, <1>i, EditIs DEF SpliceRemove
    <2>2. CASE Refuse
      BY <2>2, <1>6
    <2>3. CASE /\ edit.entry.name \in NamesOf(Listed(file))
               /\ edit' = [edit EXCEPT !.pc = "backup",
                                       !.out = [file EXCEPT !.roots = RemoveAt(@, IndexOf(@, edit.entry.name))]]
               /\ UNCHANGED <<file, bak, up, process, ask, scan, rows, books, used, past>>
      <3>1. RemoveAt(file.roots, IndexOf(file.roots, edit.entry.name)) \in Seq(Entries)
        BY <2>3, <1>t, <1>i, Removed DEF Listed, NamesUnique
      <3>2. [file EXCEPT !.roots = RemoveAt(file.roots, IndexOf(file.roots, edit.entry.name))] \in Files
        BY <3>1, <1>t, FileUpdates DEF Forms
      <3>3. edit' = [edit EXCEPT
                       !.pc = "backup",
                       !.out = [file EXCEPT !.roots =
                                  RemoveAt(file.roots, IndexOf(file.roots, edit.entry.name))]]
        BY <2>3
      <3>4. edit' \in Edits
        <4>1. ASSUME NEW f \in Files PROVE [edit EXCEPT !.pc = "backup", !.out = f] \in Edits
          BY <2>1, EditWrites
        <4>2. QED
          BY <3>2, <3>3, <4>1
      <3>5. QED
        BY <3>4, <2>3, <1>f, <1>u, <1>t, <1>g
    <2>4. QED
      BY <2>2, <2>3, <1>8 DEF SpliceRemove
  <1>9. CASE Backup
    <2>1. edit \in Edits
      BY <1>9, <1>i, EditIs DEF Backup
    <2>2. CASE Refuse
      BY <2>2, <1>6
    <2>3. CASE bak' = file /\ edit' = [edit EXCEPT !.pc = "rename"]
               /\ UNCHANGED <<file, up, process, ask, scan, rows, books, used, past>>
      <3>1. edit' \in Edits
        BY <2>1, <2>3, <1>t, EditUpdates
      <3>2. QED
        BY <3>1, <2>3, <1>f, <1>u, <1>t, <1>g
    <2>4. QED
      BY <2>2, <2>3, <1>9 DEF Backup
  <1>10. CASE Replace
    <2>1. edit \in Edits /\ edit.out \in Files
      BY <1>10, <1>i, EditIs DEF Replace
    <2>2. edit' \in Edits
      <3>1. edit' = [edit EXCEPT !.pc = "open"] \/ edit' = [edit EXCEPT !.pc = "mark"]
        BY <1>10 DEF Replace
      <3>2. [edit EXCEPT !.pc = "open"] \in Edits /\ [edit EXCEPT !.pc = "mark"] \in Edits
        BY <2>1, <1>t, EditUpdates
      <3>3. QED
        BY <3>1, <3>2
    <2>3. past' \in Pasts
      <3>1. past.gone \ {edit.entry.name} \in SUBSET Names
        BY <1>g
      <3>2. past' = past \/ past' = [past EXCEPT !.gone = past.gone \ {edit.entry.name}]
        BY <1>10 DEF Replace
      <3>3. QED
        BY <3>1, <3>2, <1>p, <1>g
    <2>4. QED
      BY <2>1, <2>2, <2>3, <1>f, <1>u, <1>t, <1>10 DEF Replace
  <1>11. CASE WriteFails \/ StaysPending \/ PurgeFails
    BY <1>11, <1>6 DEF WriteFails, StaysPending, PurgeFails
  <1>12. CASE OpenRoot
    <2>1. edit \in Edits
      BY <1>12, <1>i, EditIs DEF OpenRoot
    <2>2. edit' \in Edits
      BY <1>12, <2>1, <1>t, EditUpdates DEF OpenRoot
    <2>3. DOMAIN handles' \subseteq Names
      <3>1. DOMAIN Overlay(handles, PathOf({edit.entry})) = DOMAIN handles \union NamesOf({edit.entry})
            /\ NamesOf({edit.entry}) \subseteq Names
        BY <1>r, <2>1, PathsOf, Overlaid
      <3>2. QED
        BY <3>1, <1>12, <1>i DEF OpenRoot, rootsTypeOK
    <2>4. QED
      BY <2>2, <2>3, <1>12, <1>i DEF OpenRoot, rootsTypeOK
  <1>13. CASE AdoptRoot
    <2>1. edit \in Edits
      BY <1>13, <1>i, EditIs DEF AdoptRoot
    <2>2. edit' \in Edits
      BY <1>13, <2>1, <1>t, EditUpdates DEF AdoptRoot
    <2>3. digest' \in Files
      BY <1>13, <1>t DEF AdoptRoot, Rebase
    <2>4. past' \in Pasts
      <3>1. Drift \in BOOLEAN /\ past' = [past EXCEPT !.adrift = Drift]
        BY <1>13 DEF AdoptRoot, Drift
      <3>2. QED
        BY <3>1, <1>p, <1>g
    <2>5. added' \subseteq Entries
      BY <1>13, <2>1, <1>r, <1>i DEF AdoptRoot, rootsTypeOK
    <2>6. QED
      BY <2>2, <2>3, <2>4, <2>5, <1>13, <1>i DEF AdoptRoot, rootsTypeOK
  <1>14. CASE AddConfigRoot
    <2>1. edit \in Edits
      BY <1>14, <1>i, EditIs DEF AddConfigRoot
    <2>2. edit' \in Edits
      BY <1>14, <2>1, <1>t, EditUpdates DEF AddConfigRoot
    <2>3. table' \in Seq(Entries)
      <3>1. table \in Seq(Entries) /\ edit.entry \in Entries
        BY <2>1, <1>r, <1>i DEF rootsTypeOK
      <3>2. Append(table, edit.entry) \in Seq(Entries)
        BY <3>1
      <3>3. QED
        BY <3>1, <3>2, <1>14 DEF AddConfigRoot
    <2>4. QED
      BY <2>2, <2>3, <1>14, <1>i DEF AddConfigRoot, rootsTypeOK
  <1>15. CASE UpsertRow
    <2>1. edit \in Edits
      BY <1>15, <1>i, EditIs DEF UpsertRow
    <2>2. edit' \in Edits
      BY <1>15, <2>1, <1>t, EditUpdates DEF UpsertRow
    <2>3. DOMAIN rows' \subseteq Names /\ DOMAIN rows \subseteq DOMAIN rows'
      <3>1. DOMAIN Overlay(rows, PathOf({edit.entry})) = DOMAIN rows \union NamesOf({edit.entry})
            /\ NamesOf({edit.entry}) \subseteq Names
        BY <1>r, <2>1, PathsOf, Overlaid
      <3>2. QED
        BY <3>1, <1>15, <1>i DEF UpsertRow, rootsTypeOK
    <2>4. books' \subseteq DOMAIN rows'
      BY <2>3, <1>15, <1>i DEF UpsertRow, rootsTypeOK
    <2>5. QED
      BY <2>2, <2>3, <2>4, <1>15, <1>i DEF UpsertRow, rootsTypeOK
  <1>b. ASSUME NEW names \in SUBSET Names, Begin(names) PROVE scan' \in {NoScan} \union Scans
    BY <1>b, <1>i DEF Begin, rootsTypeOK, Scans
  <1>16. CASE StartScan
    <2>1. {edit.entry.name} \in SUBSET Names
      BY <1>16, <1>i, EditIs DEF StartScan
    <2>2. scan' \in {NoScan} \union Scans
      BY <2>1, <1>b, <1>16, <1>i DEF StartScan, rootsTypeOK
    <2>3. QED
      BY <2>2, <1>16, <1>i DEF StartScan, rootsTypeOK
  <1>17. CASE Purge
    <2>1. edit \in Edits
      BY <1>17, <1>i, EditIs DEF Purge
    <2>2. edit' \in Edits
      BY <1>17, <2>1, <1>t, EditUpdates DEF Purge
    <2>3. DOMAIN rows' = DOMAIN rows \ {edit.entry.name}
      BY <1>17 DEF Purge
    <2>4. books' \subseteq DOMAIN rows' /\ DOMAIN rows' \subseteq Names
      BY <2>3, <1>17, <1>i DEF Purge, rootsTypeOK
    <2>5. QED
      BY <2>2, <2>4, <1>17, <1>i DEF Purge, rootsTypeOK
  <1>18. CASE MarkRemoved
    <2>1. edit \in Edits /\ edit.entry.name \in Names
      BY <1>18, <1>i, EditIs DEF MarkRemoved
    <2>2. edit' \in Edits
      BY <1>18, <2>1, <1>t, EditUpdates DEF MarkRemoved
    <2>3. past' \in Pasts
      <3>1. past.late \union {edit.entry.name} \in SUBSET Names
        BY <1>g, <2>1
      <3>2. past' = past \/ past' = [past EXCEPT !.late = past.late \union {edit.entry.name}]
        BY <1>18 DEF MarkRemoved
      <3>3. QED
        BY <3>1, <3>2, <1>p, <1>g
    <2>4. removed' \subseteq Names
      BY <2>1, <1>18, <1>i DEF MarkRemoved, rootsTypeOK
    <2>5. QED
      BY <2>2, <2>3, <2>4, <1>18, <1>i DEF MarkRemoved, rootsTypeOK
  <1>19. CASE ReleaseRoot
    <2>1. edit.entry.name \in Names
      BY <1>19, <1>i, EditIs DEF ReleaseRoot
    <2>2. digest' \in Files
      BY <1>19, <1>t DEF ReleaseRoot, Rebase
    <2>3. past' \in Pasts
      <3> DEFINE gone == past.gone \union ({edit.entry.name} \ NamesOf(Listed(file)))
      <3>1. gone \in SUBSET Names /\ Drift \in BOOLEAN /\ past' = [past EXCEPT !.gone = gone, !.adrift = Drift]
        BY <1>19, <1>g, <2>1 DEF ReleaseRoot, Drift
      <3>2. QED
        BY <3>1, <1>p, <1>g
    <2>4. added' \subseteq Entries
      BY <1>19, <1>i DEF ReleaseRoot, rootsTypeOK, NotNamed
    <2>5. QED
      BY <2>2, <2>3, <2>4, <1>19, <1>i DEF ReleaseRoot, rootsTypeOK
  <1>a. ASSUME ask' \in {NoAsk} \union Asks, scan' \in {NoScan} \union Scans, used' \in Spent,
               UNCHANGED <<file, bak, up, process, edit, rows, books, past>>
        PROVE  rootsTypeOK'
    BY <1>a, <1>i DEF rootsTypeOK
  <1>20. CASE AskAll
    <2>1. ScannedByDefault \subseteq Names
      BY <1>i DEF ScannedByDefault, configuredRoots, NamesOf, rootsTypeOK, Entries
    <2>2. ask' \in Asks
      BY <2>1, <1>20 DEF AskAll, Asks
    <2>3. used' \in Spent
      BY <1>s, <1>20 DEF AskAll
    <2>4. QED
      BY <2>2, <2>3, <1>a, <1>20, <1>i DEF AskAll, rootsTypeOK
  <1>21. ASSUME NEW n \in Names, AskOne(n) PROVE rootsTypeOK'
    <2>1. ask' \in Asks
      BY <1>21 DEF AskOne, Asks
    <2>2. used' \in Spent
      BY <1>s, <1>21 DEF AskOne
    <2>3. QED
      BY <2>1, <2>2, <1>a, <1>21, <1>i DEF AskOne, rootsTypeOK
  <1>22. CASE StartAsked
    <2>1. (IF ask.all THEN NamesOf(ToSet(table)) ELSE ask.roots) \in SUBSET Names
      <3>1. NamesOf(ToSet(table)) \subseteq Names
        <4>1. ToSet(table) \in SUBSET Entries
          <5>1. table \in Seq(Entries)
            BY <1>i DEF rootsTypeOK
          <5>2. QED
            BY <5>1 DEF ToSet
        <4>2. QED
          BY <4>1, PathsOf
      <3>2. QED
        BY <3>1, <1>i, ScanIs
    <2>2. scan' \in {NoScan} \union Scans
      BY <2>1, <1>b, <1>22, <1>i DEF StartAsked, rootsTypeOK
    <2>3. QED
      BY <2>2, <1>a, <1>22, <1>i DEF StartAsked, rootsTypeOK
  <1>c. ASSUME NEW t \in Seq(Entries), scan \in Scans
        PROVE  [scan EXCEPT !.todo = t] \in Scans /\ [scan EXCEPT !.pc = "walk", !.todo = t] \in Scans
    BY <1>c DEF Scans
  <1>23. CASE RecordRoot
    <2>1. scan \in Scans
      BY <1>23, <1>i DEF RecordRoot, rootsTypeOK, NoScan
    <2>2. scan.todo \in Seq(Entries) /\ scan.table \in Seq(Entries)
      BY <2>1 DEF Scans
    <2>3. CASE scan.todo # <<>>
      <3>1. Tail(scan.todo) \in Seq(Entries) /\ Head(scan.todo) \in Entries
        BY <2>2, <2>3
      <3>2. scan' \in Scans
        BY <3>1, <2>1, <2>3, <1>c, <1>23 DEF RecordRoot
      <3>3. DOMAIN rows' = DOMAIN rows \union {Head(scan.todo).name}
        <4>1. \E p : rows' = Overlay(rows, [n \in {Head(scan.todo).name} |-> p])
          BY <2>3, <1>23 DEF RecordRoot
        <4>2. PICK p : rows' = Overlay(rows, [n \in {Head(scan.todo).name} |-> p])
          BY <4>1
        <4>3. DOMAIN [n \in {Head(scan.todo).name} |-> p] = {Head(scan.todo).name}
          OBVIOUS
        <4>4. QED
          BY <4>2, <4>3, Overlaid
      <3>4. Head(scan.todo).name \in Names
        BY <3>1 DEF Entries
      <3>5. DOMAIN rows' \subseteq Names /\ books' \subseteq DOMAIN rows'
        BY <3>3, <3>4, <1>23, <1>i DEF RecordRoot, rootsTypeOK
      <3>6. QED
        BY <3>2, <3>5, <1>23, <1>i DEF RecordRoot, rootsTypeOK
    <2>4. CASE scan.todo = <<>>
      <3>1. scan' \in Scans
        BY <2>1, <2>2, <2>4, <1>c, <1>23 DEF RecordRoot
      <3>2. QED
        BY <3>1, <2>4, <1>23, <1>i DEF RecordRoot, rootsTypeOK
    <2>5. QED
      BY <2>3, <2>4
  <1>24. CASE WalkRoot
    <2>1. scan \in Scans
      BY <1>24, <1>i DEF WalkRoot, rootsTypeOK, NoScan
    <2>2. scan.todo \in Seq(Entries) /\ scan.todo # <<>>
      BY <2>1, <1>24 DEF Scans, WalkRoot
    <2>3. Tail(scan.todo) \in Seq(Entries)
      BY <2>2
    <2>4. scan' \in Scans
      BY <2>1, <2>3, <1>c, <1>24 DEF WalkRoot
    <2>5. books' \subseteq DOMAIN rows'
      BY <1>24, <1>i DEF WalkRoot, rootsTypeOK
    <2>6. QED
      BY <2>4, <2>5, <1>24, <1>i DEF WalkRoot, rootsTypeOK
  <1>25. CASE EndScan
    BY <1>25, <1>i DEF EndScan, rootsTypeOK
  <1>26. CASE UNCHANGED rootsVars
    BY <1>26, <1>i DEF rootsVars, rootsTypeOK
  <1>q. QED
    BY <1>1, <1>2, <1>3, <1>4, <1>5, <1>7, <1>8, <1>9, <1>10, <1>11, <1>12, <1>13, <1>14, <1>15, <1>16,
       <1>17, <1>18, <1>19, <1>20, <1>21, <1>22, <1>23, <1>24, <1>25, <1>26 DEF rootsNext, Serve, Scanning
\* The steps of a request that only move it on keep what it has read and written.
LEMMA Goes ==
  ASSUME rootsTypeOK, edit # NoEdit,
         NEW c \in Later,
         edit' = [edit EXCEPT !.pc = c]
  PROVE  /\ edit \in Edits /\ edit' # NoEdit /\ edit'.pc = c
         /\ edit'.op = edit.op /\ edit'.entry = edit.entry
         /\ edit'.prior = edit.prior /\ edit'.out = edit.out
  <1> USE DEF Later
  <1>1. edit \in Edits /\ file \in Files
    BY EditIs DEF rootsTypeOK
  <1> DEFINE next == [edit EXCEPT !.pc = c]
  <1>a. /\ next.pc = c /\ next.op = edit.op /\ next.entry = edit.entry
        /\ next.prior = edit.prior /\ next.out = edit.out
    BY <1>1, EditUpdates
  <1>2. edit'.pc = c /\ edit'.op = edit.op /\ edit'.entry = edit.entry
        /\ edit'.prior = edit.prior /\ edit'.out = edit.out
    BY <1>a
  <1>3. edit' # NoEdit
    BY <1>2 DEF NoEdit
  <1>4. QED
    BY <1>1, <1>2, <1>3

\* A splice is refused, or adds the root to the roots of the file, or takes it out.
LEMMA Splices ==
  ASSUME rootsTypeOK, NamesUnique, SpliceAdd \/ SpliceRemove
  PROVE  \/ Refuse
         \/ /\ edit \in Edits /\ edit' # NoEdit /\ edit.pc = "splice" /\ edit'.pc = "backup"
            /\ edit'.op = edit.op /\ edit'.entry = edit.entry /\ edit'.prior = edit.prior
            /\ edit'.out.form = "block" /\ edit'.out.roots # <<>> /\ Unique(edit'.out.roots)
            /\ Listed(edit'.out) = IF edit.op = "add" THEN Listed(file) \union {edit.entry}
                                                       ELSE NotNamed(Listed(file), edit.entry.name)
            /\ UNCHANGED <<file, bak, up, process, ask, scan, rows, books, used, past>>
  <1>1. edit \in Edits /\ edit.entry \in Entries /\ edit.pc = "splice"
    BY EditIs DEF SpliceAdd, SpliceRemove
  <1>2. file \in Files /\ file.roots \in Seq(Entries)
    BY DEF rootsTypeOK, Files
  <1>3. ASSUME NEW r \in Seq(Entries), edit' = [edit EXCEPT !.pc = "backup", !.out = [file EXCEPT !.roots = r]]
        PROVE  /\ edit' # NoEdit /\ edit'.pc = "backup"
               /\ edit'.op = edit.op /\ edit'.entry = edit.entry /\ edit'.prior = edit.prior
               /\ edit'.out.form = file.form /\ edit'.out.roots = r
    <2>1. /\ [file EXCEPT !.roots = r] \in Files /\ [file EXCEPT !.roots = r].roots = r
          /\ [file EXCEPT !.roots = r].form = file.form
      BY <1>2, FileUpdates DEF Forms
    <2>2. ASSUME NEW f \in Files, edit' = [edit EXCEPT !.pc = "backup", !.out = f]
          PROVE  /\ edit'.pc = "backup" /\ edit'.out = f
                 /\ edit'.op = edit.op /\ edit'.entry = edit.entry /\ edit'.prior = edit.prior
      <3> DEFINE next == [edit EXCEPT !.pc = "backup", !.out = f]
      <3>1. /\ next.pc = "backup" /\ next.out = f
            /\ next.op = edit.op /\ next.entry = edit.entry /\ next.prior = edit.prior
        BY <1>1, EditWrites
      <3>2. QED
        BY <3>1, <2>2
    <2>3. /\ edit'.pc = "backup" /\ edit'.out = [file EXCEPT !.roots = r]
          /\ edit'.op = edit.op /\ edit'.entry = edit.entry /\ edit'.prior = edit.prior
      BY <1>3, <2>1, <2>2
    <2>4. edit' # NoEdit
      BY <2>3 DEF NoEdit
    <2>5. QED
      BY <2>1, <2>3, <2>4
  <1>4. CASE SpliceAdd /\ ~ Refuse
    <2> DEFINE r == Append(file.roots, edit.entry)
    <2>1. /\ edit.op = "add" /\ file.form = "block" /\ edit.entry.name \notin NamesOf(ToSet(file.roots))
          /\ edit' = [edit EXCEPT !.pc = "backup", !.out = [file EXCEPT !.roots = r]]
          /\ UNCHANGED <<file, bak, up, process, ask, scan, rows, books, used, past>>
      BY <1>4 DEF SpliceAdd, Listed
    <2>2. /\ r \in Seq(Entries) /\ r # <<>> /\ Unique(r)
          /\ ToSet(r) = ToSet(file.roots) \union {edit.entry}
      BY <1>1, <1>2, <2>1, Appended DEF NamesUnique
    <2>. HIDE DEF r
    <2>3. QED
      BY <1>1, <1>3, <2>1, <2>2 DEF Listed
  <1>5. CASE SpliceRemove /\ ~ Refuse
    <2> DEFINE r == RemoveAt(file.roots, IndexOf(file.roots, edit.entry.name))
    <2>1. /\ edit.op = "remove" /\ file.form = "block" /\ edit.entry.name \in NamesOf(ToSet(file.roots))
          /\ Len(file.roots) > 1
          /\ edit' = [edit EXCEPT !.pc = "backup", !.out = [file EXCEPT !.roots = r]]
          /\ UNCHANGED <<file, bak, up, process, ask, scan, rows, books, used, past>>
      BY <1>5 DEF SpliceRemove, Listed
    <2>2. /\ r \in Seq(Entries) /\ Len(r) = Len(file.roots) - 1 /\ Unique(r)
          /\ ToSet(r) = NotNamed(ToSet(file.roots), edit.entry.name)
      BY <1>2, <2>1, Removed DEF NamesUnique
    <2>. HIDE DEF r
    <2>3. Len(file.roots) \in Nat /\ r # <<>>
      BY <1>2, <2>1, <2>2
    <2>4. QED
      BY <1>1, <1>3, <2>1, <2>2, <2>3 DEF Listed
  <1>6. QED
    BY <1>4, <1>5

\* An edit by hand leaves a file with no name twice.
LEMMA HandEdits ==
  ASSUME rootsTypeOK, NamesUnique, HandEdit PROVE Unique(file'.roots)
  <1>1. file \in Files /\ file.roots \in Seq(Entries)
    BY DEF rootsTypeOK, Files
  <1>2. ASSUME NEW r \in Seq(Entries), file' = [file EXCEPT !.roots = r] PROVE file'.roots = r
    BY <1>1, <1>2, FileUpdates DEF Forms
  <1>3. CASE \E form \in Forms : file' = [file EXCEPT !.form = form]
    BY <1>1, <1>3, FileUpdates DEF NamesUnique
  <1>4. CASE file' = [file EXCEPT !.note = 1 - @]
    <2>1. file'.roots = file.roots
      BY <1>1, <1>4, FileUpdates DEF Forms
    <2>2. QED
      BY <2>1 DEF NamesUnique
  <1>5. ASSUME NEW e \in Entries, e.name \notin NamesOf(Listed(file)),
               file' = [file EXCEPT !.roots = Append(@, e)]
        PROVE  Unique(file'.roots)
    <2>1. Append(file.roots, e) \in Seq(Entries) /\ Unique(Append(file.roots, e))
      BY <1>1, <1>5, Appended DEF NamesUnique, Listed
    <2>2. file' = [file EXCEPT !.roots = Append(file.roots, e)]
      BY <1>5
    <2>3. file'.roots = Append(file.roots, e)
      BY <1>2, <2>1, <2>2
    <2>4. QED
      BY <2>1, <2>3
  <1>6. ASSUME NEW n \in NamesOf(Listed(file)), file' = [file EXCEPT !.roots = RemoveAt(@, IndexOf(@, n))]
        PROVE  Unique(file'.roots)
    <2> DEFINE r == RemoveAt(file.roots, IndexOf(file.roots, n))
    <2>1. r \in Seq(Entries) /\ Unique(r)
      BY <1>1, Removed DEF NamesUnique, Listed
    <2>2. file' = [file EXCEPT !.roots = r]
      BY <1>6
    <2>. HIDE DEF r
    <2>3. file'.roots = r
      BY <1>2, <2>1, <2>2
    <2>4. QED
      BY <2>1, <2>3
  <1>7. CASE file' = bak
    BY <1>7 DEF NamesUnique
  <1>8. QED
    BY <1>3, <1>4, <1>5, <1>6, <1>7 DEF HandEdit

\* What the process keeps in memory is gone while it does not run.
LEMMA RestStep ==
  ASSUME RootsInv, [rootsNext]_rootsVars PROVE AtRest'
  <1> USE DEF process
  <1>1. rootsTypeOK /\ AtRest
    BY DEF RootsInv
  <1>2. CASE Start \/ Stop
    BY <1>2 DEF Start, Stop, AtRest
  <1>3. CASE ~ up
    <2>1. /\ edit = NoEdit /\ ask = NoAsk /\ scan = NoScan /\ removed = {} /\ added = {}
          /\ edit.pc = "idle" /\ scan.pc = "idle"
      BY <1>1, <1>3, EditIs, ScanIs DEF AtRest
    <2>2. CASE HandEdit \/ UNCHANGED rootsVars
      BY <2>1, <2>2 DEF HandEdit, AtRest, rootsVars
    <2>3. ~ Serve
      BY <1>3, <2>1
      DEF Serve, CreateRoot, DeleteRoot, SpliceAdd, SpliceRemove, Backup, Replace, WriteFails, OpenRoot,
          StaysPending, AdoptRoot, AddConfigRoot, UpsertRow, StartScan, Purge, PurgeFails, MarkRemoved, ReleaseRoot
    <2>4. ~ Scanning
      BY <1>3, <2>1 DEF Scanning, AskAll, AskOne, StartAsked, RecordRoot, WalkRoot, EndScan
    <2>5. QED
      BY <1>2, <2>2, <2>3, <2>4 DEF rootsNext
  <1>4. CASE up
    <2>1. CASE HandEdit \/ UNCHANGED rootsVars
      BY <1>4, <2>1 DEF HandEdit, AtRest, rootsVars
    <2>2. CASE Serve
      <3>1. up' = up
        BY <2>2
        DEF Serve, CreateRoot, DeleteRoot, SpliceAdd, SpliceRemove, Backup, Replace, WriteFails, OpenRoot, Refuse,
            StaysPending, AdoptRoot, AddConfigRoot, UpsertRow, StartScan, Purge, PurgeFails, MarkRemoved, ReleaseRoot
      <3>2. QED
        BY <1>4, <3>1 DEF AtRest
    <2>3. CASE Scanning
      <3>1. up' = up
        BY <2>3 DEF Scanning, AskAll, AskOne, StartAsked, RecordRoot, WalkRoot, EndScan
      <3>2. QED
        BY <1>4, <3>1 DEF AtRest
    <2>4. QED
      BY <1>2, <2>1, <2>2, <2>3 DEF rootsNext
  <1>5. QED
    BY <1>1, <1>3, <1>4 DEF rootsTypeOK

\* No file that the server or the operator leaves has a name twice.
LEMMA UniqueStep ==
  ASSUME RootsInv, [rootsNext]_rootsVars PROVE NamesUnique'
  <1> USE DEF process, Later
  <1>i. rootsTypeOK /\ NamesUnique
    BY DEF RootsInv
  <1>0. Unique(<<>>) /\ NoFile.roots = <<>>
    BY DEF Unique, NoFile
  <1>f. ASSUME UNCHANGED <<file, bak>>,
               edit' = NoEdit \/ edit' = edit \/ edit'.out = NoFile \/ (edit # NoEdit /\ edit'.out = edit.out)
        PROVE  NamesUnique'
    BY <1>f, <1>i, <1>0 DEF NamesUnique
  <1>g. ASSUME edit # NoEdit, NEW c \in Later,
               edit' = [edit EXCEPT !.pc = c], UNCHANGED <<file, bak>>
        PROVE  NamesUnique'
    BY <1>f, <1>g, <1>i, Goes
  <1>e. edit.pc # "idle" => edit # NoEdit
    BY <1>i, EditIs
  <1>r. ASSUME Refuse PROVE NamesUnique'
    BY <1>r, <1>f DEF Refuse
  <1>1. CASE Start \/ Stop
    BY <1>1, <1>f DEF Start, Stop
  <1>2. CASE HandEdit
    BY <1>2, <1>i, HandEdits DEF HandEdit, NamesUnique
  <1>3. ASSUME NEW p \in Paths, CreateRoot(p) PROVE NamesUnique'
    BY <1>3, <1>f DEF CreateRoot
  <1>4. ASSUME NEW n \in Names, DeleteRoot(n) PROVE NamesUnique'
    BY <1>4, <1>f DEF DeleteRoot
  <1>5. CASE SpliceAdd \/ SpliceRemove
    BY <1>5, <1>i, <1>r, Splices DEF NamesUnique
  <1>6. CASE Backup
    <2>1. CASE edit' = [edit EXCEPT !.pc = "rename"] /\ bak' = file /\ file' = file
      <3>1. edit' # NoEdit /\ edit'.out = edit.out
        BY <1>6, <2>1, <1>i, <1>e, Goes DEF Backup
      <3>2. QED
        BY <3>1, <2>1, <1>i, <1>e, <1>6 DEF NamesUnique, Backup
    <2>2. QED
      BY <2>1, <1>6, <1>r DEF Backup
  <1>7. CASE Replace
    <2>1. edit # NoEdit /\ file' = edit.out /\ bak' = bak
      BY <1>7, <1>e DEF Replace
    <2>2. edit' = [edit EXCEPT !.pc = "open"] \/ edit' = [edit EXCEPT !.pc = "mark"]
      BY <1>7 DEF Replace
    <2>3. edit'.out = edit.out
      BY <2>1, <2>2, <1>i, Goes
    <2>4. QED
      BY <2>1, <2>3, <1>i DEF NamesUnique
  <1>8. CASE WriteFails \/ StaysPending \/ PurgeFails
    BY <1>8, <1>r DEF WriteFails, StaysPending, PurgeFails
  <1>9. CASE OpenRoot
    BY <1>9, <1>g, <1>e DEF OpenRoot
  <1>10. CASE AdoptRoot
    BY <1>10, <1>g, <1>e DEF AdoptRoot
  <1>11. CASE AddConfigRoot
    BY <1>11, <1>g, <1>e DEF AddConfigRoot
  <1>12. CASE UpsertRow
    BY <1>12, <1>g, <1>e DEF UpsertRow
  <1>13. CASE Purge
    BY <1>13, <1>g, <1>e DEF Purge
  <1>14. CASE MarkRemoved
    BY <1>14, <1>g, <1>e DEF MarkRemoved
  <1>15. CASE StartScan \/ ReleaseRoot
    BY <1>15, <1>f DEF StartScan, ReleaseRoot
  <1>16. CASE Scanning
    BY <1>16, <1>f DEF Scanning, AskAll, AskOne, StartAsked, RecordRoot, WalkRoot, EndScan
  <1>17. CASE UNCHANGED rootsVars
    BY <1>17, <1>f DEF rootsVars
  <1>q. QED
    BY <1>1, <1>2, <1>3, <1>4, <1>5, <1>6, <1>7, <1>8, <1>9, <1>10, <1>11, <1>12, <1>13, <1>14, <1>15,
       <1>16, <1>17 DEF rootsNext, Serve

\* What a request has reached in the stage it is in.
LEMMA StagesStep ==
  ASSUME RootsInv, [rootsNext]_rootsVars PROVE Stages'
  <1> USE DEF process, Later
  <1>i. rootsTypeOK /\ NamesUnique /\ Stages /\ AtRest
    BY DEF RootsInv
  <1>e. edit.pc # "idle" => edit # NoEdit
    BY <1>i, EditIs
  <1>n. ASSUME edit' = NoEdit PROVE Stages'
    BY <1>n DEF Stages
  <1>f. ASSUME UNCHANGED <<edit, added, removed>> PROVE Stages'
    BY <1>f, <1>i DEF Stages
  <1>g. ASSUME edit # NoEdit, removed \subseteq removed', added \subseteq added',
               NEW c \in Later,
               edit' = [edit EXCEPT !.pc = c],
               c \in {"mark", "release"} => edit.op = "remove",
               c \in {"open", "adopt", "table", "row", "start"} => edit.op = "add",
               c = "release" => edit.entry.name \in removed',
               c \in {"table", "row", "start"} => edit.entry \in added'
        PROVE  Stages'
    <2>1. edit'.pc = c /\ edit'.op = edit.op /\ edit'.entry = edit.entry
      BY <1>g, <1>i, Goes
    <2>2. c # "purge"
      OBVIOUS
    <2>3. QED
      BY <2>1, <2>2, <1>g, <1>i DEF Stages
  <1>r. ASSUME Refuse PROVE Stages'
    BY <1>r, <1>n DEF Refuse
  <1>1. CASE Start
    BY <1>1, <1>n, <1>i DEF Start, AtRest
  <1>2. CASE Stop
    BY <1>2, <1>n DEF Stop
  <1>3. CASE HandEdit
    BY <1>3, <1>f DEF HandEdit
  <1>4. ASSUME NEW p \in Paths, CreateRoot(p) PROVE Stages'
    <2>1. edit'.pc = "splice" /\ edit'.op = "add" /\ edit'.entry.path = p
      BY <1>4 DEF CreateRoot
    <2>2. Reach(p) /\ p \notin StorageUnder
      BY <1>4 DEF CreateRoot, Acceptable
    <2>3. QED
      BY <2>1, <2>2 DEF Stages, Reach
  <1>5. ASSUME NEW n \in Names, DeleteRoot(n) PROVE Stages'
    BY <1>5 DEF DeleteRoot, Stages
  <1>6. CASE SpliceAdd \/ SpliceRemove
    <2>1. CASE Refuse
      BY <2>1, <1>r
    <2>2. CASE ~ Refuse
      <3>1. /\ edit # NoEdit /\ edit'.pc = "backup" /\ edit'.op = edit.op /\ edit'.entry = edit.entry
            /\ UNCHANGED <<added, removed>>
        BY <2>2, <1>6, <1>i, Splices, EditIs
      <3>2. QED
        BY <3>1, <1>i DEF Stages, Reach
    <2>3. QED
      BY <2>1, <2>2
  <1>7. CASE Backup
    <2>1. CASE edit' = [edit EXCEPT !.pc = "rename"] /\ UNCHANGED <<added, removed>>
      BY <2>1, <1>7, <1>e, <1>g DEF Backup
    <2>2. QED
      BY <2>1, <1>7, <1>r DEF Backup
  <1>8. CASE Replace
    <2>1. edit # NoEdit /\ UNCHANGED <<added, removed>> /\ edit.op \in {"add", "remove"}
      BY <1>8, <1>e, <1>i, EditIs DEF Replace
    <2>2. CASE edit.op = "add"
      <3>1. edit' = [edit EXCEPT !.pc = "open"]
        BY <1>8, <2>2 DEF Replace
      <3>2. QED
        BY <3>1, <2>1, <2>2, <1>g
    <2>3. CASE edit.op = "remove"
      <3>1. edit' = [edit EXCEPT !.pc = "mark"]
        BY <1>8, <2>3 DEF Replace
      <3>2. QED
        BY <3>1, <2>1, <2>3, <1>g
    <2>4. QED
      BY <2>1, <2>2, <2>3
  <1>9. CASE WriteFails \/ StaysPending \/ PurgeFails
    BY <1>9, <1>r DEF WriteFails, StaysPending, PurgeFails
  <1>10. CASE OpenRoot
    <2>1. edit.op = "add"
      BY <1>10, <1>e, <1>i DEF OpenRoot, Stages
    <2>2. QED
      BY <2>1, <1>10, <1>g, <1>e DEF OpenRoot
  <1>11. CASE AdoptRoot
    <2>1. edit.op = "add"
      BY <1>11, <1>e, <1>i DEF AdoptRoot, Stages
    <2>2. edit.entry \in added' /\ added \subseteq added'
      BY <1>11 DEF AdoptRoot
    <2>3. QED
      BY <2>1, <2>2, <1>11, <1>g, <1>e DEF AdoptRoot
  <1>12. CASE AddConfigRoot
    <2>1. edit.op = "add" /\ edit.entry \in added
      BY <1>12, <1>e, <1>i DEF AddConfigRoot, Stages
    <2>2. QED
      BY <2>1, <1>12, <1>g, <1>e DEF AddConfigRoot
  <1>13. CASE UpsertRow
    <2>1. edit.op = "add" /\ edit.entry \in added
      BY <1>13, <1>e, <1>i DEF UpsertRow, Stages
    <2>2. QED
      BY <2>1, <1>13, <1>g, <1>e DEF UpsertRow
  <1>14. CASE Purge
    BY <1>14, <1>g, <1>e DEF Purge
  <1>15. CASE MarkRemoved
    <2>1. edit.op = "remove"
      BY <1>15, <1>e, <1>i DEF MarkRemoved, Stages
    <2>2. edit.entry.name \in removed' /\ removed \subseteq removed'
      BY <1>15 DEF MarkRemoved
    <2>3. QED
      BY <2>1, <2>2, <1>15, <1>g, <1>e DEF MarkRemoved
  <1>16. CASE StartScan \/ ReleaseRoot
    BY <1>16, <1>n DEF StartScan, ReleaseRoot
  <1>17. CASE Scanning
    BY <1>17, <1>f DEF Scanning, AskAll, AskOne, StartAsked, RecordRoot, WalkRoot, EndScan
  <1>18. CASE UNCHANGED rootsVars
    BY <1>18, <1>f DEF rootsVars
  <1>q. QED
    BY <1>1, <1>2, <1>3, <1>4, <1>5, <1>6, <1>7, <1>8, <1>9, <1>10, <1>11, <1>12, <1>13, <1>14, <1>15,
       <1>16, <1>17, <1>18 DEF rootsNext, Serve

\* While nobody edits by hand, a request finds the file as it has left it.
LEMMA ReadsStep ==
  ASSUME RootsInv, [rootsNext]_rootsVars PROVE ReadsHold'
  <1> USE DEF process, Later
  <1>i. rootsTypeOK /\ NamesUnique /\ Stages /\ AtRest /\ ReadsHold
    BY DEF RootsInv
  <1>e. edit.pc # "idle" => edit # NoEdit
    BY <1>i, EditIs
  <1>p. past \in Pasts
    BY <1>i DEF rootsTypeOK
  <1>n. ASSUME edit' = NoEdit PROVE ReadsHold'
    BY <1>n DEF ReadsHold
  <1>f. ASSUME UNCHANGED <<edit, file, past>> PROVE ReadsHold'
    BY <1>f, <1>i DEF ReadsHold, Edited
  <1>g. ASSUME edit # NoEdit, past'.raced = past.raced, UNCHANGED file,
               NEW c \in Later,
               edit' = [edit EXCEPT !.pc = c],
               c = "splice" => edit.pc = "purge",
               c = "rename" => edit.pc = "backup",
               c = "release" => edit.pc = "mark",
               c = "adopt" => edit.pc = "open",
               c \notin {"open", "mark", "backup"}
        PROVE  ReadsHold'
    <2>1. edit'.pc = c /\ edit'.op = edit.op /\ edit'.entry = edit.entry /\ edit'.prior = edit.prior
          /\ edit'.out = edit.out
      BY <1>g, <1>i, Goes
    <2>2. c # "purge"
      OBVIOUS
    <2>3. QED
      BY <2>1, <2>2, <1>g, <1>i DEF ReadsHold, Edited
  <1>r. ASSUME Refuse PROVE ReadsHold'
    BY <1>r, <1>n DEF Refuse
  <1>1. CASE Start
    BY <1>1, <1>n, <1>i DEF Start, AtRest
  <1>2. CASE Stop
    BY <1>2, <1>n DEF Stop
  <1>3. CASE HandEdit
    <2>1. edit' = edit /\ past'.raced = (past.raced \/ InWindow)
      BY <1>3, <1>p DEF HandEdit, Pasts
    <2>2. QED
      BY <2>1 DEF ReadsHold, InWindow
  <1>4. ASSUME NEW p \in Paths, CreateRoot(p) PROVE ReadsHold'
    <2>1. edit'.pc = "splice" /\ edit'.prior = file /\ file' = file
      BY <1>4 DEF CreateRoot
    <2>2. QED
      BY <2>1 DEF ReadsHold
  <1>5. ASSUME NEW n \in Names, DeleteRoot(n) PROVE ReadsHold'
    <2>1. edit'.pc = "purge" /\ edit'.prior = file /\ file' = file
      BY <1>5 DEF DeleteRoot
    <2>2. QED
      BY <2>1 DEF ReadsHold
  <1>6. CASE SpliceAdd \/ SpliceRemove
    <2>1. CASE Refuse
      BY <2>1, <1>r
    <2>2. CASE ~ Refuse
      <3>1. /\ edit # NoEdit /\ edit.pc = "splice" /\ edit'.pc = "backup" /\ edit'.op = edit.op
            /\ edit'.entry = edit.entry /\ edit'.prior = edit.prior
            /\ Listed(edit'.out) = IF edit.op = "add" THEN Listed(file) \union {edit.entry}
                                                       ELSE NotNamed(Listed(file), edit.entry.name)
            /\ UNCHANGED <<file, past>>
        BY <2>2, <1>6, <1>i, Splices, EditIs
      <3>2. past.raced \/ file = edit.prior
        BY <3>1, <1>i DEF ReadsHold
      <3>3. QED
        BY <3>1, <3>2 DEF ReadsHold, Edited
    <2>3. QED
      BY <2>1, <2>2
  <1>7. CASE Backup
    <2>1. CASE edit' = [edit EXCEPT !.pc = "rename"] /\ UNCHANGED <<file, past>>
      BY <2>1, <1>7, <1>e, <1>g DEF Backup
    <2>2. QED
      BY <2>1, <1>7, <1>r DEF Backup
  <1>8. CASE Replace
    <2>1. edit # NoEdit /\ edit.pc = "rename" /\ file' = edit.out
      BY <1>8, <1>e DEF Replace
    <2>2. edit' = [edit EXCEPT !.pc = "open"] \/ edit' = [edit EXCEPT !.pc = "mark"]
      BY <1>8 DEF Replace
    <2>3. /\ edit'.pc \in {"open", "mark"} /\ edit'.op = edit.op /\ edit'.entry = edit.entry
          /\ edit'.prior = edit.prior
      BY <2>1, <2>2, <1>i, Goes
    <2>4. past'.raced = past.raced
      BY <1>8, <1>p DEF Replace, Pasts
    <2>5. past.raced \/ Edited(edit.out)
      BY <2>1, <1>i DEF ReadsHold
    <2>6. QED
      BY <2>1, <2>3, <2>4, <2>5 DEF ReadsHold, Edited
  <1>9. CASE WriteFails \/ StaysPending \/ PurgeFails
    BY <1>9, <1>r DEF WriteFails, StaysPending, PurgeFails
  <1>10. CASE OpenRoot
    BY <1>10, <1>g, <1>e DEF OpenRoot
  <1>11. CASE AdoptRoot
    <2>1. past'.raced = past.raced
      BY <1>11, <1>p DEF AdoptRoot, Pasts
    <2>2. QED
      BY <2>1, <1>11, <1>g, <1>e DEF AdoptRoot
  <1>12. CASE AddConfigRoot
    BY <1>12, <1>g, <1>e DEF AddConfigRoot
  <1>13. CASE UpsertRow
    BY <1>13, <1>g, <1>e DEF UpsertRow
  <1>14. CASE Purge
    BY <1>14, <1>g, <1>e DEF Purge
  <1>15. CASE MarkRemoved
    <2>1. past'.raced = past.raced
      BY <1>15, <1>p DEF MarkRemoved, Pasts
    <2>2. QED
      BY <2>1, <1>15, <1>g, <1>e DEF MarkRemoved
  <1>16. CASE StartScan \/ ReleaseRoot
    BY <1>16, <1>n DEF StartScan, ReleaseRoot
  <1>17. CASE Scanning
    BY <1>17, <1>f DEF Scanning, AskAll, AskOne, StartAsked, RecordRoot, WalkRoot, EndScan
  <1>18. CASE UNCHANGED rootsVars
    BY <1>18, <1>f DEF rootsVars
  <1>q. QED
    BY <1>1, <1>2, <1>3, <1>4, <1>5, <1>6, <1>7, <1>8, <1>9, <1>10, <1>11, <1>12, <1>13, <1>14, <1>15,
       <1>16, <1>17, <1>18 DEF rootsNext, Serve

\* An adopted baseline lists what the process serves.
LEMMA AdoptedStep ==
  ASSUME RootsInv, [rootsNext]_rootsVars PROVE Adopted'
  <1> USE DEF process
  <1>i. rootsTypeOK /\ NamesUnique /\ Stages /\ AtRest /\ ReadsHold /\ Adopted
    BY DEF RootsInv
  <1>e. edit.pc # "idle" => edit # NoEdit
    BY <1>i, EditIs
  <1>p. past \in Pasts
    BY <1>i DEF rootsTypeOK
  <1>0. NoEdit.pc = "idle"
    BY DEF NoEdit
  <1>f. ASSUME UNCHANGED <<up, cfg, digest, added, removed>>,
               edit' = edit \/ (edit.pc # "release" /\ edit'.pc # "release"),
               past'.raced \/ past'.raced = past.raced, past'.adrift = past.adrift
        PROVE  Adopted'
    <2>1. (Kept(Known) = Kept(Listed(digest)))' <=> Kept(Known) = Kept(Listed(digest))
      BY <1>f DEF Kept, Known, Served, configuredRoots, Listed
    <2>2. QED
      BY <2>1, <1>f, <1>i DEF Adopted
  <1>g. ASSUME edit # NoEdit, UNCHANGED <<up, cfg, digest, added, removed>>, edit.pc # "release",
               NEW c \in {"splice", "rename", "open", "mark", "adopt", "table", "row", "start"},
               edit' = [edit EXCEPT !.pc = c],
               past'.raced = past.raced, past'.adrift = past.adrift
        PROVE  Adopted'
    <2>1. edit'.pc = c /\ c # "release"
      BY <1>g, <1>i, Goes
    <2>2. QED
      BY <2>1, <1>f, <1>g
  <1>r. ASSUME Refuse, edit.pc # "release" PROVE Adopted'
    BY <1>r, <1>f, <1>0 DEF Refuse
  <1>1. CASE Start
    <2>1. edit'.pc = "idle"
      BY <1>1, <1>i, <1>0 DEF Start, AtRest
    <2>2. /\ cfg' = Listed(file) /\ digest' = file /\ added' = {} /\ removed' = {}
      BY <1>1 DEF Start
    <2>3. Known' = Listed(file)
      BY <2>2 DEF Known, Served, configuredRoots
    <2>4. QED
      BY <2>1, <2>2, <2>3 DEF Adopted, Kept, Listed
  <1>2. CASE Stop
    BY <1>2 DEF Stop, Adopted
  <1>3. CASE HandEdit
    <2>1. past'.raced = (past.raced \/ InWindow) /\ past'.adrift = past.adrift
      BY <1>3, <1>p DEF HandEdit, Pasts
    <2>2. past'.raced \/ past'.raced = past.raced
      BY <2>1, <1>p DEF Pasts
    <2>3. QED
      BY <2>1, <2>2, <1>f, <1>3 DEF HandEdit
  <1>4. ASSUME NEW p \in Paths, CreateRoot(p) PROVE Adopted'
    BY <1>4, <1>f, <1>0 DEF CreateRoot
  <1>5. ASSUME NEW n \in Names, DeleteRoot(n) PROVE Adopted'
    BY <1>5, <1>f, <1>0 DEF DeleteRoot
  <1>6. CASE SpliceAdd \/ SpliceRemove
    <2>1. edit.pc = "splice"
      BY <1>6 DEF SpliceAdd, SpliceRemove
    <2>2. CASE Refuse
      BY <2>1, <2>2, <1>r
    <2>3. CASE ~ Refuse
      <3>1. edit'.pc = "backup" /\ UNCHANGED <<up, process, past>>
        BY <2>3, <1>6, <1>i, Splices
      <3>2. QED
        BY <2>1, <3>1, <1>f
    <2>4. QED
      BY <2>2, <2>3
  <1>7. CASE Backup
    <2>1. CASE edit' = [edit EXCEPT !.pc = "rename"] /\ UNCHANGED <<up, process, past>>
      BY <2>1, <1>7, <1>e, <1>g DEF Backup
    <2>2. QED
      BY <2>1, <1>7, <1>r DEF Backup
  <1>8. CASE Replace
    <2>1. edit # NoEdit /\ edit.pc = "rename" /\ UNCHANGED <<up, process>>
      BY <1>8, <1>e DEF Replace
    <2>2. edit' = [edit EXCEPT !.pc = "open"] \/ edit' = [edit EXCEPT !.pc = "mark"]
      BY <1>8 DEF Replace
    <2>3. past'.raced = past.raced /\ past'.adrift = past.adrift
      BY <1>8, <1>p DEF Replace, Pasts
    <2>4. QED
      BY <2>1, <2>2, <2>3, <1>g
  <1>9. CASE WriteFails \/ StaysPending \/ PurgeFails
    BY <1>9, <1>r DEF WriteFails, StaysPending, PurgeFails
  <1>10. CASE OpenRoot
    BY <1>10, <1>g, <1>e DEF OpenRoot
  <1>11. CASE AdoptRoot
    <2>1. /\ edit # NoEdit /\ edit.pc = "adopt" /\ added' = added \union {edit.entry} /\ Rebase
          /\ edit' = [edit EXCEPT !.pc = "table"] /\ UNCHANGED <<file, up, cfg, removed>>
      BY <1>11, <1>e DEF AdoptRoot
    <2>2. past'.raced = past.raced /\ past'.adrift = Drift
      BY <1>11, <1>p DEF AdoptRoot, Pasts
    <2>3. edit'.pc = "table"
      BY <2>1, <1>i, Goes
    <2>4. SUFFICES ASSUME up, ~ past.raced, ~ past'.adrift
                   PROVE  Known' = Listed(digest')
      BY <2>1, <2>2, <2>3 DEF Adopted, Kept, Listed
    <2>5. ~ past.adrift /\ digest' = file
      BY <2>2, <2>4 DEF Drift
    <2>6. edit.op = "add" /\ Listed(file) = Listed(edit.prior) \union {edit.entry}
      BY <2>1, <2>4, <1>i DEF ReadsHold, Edited, Stages
    <2>7. Known = Listed(digest)
      BY <2>1, <2>4, <2>5, <1>i DEF Adopted, Kept
    <2>8. Known' = Known \union {edit.entry}
      BY <2>1 DEF Known, Served, configuredRoots
    <2>9. CASE edit.prior = digest
      BY <2>5, <2>6, <2>7, <2>8, <2>9
    <2>10. CASE edit.prior # digest
      <3>1. digest = file
        BY <2>1, <2>5, <2>10 DEF Rebase
      <3>2. QED
        BY <3>1, <2>5, <2>6, <2>7, <2>8
    <2>11. QED
      BY <2>9, <2>10
  <1>12. CASE AddConfigRoot
    BY <1>12, <1>g, <1>e DEF AddConfigRoot
  <1>13. CASE UpsertRow
    BY <1>13, <1>g, <1>e DEF UpsertRow
  <1>14. CASE Purge
    BY <1>14, <1>g, <1>e DEF Purge
  <1>15. CASE MarkRemoved
    <2>1. /\ edit # NoEdit /\ edit.pc = "mark" /\ removed' = removed \union {edit.entry.name}
          /\ edit' = [edit EXCEPT !.pc = "release"] /\ UNCHANGED <<up, cfg, added, digest>>
      BY <1>15, <1>e DEF MarkRemoved
    <2>2. past'.raced = past.raced /\ past'.adrift = past.adrift
      BY <1>15, <1>p DEF MarkRemoved, Pasts
    <2>3. edit'.pc = "release" /\ edit'.entry = edit.entry
      BY <2>1, <1>i, Goes
    <2>4. SUFFICES ASSUME up, ~ past.raced, ~ past.adrift
                   PROVE  NotNamed(Known', edit.entry.name) = NotNamed(Listed(digest), edit.entry.name)
      BY <2>1, <2>2, <2>3 DEF Adopted, Kept, Listed
    <2>5. Known = Listed(digest)
      BY <2>1, <2>4, <1>i DEF Adopted, Kept
    <2>6. NotNamed(Known', edit.entry.name) = NotNamed(Known, edit.entry.name)
      BY <2>1 DEF Known, Served, configuredRoots, NotNamed
    <2>7. QED
      BY <2>5, <2>6
  <1>16. CASE ReleaseRoot
    <2> DEFINE n == edit.entry.name
    <2>1. /\ edit # NoEdit /\ edit.pc = "release" /\ added' = NotNamed(added, n) /\ Rebase
          /\ edit' = NoEdit /\ UNCHANGED <<file, up, cfg, removed>>
      BY <1>16, <1>e DEF ReleaseRoot
    <2>2. past'.raced = past.raced /\ past'.adrift = Drift
      BY <1>16, <1>p DEF ReleaseRoot, Pasts
    <2>3. SUFFICES ASSUME up, ~ past.raced, ~ past'.adrift
                   PROVE  Known' = Listed(digest')
      BY <2>1, <2>2, <1>0 DEF Adopted, Kept, Listed
    <2>4. ~ past.adrift /\ digest' = file
      BY <2>2, <2>3 DEF Drift
    <2>5. n \in removed /\ Listed(file) = NotNamed(Listed(edit.prior), n)
      BY <2>1, <2>3, <1>i DEF ReadsHold, Edited, Stages
    <2>6. NotNamed(Known, n) = NotNamed(Listed(digest), n)
      BY <2>1, <2>3, <2>4, <1>i DEF Adopted, Kept
    <2>7. Known' = NotNamed(Known, n)
      BY <2>1, <2>5 DEF Known, Served, configuredRoots, NotNamed
    <2>8. CASE edit.prior = digest
      BY <2>4, <2>5, <2>6, <2>7, <2>8
    <2>9. CASE edit.prior # digest
      <3>1. digest = file
        BY <2>1, <2>4, <2>9 DEF Rebase
      <3>2. NotNamed(Listed(file), n) = Listed(file)
        BY <2>5 DEF NotNamed
      <3>3. QED
        BY <3>1, <3>2, <2>4, <2>6, <2>7
    <2>10. QED
      BY <2>8, <2>9
  <1>17. CASE StartScan
    BY <1>17, <1>f, <1>0 DEF StartScan
  <1>18. CASE Scanning
    BY <1>18, <1>f DEF Scanning, AskAll, AskOne, StartAsked, RecordRoot, WalkRoot, EndScan
  <1>19. CASE UNCHANGED rootsVars
    BY <1>19, <1>f DEF rootsVars
  <1>q. QED
    BY <1>1, <1>2, <1>3, <1>4, <1>5, <1>6, <1>7, <1>8, <1>9, <1>10, <1>11, <1>12, <1>13, <1>14, <1>15,
       <1>16, <1>17, <1>18, <1>19 DEF rootsNext, Serve

\* A removed root gets no books but from a scan that was asked for before.
LEMMA ExcusedStep ==
  ASSUME RootsInv, [rootsNext]_rootsVars PROVE Excused'
  <1> USE DEF process
  <1>i. rootsTypeOK /\ NamesUnique /\ Stages /\ AtRest /\ Excused
    BY DEF RootsInv
  <1>e. edit.pc # "idle" => edit # NoEdit
    BY <1>i, EditIs
  <1>p. past \in Pasts
    BY <1>i DEF rootsTypeOK
  <1>0. NoEdit.pc = "idle" /\ NoAsk.all = FALSE /\ NoAsk.roots = {} /\ NoScan.names = {}
    BY DEF NoEdit, NoAsk, NoScan
  <1>f. ASSUME UNCHANGED <<added, removed, ask>>, books' \subseteq books, scan'.names \subseteq scan.names,
               edit' = edit \/ edit'.pc # "release", past'.late = past.late
        PROVE  Excused'
    BY <1>f, <1>i DEF Excused
  <1>g. ASSUME edit # NoEdit, UNCHANGED <<added, removed, ask, scan>>, books' \subseteq books,
               NEW c \in {"splice", "rename", "open", "mark", "adopt", "table", "row", "start"},
               edit' = [edit EXCEPT !.pc = c], past'.late = past.late
        PROVE  Excused'
    <2>1. edit'.pc = c /\ c # "release"
      BY <1>g, <1>i, Goes
    <2>2. QED
      BY <2>1, <1>f, <1>g
  <1>r. ASSUME Refuse PROVE Excused'
    BY <1>r, <1>f, <1>0 DEF Refuse
  <1>1. CASE Start
    <2>1. edit'.pc = "idle" /\ removed' = {}
      BY <1>1, <1>i, <1>0 DEF Start, AtRest
    <2>2. QED
      BY <2>1 DEF Excused
  <1>2. CASE Stop
    BY <1>2, <1>0 DEF Stop, Excused
  <1>3. CASE HandEdit
    <2>1. past'.late = past.late
      BY <1>3, <1>p DEF HandEdit, Pasts
    <2>2. QED
      BY <2>1, <1>f, <1>3 DEF HandEdit
  <1>4. ASSUME NEW p \in Paths, CreateRoot(p) PROVE Excused'
    BY <1>4, <1>f DEF CreateRoot
  <1>5. ASSUME NEW n \in Names, DeleteRoot(n) PROVE Excused'
    BY <1>5, <1>f DEF DeleteRoot
  <1>6. CASE SpliceAdd \/ SpliceRemove
    <2>1. CASE Refuse
      BY <2>1, <1>r
    <2>2. CASE ~ Refuse
      <3>1. edit'.pc = "backup" /\ UNCHANGED <<added, removed, ask, scan, books, past>>
        BY <2>2, <1>6, <1>i, Splices
      <3>2. QED
        BY <3>1, <1>f
    <2>3. QED
      BY <2>1, <2>2
  <1>7. CASE Backup
    <2>1. CASE edit' = [edit EXCEPT !.pc = "rename"] /\ UNCHANGED <<process, ask, scan, books, past>>
      BY <2>1, <1>7, <1>e, <1>g DEF Backup
    <2>2. QED
      BY <2>1, <1>7, <1>r DEF Backup
  <1>8. CASE Replace
    <2>1. edit # NoEdit /\ UNCHANGED <<process, ask, scan, books>>
      BY <1>8, <1>e DEF Replace
    <2>2. edit' = [edit EXCEPT !.pc = "open"] \/ edit' = [edit EXCEPT !.pc = "mark"]
      BY <1>8 DEF Replace
    <2>3. past'.late = past.late
      BY <1>8, <1>p DEF Replace, Pasts
    <2>4. QED
      BY <2>1, <2>2, <2>3, <1>g
  <1>9. CASE WriteFails \/ StaysPending \/ PurgeFails
    BY <1>9, <1>r DEF WriteFails, StaysPending, PurgeFails
  <1>10. CASE OpenRoot
    BY <1>10, <1>g, <1>e DEF OpenRoot
  <1>11. CASE AdoptRoot
    <2>1. /\ edit # NoEdit /\ edit' = [edit EXCEPT !.pc = "table"]
          /\ added' = added \union {edit.entry} /\ UNCHANGED <<removed, ask, scan, books>>
      BY <1>11, <1>e DEF AdoptRoot
    <2>2. past'.late = past.late
      BY <1>11, <1>p DEF AdoptRoot, Pasts
    <2>3. edit'.pc = "table"
      BY <2>1, <1>i, Goes
    <2>4. NamesOf(added) \subseteq NamesOf(added')
      BY <2>1 DEF NamesOf
    <2>5. QED
      BY <2>1, <2>2, <2>3, <2>4, <1>i DEF Excused
  <1>12. CASE AddConfigRoot
    BY <1>12, <1>g, <1>e DEF AddConfigRoot
  <1>13. CASE UpsertRow
    BY <1>13, <1>g, <1>e DEF UpsertRow
  <1>14. CASE Purge
    BY <1>14, <1>g, <1>e DEF Purge
  <1>15. CASE MarkRemoved
    <2> DEFINE n == edit.entry.name
    <2>1. /\ edit # NoEdit /\ removed' = removed \union {n}
          /\ edit' = [edit EXCEPT !.pc = "release"] /\ UNCHANGED <<added, ask, scan, books>>
      BY <1>15, <1>e DEF MarkRemoved
    <2>2. edit'.entry = edit.entry
      BY <2>1, <1>i, Goes
    <2>3. CASE ask # NoAsk \/ scan # NoScan \/ n \in books
      <3>1. past'.late = past.late \union {n}
        BY <2>3, <1>15, <1>p DEF MarkRemoved, Pasts
      <3>2. QED
        BY <3>1, <2>1, <2>2, <1>i DEF Excused
    <2>4. CASE ~ (ask # NoAsk \/ scan # NoScan \/ n \in books)
      <3>1. past'.late = past.late
        BY <2>4, <1>15 DEF MarkRemoved
      <3>2. QED
        BY <3>1, <2>1, <2>2, <2>4, <1>0, <1>i DEF Excused
    <2>5. QED
      BY <2>3, <2>4
  <1>16. CASE ReleaseRoot
    <2> DEFINE n == edit.entry.name
    <2>1. /\ edit.pc = "release" /\ edit' = NoEdit /\ added' = NotNamed(added, n)
          /\ UNCHANGED <<removed, ask, scan, books>>
      BY <1>16 DEF ReleaseRoot
    <2>2. past'.late = past.late
      BY <1>16, <1>p DEF ReleaseRoot, Pasts
    <2>3. \A m \in NamesOf(added) : m = n \/ m \in NamesOf(added')
      BY <2>1 DEF NamesOf, NotNamed
    <2>4. QED
      BY <2>1, <2>2, <2>3, <1>0, <1>i DEF Excused
  <1>17. CASE StartScan
    <2>1. /\ edit # NoEdit /\ edit.pc = "start" /\ edit' = NoEdit
          /\ UNCHANGED <<added, removed, ask, books, past>>
          /\ scan'.names = {edit.entry.name} \/ scan' = scan
      BY <1>17, <1>e DEF StartScan, Begin
    <2>2. edit.entry.name \in NamesOf(added)
      BY <2>1, <1>i DEF Stages, NamesOf
    <2>3. QED
      BY <2>1, <2>2, <1>0, <1>i DEF Excused
  <1>18. CASE AskAll
    <2>1. /\ ask'.all = (removed = {}) /\ ask'.roots \intersect removed = {}
          /\ UNCHANGED <<edit, added, removed, scan, books, past>>
      BY <1>18 DEF AskAll, ScannedByDefault
    <2>2. edit.pc = "release" => edit.entry.name \in removed
      BY <1>e, <1>i DEF Stages
    <2>3. QED
      BY <2>1, <2>2, <1>i DEF Excused
  <1>19. ASSUME NEW n \in Names, AskOne(n) PROVE Excused'
    <2>1. /\ ask'.all = FALSE /\ ask'.roots \intersect removed = {}
          /\ UNCHANGED <<edit, added, removed, scan, books, past>>
      BY <1>19 DEF AskOne
    <2>2. edit.pc = "release" => edit.entry.name \in removed
      BY <1>e, <1>i DEF Stages
    <2>3. QED
      BY <2>1, <2>2, <1>i DEF Excused
  <1>20. CASE StartAsked
    <2>1. /\ ask' = NoAsk /\ UNCHANGED <<edit, added, removed, books, past>>
          /\ scan' = scan \/ ask.all \/ scan'.names = ask.roots
      BY <1>20 DEF StartAsked, Begin
    <2>2. QED
      BY <2>1, <1>0, <1>i DEF Excused
  <1>k. scan.pc # "idle" => scan \in Scans
    BY <1>i, ScanIs
  <1>21. CASE RecordRoot
    <2>1. scan'.names = scan.names
      BY <1>21, <1>k DEF RecordRoot, Scans
    <2>2. QED
      BY <2>1, <1>21, <1>f DEF RecordRoot
  <1>22. CASE WalkRoot
    <2>1. scan'.names = scan.names
      BY <1>22, <1>k DEF WalkRoot, Scans
    <2>2. books' \subseteq books \union scan.names /\ UNCHANGED <<edit, added, removed, ask, past>>
      BY <1>22 DEF WalkRoot, Selected
    <2>3. QED
      BY <2>1, <2>2, <1>i DEF Excused
  <1>23. CASE EndScan
    BY <1>23, <1>0, <1>f DEF EndScan
  <1>24. CASE UNCHANGED rootsVars
    BY <1>24, <1>f DEF rootsVars
  <1>q. QED
    BY <1>1, <1>2, <1>3, <1>4, <1>5, <1>6, <1>7, <1>8, <1>9, <1>10, <1>11, <1>12, <1>13, <1>14, <1>15,
       <1>16, <1>17, <1>18, <1>19, <1>20, <1>21, <1>22, <1>23, <1>24 DEF rootsNext, Serve, Scanning

\* The state at the beginning.
LEMMA RootsInit ==
  ASSUME rootsInit PROVE RootsInv
  <1>1. rootsTypeOK
    BY rootsInitType
  <1>2. ~ up /\ edit = NoEdit /\ ask = NoAsk /\ scan = NoScan /\ removed = {} /\ added = {}
        /\ file = InitialFile /\ bak = NoFile
    BY DEF rootsInit
  <1>3. NoFile.roots = <<>> /\ Unique(<<>>)
    BY DEF NoFile, Unique
  <1>4. NoEdit.pc = "idle" /\ NoAsk.all = FALSE /\ NoAsk.roots = {} /\ NoScan.names = {}
    BY DEF NoEdit, NoAsk, NoScan
  <1>5. AtRest /\ Stages /\ ReadsHold /\ Adopted
    BY <1>2 DEF AtRest, Stages, ReadsHold, Adopted
  <1>6. NamesUnique
    BY <1>2, <1>3, RootsAssumption DEF NamesUnique
  <1>7. Excused
    BY <1>2, <1>4 DEF Excused
  <1>8. QED
    BY <1>1, <1>5, <1>6, <1>7 DEF RootsInv

\* Every step keeps the invariant.
LEMMA RootsStep ==
  ASSUME RootsInv, [rootsNext]_rootsVars PROVE RootsInv'
  BY rootsTypeStep, RestStep, UniqueStep, StagesStep, ReadsStep, AdoptedStep, ExcusedStep DEF RootsInv

\* For any directories, any file, and any number of requests, edits, scans and
\* restarts: a file that is the adopted baseline says what is served, the list of
\* roots is the file's truth, and a removed root gets no books again but from a
\* scan that was asked for before (app/roots.go, httpapi/roots.go).
THEOREM RootsStayTruthful == rootsSpec => []RootsTruthful
  <1>1. RootsInv => RootsTruthful
    <2> SUFFICES ASSUME RootsInv PROVE RootsTruthful
      OBVIOUS
    <2>1. rootsTypeOK /\ Adopted /\ Excused
      BY DEF RootsInv
    <2>2. BaselineTruthful
      <3> SUFFICES ASSUME up, edit = NoEdit, ~ past.raced, ~ past.adrift, ~ ChangedOnDisk,
                          removed \intersect NamesOf(added) = {}
                   PROVE  /\ Served = Listed(file)
                          /\ removed = {} => \A p \in Paths : Pickable(p) <=> Acceptable(p, Listed(file))
        BY DEF BaselineTruthful, TruthfulWhen
      <3>1. edit.pc # "release" /\ digest = file
        BY DEF NoEdit, ChangedOnDisk
      <3>2. Known = Listed(file)
        BY <2>1, <3>1 DEF Adopted, Kept
      <3>3. \A e \in added : e.name \notin removed
        BY DEF NamesOf
      <3>4. added \subseteq Served
        BY <3>3 DEF Served, configuredRoots
      <3>5. Served = Listed(file)
        BY <3>2, <3>4 DEF Known
      <3>6. removed = {} => configuredRoots = Served
        BY DEF Served
      <3>7. QED
        BY <3>5, <3>6 DEF Pickable
    <2>3. ListingTruthful
      BY DEF ListingTruthful, ListedNames, IndexedNames, PendingNames
    <2>4. RemovedNotIndexed
      BY <2>1 DEF Excused, RemovedNotIndexed
    <2>5. QED
      BY <2>1, <2>2, <2>3, <2>4 DEF RootsTruthful
  <1>2. QED
    BY <1>1, RootsInit, RootsStep, PTL DEF rootsSpec

\* Every write that replaces a file the server could start from leaves one,
\* whatever the operator does to the file between the check and the read that is
\* spliced (config/rootsfile.go, AddRoot and RemoveRoot).
THEOREM WritesAreStartable == rootsSpec => WritesStartable
  <1>1. ASSUME RootsInv, [rootsNext]_rootsVars PROVE [WriteStartable]_rootsVars
    <2> SUFFICES ASSUME rootsNext, edit.pc = "splice", edit'.pc = "backup", Startable(file)
                 PROVE  Startable(edit'.out)
      BY <1>1 DEF WriteStartable
    <2>1. rootsTypeOK /\ NamesUnique /\ Stages /\ edit # NoEdit
      BY <1>1, EditIs DEF RootsInv
    <2>2. SpliceAdd \/ SpliceRemove
      <3>1. NoEdit.pc = "idle"
        BY DEF NoEdit
      <3>2. ASSUME UNCHANGED edit PROVE FALSE
        BY <3>2
      <3>3. ASSUME edit' = NoEdit PROVE FALSE
        BY <3>1, <3>3
      <3>4. ~ Start /\ ~ Stop /\ ~ HandEdit
        BY <3>2, <3>3 DEF Start, Stop, HandEdit
      <3>5. ~ Scanning
        BY <3>2 DEF Scanning, AskAll, AskOne, StartAsked, RecordRoot, WalkRoot, EndScan
      <3>6. Serve => SpliceAdd \/ SpliceRemove
        BY <2>1
        DEF Serve, CreateRoot, DeleteRoot, Backup, Replace, WriteFails, OpenRoot,
            StaysPending, AdoptRoot, AddConfigRoot, UpsertRow, StartScan, Purge, PurgeFails, MarkRemoved, ReleaseRoot
      <3>7. QED
        BY <3>4, <3>5, <3>6 DEF rootsNext
    <2>3. /\ edit'.out.form = "block" /\ edit'.out.roots # <<>> /\ Unique(edit'.out.roots)
          /\ Listed(edit'.out) = IF edit.op = "add" THEN Listed(file) \union {edit.entry}
                                                    ELSE NotNamed(Listed(file), edit.entry.name)
      <3>1. ~ Refuse
        BY DEF Refuse, NoEdit
      <3>2. QED
        BY <2>1, <2>2, <3>1, Splices
    <2>4. \A e \in Listed(file) : e.path \notin StorageUnder /\ Reach(e.path)
      BY DEF Startable, Valid, OnDisk
    <2>5. edit.op = "add" => edit.entry.path \notin StorageUnder /\ Reach(edit.entry.path)
      BY <2>1 DEF Stages
    <2>6. \A e \in Listed(edit'.out) : e.path \notin StorageUnder /\ Reach(e.path)
      BY <2>3, <2>4, <2>5 DEF NotNamed
    <2>7. QED
      BY <2>3, <2>6 DEF Startable, Readable, Valid, OnDisk
  <1>2. QED
    BY <1>1, RootsInit, RootsStep, PTL DEF rootsSpec, WritesStartable

-----------------------------------------------------------------------------
(***************************************************************************)
(* Reading an inner archive at random.                                     *)
(***************************************************************************)
(* What AnswersAreTrue says of an answer.                                  *)
IsTrue(off, n, first, count, err) ==
  /\ off \in Nat /\ n \in Nat /\ first \in Nat /\ count \in Nat /\ err \in Errors
  /\ count > 0 => first = off
  /\ off + count <= real \/ count = 0
  /\ count < n => err # "none"
  /\ (err = "EOF" /\ off < size /\ ~ broken) =>
        count = Least(n, IF off < Inflated THEN Inflated - off ELSE 0)

\* The lengths of an inner archive and of its tail are numbers.
LEMMA LengthsAre ==
  ASSUME nestTypeOK
  PROVE  /\ size \in Nat /\ real \in Nat /\ MaxRead \in Nat /\ tailWindow \in Nat \ {0}
         /\ Inflated \in Nat /\ Inflated <= size /\ Inflated <= real
         /\ TailBytes \in Nat /\ TailBytes <= Inflated
  BY NestedAssumption DEF NestedAssumption, nestTypeOK, Inflated, TailBytes, Least

\* An answer that is true is kept as one.
LEMMA TrueAnswer ==
  ASSUME NEW off, NEW n, NEW first, NEW count, NEW err, IsTrue(off, n, first, count, err),
         answer' = Answer(off, n, first, count, err), UNCHANGED inner
  PROVE  /\ answer' \in [off : Nat, want : Nat, first : Nat, count : Nat, err : Errors]
         /\ AnswersAreTrue'
  BY DEF IsTrue, Answer, AnswersAreTrue, Inflated, inner

\* A read of the stream from wherever it is: a restart, a discard, a read.
LEMMA SequentialIsTrue ==
  ASSUME nestTypeOK, NEW off \in 0..size, NEW n \in 1..MaxRead, off < size,
         NEW opened \in BOOLEAN, NEW at \in Nat, at <= real, Sequential(off, n, opened, at)
  PROVE  /\ open' = TRUE /\ pos' \in Nat /\ pos' <= real
         /\ \E first, count, err : /\ answer' = Answer(off, n, first, count, err)
                                   /\ IsTrue(off, n, first, count, err)
  <1> DEFINE from == IF ~ opened \/ off < at THEN 0 ELSE at
             reach == from + Least(off - from, real - from)
             count == IF reach < off THEN 0 ELSE Least(Want(off, n), real - reach)
  <1>1. open' = TRUE /\ pos' = reach + count
        /\ answer' = Answer(off, n, reach, count, Ending(off, n, count))
    BY DEF Sequential
  <1>2. size \in Nat /\ real \in Nat /\ MaxRead \in Nat /\ broken \in BOOLEAN
    BY LengthsAre DEF nestTypeOK
  <1>3. from \in Nat /\ from <= off /\ from <= real /\ off \in Nat /\ n \in Nat \ {0}
    BY <1>2
  <1> HIDE DEF from
  <1>4. reach \in Nat /\ reach = Least(off, real) /\ reach <= real
    BY <1>2, <1>3 DEF Least
  <1>5. Want(off, n) \in Nat /\ Want(off, n) = Least(n, size - off) /\ Want(off, n) > 0
    BY <1>2, <1>3 DEF Want, Least
  <1> HIDE DEF reach
  <1>6. count \in Nat /\ count = IF real < off THEN 0 ELSE Least(Want(off, n), real - off)
    BY <1>2, <1>3, <1>4, <1>5 DEF Least
  <1> HIDE DEF count
  <1>7. IsTrue(off, n, reach, count, Ending(off, n, count))
    <2>1. Ending(off, n, count) \in Errors
      BY DEF Ending, Errors
    <2>2. count > 0 => reach = off
      BY <1>2, <1>3, <1>4, <1>6 DEF Least
    <2>3. off + count <= real \/ count = 0
      BY <1>2, <1>3, <1>5, <1>6 DEF Least
    <2>4. count < n => Ending(off, n, count) # "none"
      BY <1>2, <1>3, <1>5, <1>6 DEF Ending, Least
    <2>5. ASSUME Ending(off, n, count) = "EOF", ~ broken
          PROVE  count = Least(n, IF off < Inflated THEN Inflated - off ELSE 0)
      <3>1. count < Want(off, n) \/ Want(off, n) < n
        BY <2>5 DEF Ending
      <3>2. QED
        BY <1>2, <1>3, <1>5, <1>6, <3>1 DEF Least, Inflated
    <2>6. QED
      BY <1>3, <1>4, <1>6, <2>1, <2>2, <2>3, <2>4, <2>5 DEF IsTrue
  <1>8. pos' \in Nat /\ pos' <= real
    BY <1>1, <1>2, <1>3, <1>4, <1>5, <1>6 DEF Least
  <1>9. QED
    BY <1>1, <1>7, <1>8

\* The state of a reader whose answer is true.
LEMMA ReaderStep ==
  ASSUME NestedIsTrue, UNCHANGED <<inner, closed>>, ~ closed, kind = "inflate",
         open' \in BOOLEAN, pos' \in Nat, pos' <= real, ~ open' => pos' = 0,
         \/ UNCHANGED tail
         \/ /\ tailLen' = TailBytes /\ tailFrom' = Inflated - TailBytes
            /\ tailOff' = Inflated - TailBytes /\ tailDone' \in BOOLEAN
            /\ tailDone' => ~ FillFails,
         answer' \in [off : Nat, want : Nat, first : Nat, count : Nat, err : Errors],
         AnswersAreTrue'
  PROVE  NestedIsTrue'
  <1> USE DEF NestedIsTrue
  <1>1. nestTypeOK'
    BY LengthsAre DEF nestTypeOK, inner, tail
  <1>2. StreamIsWhereItIs'
    BY DEF StreamIsWhereItIs, inner, tail, TailBytes, Inflated, FillFails
  <1>3. QED
    BY <1>1, <1>2

\* A read within the window at the end fills it and is answered from it.
LEMMA ReadTailKeeps ==
  ASSUME NestedIsTrue, NEW off \in 0..size, NEW n \in 1..MaxRead, ReadTail(off, n)
  PROVE  NestedIsTrue'
  <1> USE DEF NestedIsTrue
  <1>1. /\ size \in Nat /\ real \in Nat /\ tailWindow \in Nat \ {0} /\ MaxRead \in Nat
        /\ Inflated \in Nat /\ Inflated <= size /\ Inflated <= real
        /\ TailBytes \in Nat /\ TailBytes <= Inflated
    BY LengthsAre
  <1>2. kind = "inflate" /\ ~ closed /\ off < size /\ UNCHANGED <<inner, closed>>
    BY DEF ReadTail
  <1>3. off \in Nat /\ n \in Nat \ {0}
    BY <1>1
  <1>4. CASE ~ tailDone /\ FillFails
    <2>1. FillTail /\ answer' = Answer(off, n, off, 0, "failed")
      BY <1>4 DEF ReadTail
    <2>2. IsTrue(off, n, off, 0, "failed")
      BY <1>3 DEF IsTrue, Errors
    <2>3. answer' \in [off : Nat, want : Nat, first : Nat, count : Nat, err : Errors] /\ AnswersAreTrue'
      BY <1>2, <2>1, <2>2, TrueAnswer
    <2>4. /\ open' = TRUE /\ pos' = Inflated /\ tailLen' = TailBytes
          /\ tailFrom' = Inflated - TailBytes /\ tailOff' = Inflated - TailBytes
          /\ tailDone' = ~ FillFails
      BY <2>1 DEF FillTail
    <2>5. QED
      BY <1>1, <1>2, <2>3, <2>4, ReaderStep
  <1>5. CASE tailDone \/ ~ FillFails
    <2>1. /\ off >= tailOff' /\ answer' = FromTail(off, n)
          /\ IF tailDone THEN UNCHANGED <<stream, tail>> ELSE FillTail
      BY <1>5 DEF ReadTail
    <2>2. /\ tailLen' = TailBytes /\ tailFrom' = Inflated - TailBytes
          /\ tailOff' = Inflated - TailBytes /\ tailDone' = TRUE /\ ~ FillFails
      <3>1. CASE tailDone
        BY <1>2, <2>1, <3>1 DEF StreamIsWhereItIs, tail
      <3>2. CASE ~ tailDone
        BY <1>5, <2>1, <3>2 DEF FillTail
      <3>3. QED
        BY <3>1, <3>2
    <2>3. open' \in BOOLEAN /\ pos' \in Nat /\ pos' <= real /\ (~ open' => pos' = 0)
      <3>1. CASE tailDone
        BY <2>1, <3>1 DEF StreamIsWhereItIs, stream, nestTypeOK
      <3>2. CASE ~ tailDone
        BY <1>1, <2>1, <3>2 DEF FillTail
      <3>3. QED
        BY <3>1, <3>2
    <2> DEFINE lo == off - (Inflated - TailBytes)
               count == Least(Want(off, n), TailBytes - lo)
    <2>4. lo \in Nat
      BY <1>1, <1>3, <2>1, <2>2
    <2>5. Want(off, n) = Least(n, size - off) /\ Want(off, n) \in Nat
      BY <1>1, <1>2, <1>3 DEF Want, Least
    <2>6. answer' = IF lo >= TailBytes THEN Answer(off, n, off, 0, "EOF")
                    ELSE Answer(off, n, off, count, IF count < n THEN "EOF" ELSE "none")
      <3>1. (Inflated - TailBytes) + lo = off
        BY <1>1, <1>3
      <3>2. QED
        BY <2>1, <2>2, <3>1 DEF FromTail
    <2>7. ASSUME lo >= TailBytes
          PROVE  answer' \in [off : Nat, want : Nat, first : Nat, count : Nat, err : Errors]
                 /\ AnswersAreTrue'
      <3>1. off >= Inflated
        BY <1>1, <1>3, <2>7
      <3>2. IsTrue(off, n, off, 0, "EOF")
        BY <1>1, <1>3, <3>1 DEF IsTrue, Errors, Least
      <3>3. QED
        BY <1>2, <2>6, <2>7, <3>2, TrueAnswer
    <2>8. ASSUME lo < TailBytes
          PROVE  answer' \in [off : Nat, want : Nat, first : Nat, count : Nat, err : Errors]
                 /\ AnswersAreTrue'
      <3>1. count = Least(n, Inflated - off) /\ count \in Nat /\ off < Inflated
            /\ off + count <= real
        BY <1>1, <1>2, <1>3, <2>4, <2>5, <2>8 DEF Least
      <3> HIDE DEF count
      <3>2. IsTrue(off, n, off, count, IF count < n THEN "EOF" ELSE "none")
        BY <1>1, <1>3, <3>1 DEF IsTrue, Errors, Least
      <3>3. answer' = Answer(off, n, off, count, IF count < n THEN "EOF" ELSE "none")
        BY <1>1, <2>4, <2>6, <2>8
      <3>4. QED
        BY <1>2, <3>2, <3>3, TrueAnswer
    <2>9. answer' \in [off : Nat, want : Nat, first : Nat, count : Nat, err : Errors]
          /\ AnswersAreTrue'
      BY <1>1, <2>4, <2>7, <2>8
    <2>10. QED
      BY <1>1, <1>2, <2>2, <2>3, <2>9, ReaderStep
  <1>6. QED
    BY <1>4, <1>5

\* A read that moves the stream forward, or begins before the window.
LEMMA ReadForwardKeeps ==
  ASSUME NestedIsTrue, NEW off \in 0..size, NEW n \in 1..MaxRead,
         ReadForward(off, n) \/ ReadAcross(off, n)
  PROVE  NestedIsTrue'
  <1> USE DEF NestedIsTrue
  <1>1. /\ size \in Nat /\ real \in Nat /\ Inflated \in Nat /\ Inflated <= real
        /\ open \in BOOLEAN /\ pos \in Nat /\ pos <= real
    BY LengthsAre DEF nestTypeOK, StreamIsWhereItIs
  <1>2. kind = "inflate" /\ ~ closed /\ off < size /\ UNCHANGED <<inner, closed>>
    BY DEF ReadForward, ReadAcross
  <1>3. /\ Sequential(off, n, open, pos) \/ Sequential(off, n, TRUE, Inflated)
        /\ \/ UNCHANGED tail
           \/ /\ tailLen' = TailBytes /\ tailFrom' = Inflated - TailBytes
              /\ tailOff' = Inflated - TailBytes /\ tailDone' = TRUE /\ ~ FillFails
    BY DEF ReadForward, ReadAcross
  <1>4. /\ open' = TRUE /\ pos' \in Nat /\ pos' <= real
        /\ \E first, count, err : /\ answer' = Answer(off, n, first, count, err)
                                  /\ IsTrue(off, n, first, count, err)
    <2>1. CASE Sequential(off, n, open, pos)
      BY <1>1, <1>2, <2>1, SequentialIsTrue
    <2>2. CASE Sequential(off, n, TRUE, Inflated)
      BY <1>1, <1>2, <2>2, SequentialIsTrue
    <2>3. QED
      BY <1>3, <2>1, <2>2
  <1>5. answer' \in [off : Nat, want : Nat, first : Nat, count : Nat, err : Errors]
        /\ AnswersAreTrue'
    BY <1>2, <1>4, TrueAnswer
  <1>6. QED
    BY <1>2, <1>3, <1>4, <1>5, ReaderStep

\* The other reads leave the reader as it is.
LEMMA OtherReadsKeep ==
  ASSUME NestedIsTrue, NEW off \in 0..size, NEW n \in 1..MaxRead,
         ReadStored(off, n) \/ ReadClosed(off, n) \/ ReadPastEnd(off, n)
  PROVE  NestedIsTrue'
  <1> USE DEF NestedIsTrue
  <1>1. /\ size \in Nat /\ real \in Nat /\ off \in Nat /\ n \in Nat \ {0}
        /\ broken \in BOOLEAN /\ Inflated = Least(size, real)
    BY LengthsAre DEF nestTypeOK, Inflated
  <1>2. UNCHANGED <<inner, stream, tail, closed>>
    BY DEF ReadStored, ReadClosed, ReadPastEnd
  <1>3. \E first, count, err : /\ answer' = Answer(off, n, first, count, err)
                              /\ IsTrue(off, n, first, count, err)
    <2>1. IsTrue(off, n, off, 0, "closed")
      BY <1>1 DEF IsTrue, Errors
    <2>2. ASSUME off >= size PROVE IsTrue(off, n, off, 0, "EOF")
      BY <1>1, <2>2 DEF IsTrue, Errors
    <2>3. ASSUME off < size
          PROVE  LET there == IF off < real THEN real - off ELSE 0
                     count == Least(Want(off, n), there)
                 IN  IsTrue(off, n, off, count, Ending(off, n, count))
      <3> DEFINE there == IF off < real THEN real - off ELSE 0
                 count == Least(Want(off, n), there)
      <3>1. Want(off, n) = Least(n, size - off) /\ Want(off, n) \in Nat
        BY <1>1, <2>3 DEF Want, Least
      <3>2. there \in Nat /\ count \in Nat /\ count <= there /\ count <= Want(off, n)
            /\ Want(off, n) <= n
        BY <1>1, <2>3, <3>1 DEF Least
      <3>3. off + count <= real \/ count = 0
        BY <1>1, <3>2
      <3>4. Ending(off, n, count) \in Errors
            /\ (count < n => Ending(off, n, count) # "none")
        BY <1>1, <3>1, <3>2 DEF Ending, Errors
      <3>5. ASSUME Ending(off, n, count) = "EOF", ~ broken
            PROVE  count = Least(n, IF off < Inflated THEN Inflated - off ELSE 0)
        <4>1. count < Want(off, n) \/ Want(off, n) < n
          BY <3>5 DEF Ending
        <4>2. QED
          BY <1>1, <2>3, <3>1, <4>1 DEF Least
      <3>6. QED
        BY <1>1, <3>2, <3>3, <3>4, <3>5 DEF IsTrue
    <2>4. CASE ReadStored(off, n)
      BY <1>1, <2>2, <2>3, <2>4 DEF ReadStored
    <2>5. CASE ReadClosed(off, n)
      BY <2>1, <2>5 DEF ReadClosed
    <2>6. CASE ReadPastEnd(off, n)
      BY <2>2, <2>6 DEF ReadPastEnd
    <2>7. QED
      BY <2>4, <2>5, <2>6
  <1>4. answer' \in [off : Nat, want : Nat, first : Nat, count : Nat, err : Errors]
        /\ AnswersAreTrue'
    BY <1>2, <1>3, TrueAnswer
  <1>5. nestTypeOK'
    BY <1>2, <1>4 DEF nestTypeOK, inner, stream, tail
  <1>6. StreamIsWhereItIs'
    BY <1>2 DEF StreamIsWhereItIs, inner, stream, tail, TailBytes, Inflated, FillFails
  <1>7. QED
    BY <1>4, <1>5, <1>6

\* Whatever an inner archive records as its length and however much of it there is,
\* with any order of reads: the bytes of an answer are those at the offset asked for,
\* a short answer says why, and one that says the archive ends there is right.
THEOREM NestedStaysTrue == nestSpec => []NestedIsTrue
  <1>1. nestInit => NestedIsTrue
    <2> SUFFICES ASSUME nestInit PROVE NestedIsTrue
      OBVIOUS
    <2>1. answer = [off |-> 0, want |-> 0, first |-> 0, count |-> 0, err |-> "none"]
      BY DEF nestInit, NoAnswer, Answer
    <2>2. nestTypeOK
      <3>1. answer \in [off : Nat, want : Nat, first : Nat, count : Nat, err : Errors]
        BY <2>1 DEF Errors
      <3>2. kind \in Kinds /\ size \in Sizes /\ real \in Lengths /\ broken \in BOOLEAN
        BY DEF nestInit, Kinds
      <3>3. /\ open \in BOOLEAN /\ pos \in Nat /\ tailFrom \in Nat /\ tailOff \in Nat
            /\ tailLen \in Nat /\ tailDone \in BOOLEAN /\ closed \in BOOLEAN
        BY DEF nestInit
      <3>4. QED
        BY <3>1, <3>2, <3>3 DEF nestTypeOK
    <2>3. AnswersAreTrue
      BY <2>1 DEF AnswersAreTrue
    <2>4. StreamIsWhereItIs
      BY <2>2, LengthsAre DEF nestInit, StreamIsWhereItIs
    <2>5. QED
      BY <2>2, <2>3, <2>4 DEF NestedIsTrue
  <1>2. NestedIsTrue /\ [nestNext]_nestVars => NestedIsTrue'
    <2> SUFFICES ASSUME NestedIsTrue, [nestNext]_nestVars PROVE NestedIsTrue'
      OBVIOUS
    <2>1. CASE Open
      <3>1. ~ closed /\ kind' \in Kinds
        BY <2>1 DEF Open, NestedIsTrue, StreamIsWhereItIs, Kinds
      <3>2. UNCHANGED <<size, real, broken, stream, tail, closed, answer>>
        BY <2>1 DEF Open
      <3>3. QED
        BY <3>1, <3>2
           DEF NestedIsTrue, nestTypeOK, AnswersAreTrue, StreamIsWhereItIs, stream, tail,
               TailBytes, Inflated, FillFails
    <2>2. CASE Close
      <3>1. /\ kind = "inflate" /\ closed' = TRUE /\ open' = FALSE /\ pos' = 0 /\ tailLen' = 0
            /\ UNCHANGED <<inner, tailFrom, tailOff, tailDone, answer>>
        BY <2>2 DEF Close
      <3>2. real \in Nat
        BY LengthsAre DEF NestedIsTrue
      <3>3. nestTypeOK'
        BY <3>1 DEF NestedIsTrue, nestTypeOK, inner
      <3>4. AnswersAreTrue'
        BY <3>1 DEF NestedIsTrue, AnswersAreTrue, inner, Inflated
      <3>5. StreamIsWhereItIs'
        BY <3>1, <3>2 DEF StreamIsWhereItIs, inner
      <3>6. QED
        BY <3>3, <3>4, <3>5 DEF NestedIsTrue
    <2>3. CASE \E off \in 0..size, n \in 1..MaxRead : ReadAt(off, n)
      BY <2>3, OtherReadsKeep, ReadTailKeeps, ReadForwardKeeps DEF ReadAt
    <2>4. CASE UNCHANGED nestVars
      BY <2>4 DEF nestVars, NestedIsTrue, nestTypeOK, AnswersAreTrue, StreamIsWhereItIs,
                  TailBytes, Inflated, FillFails
    <2>5. QED
      BY <2>1, <2>2, <2>3, <2>4 DEF nestNext
  <1>3. QED
    BY <1>1, <1>2, PTL DEF nestSpec

------------------------------------------------------------------------------
(* The splice of the roots in the text of the file. *)

(* What lines may be in a file: those of any indentation.                  *)
TextLines ==
  [kind : {"roots", "other"}, in : {0}]
    \union [kind : {"dash", "bare", "key", "text", "body", "note", "blank"}, in : Nat]

\* A set of numbers up to n that is not empty has a greatest one.
LEMMA GreatestOf ==
  ASSUME NEW n \in Nat, NEW S \in SUBSET (0..n), S # {}
  PROVE  \E m \in S : \A k \in S : k <= m
  <1> DEFINE T == {j \in 0..n : n - j \in S}
  <1>1. PICK k \in S : TRUE
    OBVIOUS
  <1>2. n - k \in T /\ T \subseteq Nat
    BY <1>1
  <1> HIDE DEF T
  <1>3. PICK j \in T : \A i \in T : j <= i
    BY <1>2, LeastOf
  <1>4. ASSUME NEW i \in S PROVE i <= n - j
    <2>1. n - i \in T
      BY DEF T
    <2>2. n - i >= j /\ i \in Nat /\ j \in Nat
      BY <1>2, <1>3, <2>1
    <2>3. QED
      BY <2>2
  <1>5. n - j \in S
    BY <1>3 DEF T
  <1>6. QED
    BY <1>4, <1>5

\* What every line has.
LEMMA LineFacts ==
  ASSUME NEW f \in Seq(TextLines), NEW i \in DOMAIN f
  PROVE  /\ Len(f) \in Nat /\ DOMAIN f = 1..Len(f) /\ i \in Nat /\ i >= 1 /\ i <= Len(f)
         /\ f[i] \in TextLines /\ f[i].in \in Nat
         /\ f[i].kind \in {"roots", "other"} => f[i].in = 0
         /\ f[i].kind \in {"roots", "other", "dash", "bare", "key", "text", "body", "note", "blank"}
  <1>1. Len(f) \in Nat /\ DOMAIN f = 1..Len(f) /\ f[i] \in TextLines
    BY LenProperties, ElementOfSeq
  <1>2. QED
    BY <1>1 DEF TextLines

\* A text has finitely many entries.
LEMMA StartsAreFinite ==
  ASSUME NEW f \in Seq(TextLines) PROVE IsFiniteSet(Starts(f))
  <1>1. Len(f) \in Nat /\ DOMAIN f = 1..Len(f)
    BY LenProperties
  <1>2. IsFiniteSet(1..Len(f))
    BY <1>1, FS_Interval
  <1>3. Starts(f) \in SUBSET (1..Len(f))
    BY <1>1 DEF Starts
  <1>4. QED
    BY <1>2, <1>3, FS_Subset

\* The owner of a line is the last entry that begins at it or before.
LEMMA OwnerIsLast ==
  ASSUME NEW f \in Seq(TextLines), NEW i \in DOMAIN f, NEW t \in Starts(f), t <= i
  PROVE  /\ Owner(f, i) \in Starts(f) /\ Owner(f, i) <= i
         /\ \A u \in Starts(f) : u <= i => u <= Owner(f, i)
  <1> DEFINE before == {u \in Starts(f) : u <= i}
  <1>1. i \in Nat /\ Starts(f) \subseteq Nat
    BY LineFacts DEF Starts
  <1>2. before \in SUBSET (0..i) /\ before # {}
    BY <1>1
  <1>3. \E o \in before : \A u \in before : u <= o
    BY <1>1, <1>2, GreatestOf
  <1>4. \E o \in Starts(f) : o <= i /\ \A u \in Starts(f) : u <= i => u <= o
    BY <1>3
  <1>5. QED
    BY <1>4 DEF Owner

(* What the file's grammar says of an entry, without the choices of the    *)
(* operators: a key or a body has an entry above it and no other top-level *)
(* key between, and its indentation is that of any entry and 2 or 4; a     *)
(* body goes on with a value of its entry.                                 *)
LEMMA GrammarOfKeys ==
  ASSUME NEW f \in Seq(TextLines), Parses(f), NEW i \in DOMAIN f, f[i].kind \in {"key", "text", "body"}
  PROVE  LET o == Owner(f, i)
         IN  /\ o \in Starts(f) /\ o < i
             /\ \A u \in Starts(f) : u <= i => u <= o
             /\ \A k \in o..i : f[k].kind # "other"
             /\ \A u \in Starts(f) : /\ f[i].kind # "body" => f[i].in = f[u].in + 2
                                     /\ f[i].kind = "body" => f[i].in = f[u].in + 4
             /\ f[i].kind = "body" =>
                  \E h \in o..(i - 1) : f[h].kind \in {"dash", "key", "text"} /\ Continues(f, h, i - 1)
  <1>1. PICK t \in Starts(f) : t < i /\ \A k \in t..i : f[k].kind # "other"
    BY DEF Parses
  <1>2. /\ i \in Nat /\ t \in Nat /\ DOMAIN f = 1..Len(f) /\ Len(f) \in Nat /\ i <= Len(f)
        /\ t >= 1 /\ t <= Len(f)
    BY LineFacts DEF Starts
  <1>3. /\ Owner(f, i) \in Starts(f) /\ Owner(f, i) <= i
        /\ \A u \in Starts(f) : u <= i => u <= Owner(f, i)
    BY <1>1, <1>2, OwnerIsLast
  <1>4. Owner(f, i) \in DOMAIN f /\ f[Owner(f, i)].kind \in {"dash", "bare"}
    BY <1>3 DEF Starts
  <1>5. Owner(f, i) # i /\ Owner(f, i) \in Nat /\ t <= Owner(f, i)
    BY <1>1, <1>2, <1>3, <1>4, LineFacts
  <1>6. \A k \in Owner(f, i)..i : f[k].kind # "other"
    BY <1>1, <1>2, <1>5
  <1>7. \A u \in Starts(f) : f[Owner(f, i)].in = f[u].in
    BY <1>3 DEF Parses
  <1>8. \A u \in Starts(f) : /\ f[i].kind # "body" => f[i].in = f[u].in + 2
                             /\ f[i].kind = "body" => f[i].in = f[u].in + 4
    BY <1>7 DEF Parses
  <1>11. Owner(f, i) < i
    BY <1>2, <1>3, <1>5
  <1>12. Owner(f, i) \in Starts(f) /\ \A u \in Starts(f) : u <= i => u <= Owner(f, i)
    BY <1>3
  <1> DEFINE o == Owner(f, i)
  <1>13. o \in Starts(f) /\ o < i /\ o \in Nat /\ f[o].kind \in {"dash", "bare"}
    BY <1>4, <1>5, <1>11, <1>12
  <1>14. /\ \A u \in Starts(f) : u <= i => u <= o
         /\ \A k \in o..i : f[k].kind # "other"
    BY <1>6, <1>12
  <1> HIDE DEF o
  <1>9. ASSUME f[i].kind = "body"
        PROVE  \E h \in o..(i - 1) : f[h].kind \in {"dash", "key", "text"} /\ Continues(f, h, i - 1)
    <2>1. PICK h \in 1..(i - 1) : f[h].kind \in {"dash", "key", "text"} /\ Continues(f, h, i - 1)
      BY <1>9 DEF Parses
    <2>2. o <= h
      <3> SUFFICES ASSUME h < o PROVE FALSE
        BY <1>13
      <3>1. o \in (h + 1)..(i - 1)
        BY <1>2, <1>13
      <3>2. QED
        BY <1>13, <2>1, <3>1 DEF Continues
    <2>3. h \in o..(i - 1)
      BY <1>13, <2>2
    <2>4. QED
      BY <2>1, <2>3
  <1>15. QED
    BY <1>8, <1>9, <1>13, <1>14 DEF o

\* Of the lines after the last key, those that end an entry are those that are no body.
LEMMA StopsAreNoBodies ==
  ASSUME NEW f \in Seq(TextLines), Parses(f), NEW s \in Starts(f), NEW i \in DOMAIN f
  PROVE  ~ Solid(f, i) \/ f[i].in <= KeyColumn(f, s) <=> f[i].kind # "body"
  <1>1. s \in DOMAIN f
    BY DEF Starts
  <1>2. f[i].in \in Nat /\ f[s].in \in Nat
    BY <1>1, LineFacts
  <1>3. CASE f[i].kind \in {"key", "text", "body"}
    BY <1>2, <1>3, GrammarOfKeys DEF Solid, KeyColumn
  <1>4. CASE f[i].kind \in {"dash", "bare"}
    <2>1. i \in Starts(f)
      BY <1>4 DEF Starts
    <2>2. f[i].in = f[s].in
      BY <2>1 DEF Parses
    <2>3. QED
      BY <1>2, <1>4, <2>2 DEF KeyColumn
  <1>5. CASE f[i].kind \in {"roots", "other"}
    BY <1>2, <1>5, LineFacts DEF KeyColumn
  <1>6. CASE f[i].kind \in {"note", "blank"}
    BY <1>6 DEF Solid
  <1>7. QED
    BY <1>3, <1>4, <1>5, <1>6, LineFacts

\* The parser's node of an entry is its dash or, below a bare one, its first key.
LEMMA NodeIsOwn ==
  ASSUME NEW f \in Seq(TextLines), WellFormed(f), NEW s \in Starts(f)
  PROVE  LET n == NodeLine(f, s)
         IN  /\ n \in Nat /\ s <= n /\ n <= Len(f) /\ n \in Owned(f, s)
             /\ f[n].kind \in {"dash", "key", "text"} /\ (n = s <=> f[s].kind = "dash")
             /\ \A i \in (s + 1)..n : f[i].kind \notin {"dash", "bare"}
  <1> DEFINE n == NodeLine(f, s)
  <1>1. /\ s \in DOMAIN f /\ s \in Nat /\ 1 <= s /\ s <= Len(f) /\ Len(f) \in Nat
        /\ DOMAIN f = 1..Len(f) /\ f[s].kind \in {"dash", "bare"}
    BY LineFacts DEF Starts
  <1>2. CASE f[s].kind = "dash"
    <2>1. n = s
      BY <1>2 DEF NodeLine
    <2>2. \A u \in Starts(f) : u \in Nat
      BY LineFacts DEF Starts
    <2>3. Owner(f, s) = s
      BY <1>1, <2>2, OwnerIsLast
    <2>4. s \in Owned(f, s)
      BY <1>1, <1>2, <2>3 DEF Owned
    <2>5. QED
      BY <1>1, <1>2, <2>1, <2>4
  <1>3. CASE f[s].kind = "bare"
    <2>1. HasKey(f, s)
      BY <1>3 DEF WellFormed
    <2>2. /\ n \in (s + 1)..Len(f) /\ f[n].kind \in {"key", "text"}
          /\ \A k \in (s + 1)..(n - 1) : ~ Solid(f, k)
      <3>1. \E i \in (s + 1)..Len(f) : /\ f[i].kind \in {"key", "text"}
                                       /\ \A k \in (s + 1)..(i - 1) : ~ Solid(f, k)
        BY <2>1 DEF HasKey
      <3>2. QED
        BY <1>3, <3>1 DEF NodeLine
    <2> HIDE DEF n
    <2>3. n \in Nat /\ s < n /\ n \in DOMAIN f
      BY <1>1, <2>2
    <2>4. \A i \in (s + 1)..n : f[i].kind \notin {"dash", "bare"}
      <3> TAKE i \in (s + 1)..n
      <3>1. i = n \/ i \in (s + 1)..(n - 1)
        BY <1>1, <2>3
      <3>2. QED
        BY <2>2, <3>1 DEF Solid
    <2>5. Owner(f, n) \in Starts(f) /\ s <= Owner(f, n) /\ Owner(f, n) <= n
      BY <1>1, <2>3, OwnerIsLast
    <2>6. Owner(f, n) \in Nat /\ f[Owner(f, n)].kind \in {"dash", "bare"}
      BY <2>5, LineFacts DEF Starts
    <2>7. Owner(f, n) = s
      <3>1. ~ (Owner(f, n) \in (s + 1)..n)
        BY <2>4, <2>6
      <3>2. QED
        BY <1>1, <2>3, <2>5, <2>6, <3>1
    <2>8. n \in s..Len(f)
      BY <1>1, <2>2, <2>3
    <2>9. n \in Owned(f, s)
      BY <2>2, <2>7, <2>8 DEF Owned
    <2>10. n <= Len(f) /\ s <= n /\ n # s
      BY <1>1, <2>3
    <2>11. QED
      BY <1>3, <2>2, <2>3, <2>4, <2>9, <2>10 DEF n
  <1>4. QED
    BY <1>1, <1>2, <1>3

(* The run of lines that spanOf makes out, from a to e, is of the entry's  *)
(* own lines: it begins at the dash or at the first key n, ends at or      *)
(* after the last key m, and meets no other entry.                         *)
IsOwnRun(f, s, a, n, m, e) ==
  /\ s \in Nat /\ s >= 1 /\ n \in Nat /\ m \in Nat /\ e \in Nat
  /\ s <= n /\ n <= m /\ m <= e /\ e <= Len(f)
  /\ a \in {s, n} /\ (n <= s + dashSearchDepth => a = s) /\ (n = s <=> f[s].kind = "dash")
  /\ s \in Owned(f, s) /\ n \in Owned(f, s) /\ m \in Owned(f, s) /\ e \in Owned(f, s)
  /\ f[m].kind \in {"dash", "key", "text"} /\ f[e].kind \in {"dash", "key", "text", "body"}
  /\ \A i \in Owned(f, s) : f[i].kind \in {"dash", "key", "text"} => n <= i /\ i <= m
  /\ \A i \in (m + 1)..e : f[i].kind = "body"
  /\ e < Len(f) => f[e + 1].kind # "body"
  /\ \A u \in Starts(f) : u <= s \/ e < u

\* spanOf takes lines of one entry, and all its keys.
LEMMA SpanIsOwn ==
  ASSUME NEW f \in Seq(TextLines), WellFormed(f), NEW s \in Starts(f)
  PROVE  IsOwnRun(f, s, SpanStart(f, s), NodeLine(f, s), maxLine(f, s), SpanEnd(f, s))
  <1> DEFINE nodes == {i \in Owned(f, s) : f[i].kind \in {"dash", "key", "text"}}
             n == NodeLine(f, s)
             m == maxLine(f, s)
             e == SpanEnd(f, s)
  <1>p. Parses(f)
    BY DEF WellFormed
  <1>1. /\ s \in DOMAIN f /\ s \in Nat /\ 1 <= s /\ s <= Len(f) /\ Len(f) \in Nat
        /\ DOMAIN f = 1..Len(f) /\ f[s].kind \in {"dash", "bare"}
    BY LineFacts DEF Starts
  <1>2. ASSUME NEW i \in DOMAIN f, s <= i PROVE Owner(f, i) \in Starts(f) /\ s <= Owner(f, i) /\ Owner(f, i) <= i
    BY <1>1, <1>2, OwnerIsLast
  <1>3. Starts(f) \subseteq Nat
    BY LineFacts DEF Starts
  <1>4. Owner(f, s) = s
    BY <1>1, <1>2, <1>3
  <1>5. s \in Owned(f, s)
    BY <1>1, <1>4 DEF Owned
  <1>6. /\ n \in Nat /\ s <= n /\ n <= Len(f) /\ n \in Owned(f, s)
        /\ f[n].kind \in {"dash", "key", "text"} /\ (n = s <=> f[s].kind = "dash")
        /\ \A i \in (s + 1)..n : f[i].kind \notin {"dash", "bare"}
    BY NodeIsOwn
  <1>20. SpanStart(f, s) \in {s, n} /\ (n <= s + dashSearchDepth => SpanStart(f, s) = s)
    <2> DEFINE dashes == {i \in 1..n : i + dashSearchDepth >= n /\ f[i].kind \in {"dash", "bare"}}
    <2>1. SpanStart(f, s) = IF dashes = {} THEN n ELSE CHOOSE i \in dashes : \A j \in dashes : j <= i
      BY DEF SpanStart
    <2>2. \A i \in dashes : i \in Nat /\ i <= s
      <3> TAKE i \in dashes
      <3>1. i \in Nat /\ i <= n /\ f[i].kind \in {"dash", "bare"}
        BY <1>6
      <3>2. ~ (i \in (s + 1)..n)
        BY <1>6, <3>1
      <3>3. QED
        BY <1>1, <1>6, <3>1, <3>2
    <2>3. s + dashSearchDepth >= n => s \in dashes
      BY <1>1, <1>6
    <2>4. dashes # {} => s \in dashes
      <3> SUFFICES ASSUME NEW i \in dashes PROVE s \in dashes
        OBVIOUS
      <3>1. i \in Nat /\ i <= s /\ i + dashSearchDepth >= n
        BY <2>2
      <3>2. s + dashSearchDepth >= n
        BY <1>1, <1>6, <3>1 DEF dashSearchDepth
      <3>3. QED
        BY <2>3, <3>2
    <2> HIDE DEF dashes, n
    <2>5. ASSUME s \in dashes PROVE SpanStart(f, s) = s
      <3>1. \E i \in dashes : \A j \in dashes : j <= i
        BY <2>2, <2>5
      <3> DEFINE c == CHOOSE i \in dashes : \A j \in dashes : j <= i
      <3>2. c \in dashes /\ \A j \in dashes : j <= c
        BY <3>1
      <3>3. SpanStart(f, s) = c
        BY <2>1, <2>5
      <3> HIDE DEF c
      <3>4. c = s
        BY <1>1, <2>2, <2>5, <3>2
      <3>5. QED
        BY <3>3, <3>4
    <2>6. n <= s + dashSearchDepth => s \in dashes
      BY <1>1, <1>6, <2>3 DEF dashSearchDepth
    <2>7. QED
      BY <2>1, <2>4, <2>5, <2>6
  <1> HIDE DEF n
  <1>7. nodes # {} /\ n \in nodes
    BY <1>6
  <1>8. nodes \subseteq 0..Len(f)
    BY <1>1 DEF Owned
  <1> HIDE DEF nodes
  <1>9. m \in nodes /\ \A j \in nodes : j <= m
    <2>1. \E i \in nodes : \A j \in nodes : j <= i
      BY <1>1, <1>7, <1>8, GreatestOf
    <2>2. QED
      BY <2>1 DEF m, maxLine, nodes
  <1>10. /\ m \in Owned(f, s) /\ f[m].kind \in {"dash", "key", "text"} /\ Owner(f, m) = s
         /\ m \in Nat /\ s <= m /\ n <= m /\ m <= Len(f) /\ m \in DOMAIN f
    BY <1>1, <1>7, <1>9 DEF nodes, Owned
  <1> DEFINE stops == {i \in (m + 1)..(Len(f) + 1) :
                          i = Len(f) + 1 \/ ~ Solid(f, i) \/ f[i].in <= KeyColumn(f, s)}
             x == CHOOSE i \in stops : \A j \in stops : i <= j
  <1>11. x \in stops /\ \A j \in stops : x <= j
    <2>1. Len(f) + 1 \in stops /\ stops \subseteq Nat
      BY <1>1, <1>10
    <2> HIDE DEF stops
    <2>2. \E i \in stops : \A j \in stops : i <= j
      BY <2>1, LeastOf
    <2>3. QED
      BY <2>2
  <1>12. e = x - 1
    BY DEF SpanEnd
  <1>13. e \in Nat /\ m <= e /\ e <= Len(f) /\ x \in Nat
    BY <1>1, <1>10, <1>11, <1>12
  <1> HIDE DEF e, m, stops, x
  <1>14. ASSUME NEW i \in (m + 1)..e PROVE i \in DOMAIN f /\ f[i].kind = "body"
    <2>1. i \in DOMAIN f /\ i \in (m + 1)..(Len(f) + 1) /\ i < x
      BY <1>1, <1>10, <1>12, <1>13
    <2>2. i \notin stops
      BY <1>11, <1>13, <2>1
    <2>3. QED
      BY <1>p, <2>1, <2>2, StopsAreNoBodies DEF stops
  <1>15. e < Len(f) => f[e + 1].kind # "body"
    <2>1. HAVE e < Len(f)
    <2>2. e + 1 \in DOMAIN f /\ e + 1 = x
      BY <1>1, <1>12, <1>13, <2>1
    <2>3. x # Len(f) + 1
      BY <1>1, <1>13, <2>1, <2>2
    <2>4. ~ Solid(f, e + 1) \/ f[e + 1].in <= KeyColumn(f, s)
      BY <1>11, <2>2, <2>3 DEF stops
    <2>5. QED
      BY <1>p, <2>2, <2>4, StopsAreNoBodies
  <1>16. ASSUME NEW u \in Starts(f), s < u, u <= e PROVE FALSE
    <2>1. u \in DOMAIN f /\ f[u].kind \in {"dash", "bare"} /\ u \in Nat
      BY <1>3 DEF Starts
    <2>2. CASE u <= m
      BY <1>1, <1>10, <1>16, <2>1, <2>2, OwnerIsLast
    <2>3. CASE m < u
      BY <1>10, <1>13, <1>14, <1>16, <2>1, <2>3
    <2>4. QED
      BY <1>10, <2>1, <2>2, <2>3
  <1>17. f[e].kind \in {"dash", "key", "text", "body"} /\ e \in Owned(f, s)
    <2>1. CASE e = m
      BY <1>10, <2>1
    <2>2. CASE e # m
      <3>1. e \in DOMAIN f /\ f[e].kind = "body"
        BY <1>10, <1>13, <1>14, <2>2
      <3>2. Owner(f, e) = s
        BY <1>1, <1>2, <1>3, <1>10, <1>13, <1>16, <3>1
      <3>3. e \in s..Len(f)
        BY <1>1, <1>10, <1>13
      <3>4. QED
        BY <3>1, <3>2, <3>3 DEF Owned
    <2>3. QED
      BY <2>1, <2>2
  <1>18. \A i \in Owned(f, s) : f[i].kind \in {"dash", "key", "text"} => n <= i /\ i <= m
    <2> SUFFICES ASSUME NEW i \in Owned(f, s), f[i].kind \in {"dash", "key", "text"} PROVE n <= i /\ i <= m
      OBVIOUS
    <2>1. i <= m
      BY <1>9 DEF nodes
    <2>2. i \in Nat /\ s <= i /\ i <= Len(f)
      BY <1>1 DEF Owned
    <2>3. ASSUME i < n PROVE FALSE
      <3>1. f[s].kind = "bare" /\ s < n
        BY <1>1, <1>6, <2>2, <2>3
      <3>2. i # s
        BY <3>1
      <3>3. i \in (s + 1)..(n - 1)
        BY <1>1, <1>6, <2>2, <2>3, <3>2
      <3>4. \A k \in (s + 1)..(n - 1) : ~ Solid(f, k)
        <4>1. \E j \in (s + 1)..Len(f) : /\ f[j].kind \in {"key", "text"}
                                         /\ \A k \in (s + 1)..(j - 1) : ~ Solid(f, k)
          BY <3>1 DEF WellFormed, HasKey
        <4>2. QED
          BY <3>1, <4>1 DEF n, NodeLine
      <3>5. QED
        BY <3>3, <3>4 DEF Solid
    <2>4. QED
      BY <1>6, <2>1, <2>2, <2>3
  <1>19. IsOwnRun(f, s, SpanStart(f, s), n, m, e)
    <2>1. \A u \in Starts(f) : u <= s \/ e < u
      BY <1>1, <1>3, <1>13, <1>16
    <2>2. \A i \in (m + 1)..e : f[i].kind = "body"
      BY <1>14
    <2>3. QED
      BY <1>1, <1>5, <1>6, <1>10, <1>13, <1>15, <1>17, <1>18, <1>20, <2>1, <2>2 DEF IsOwnRun
  <1>21. QED
    BY <1>19 DEF n, m, e

(* The lines of an entry are those from its dash to its last one, and no   *)
(* line of another entry or key is among them.                             *)
IsSpan(f, s, e) ==
  /\ s \in Nat /\ s >= 1 /\ e \in Nat /\ s <= e /\ e <= Len(f)
  /\ s \in Owned(f, s) /\ e \in Owned(f, s) /\ Owned(f, s) \subseteq s..e
  /\ \A u \in Starts(f) : u <= s \/ e < u
  /\ \A k \in s..e : f[k].kind \notin {"other", "roots"}
  /\ f[e].kind \in {"dash", "key", "text", "body"}

\* spanOf finds a tidy entry: from its dash to its last line.
LEMMA SpanIsEntry ==
  ASSUME NEW f \in Seq(TextLines), WellFormed(f), NEW s \in Starts(f), Tidy(f, s)
  PROVE  SpanStart(f, s) = s /\ IsSpan(f, s, SpanEnd(f, s))
  <1> DEFINE a == SpanStart(f, s)
             n == NodeLine(f, s)
             m == maxLine(f, s)
             e == SpanEnd(f, s)
  <1>1. IsOwnRun(f, s, a, n, m, e)
    BY SpanIsOwn
  <1>2. n <= s + dashSearchDepth /\ \A i \in Owned(f, s) : \A k \in (m + 1)..i : f[k].kind = "body"
    BY DEF Tidy
  <1> HIDE DEF a, n, m, e
  <1>3. /\ s \in Nat /\ s >= 1 /\ m \in Nat /\ e \in Nat /\ s <= m /\ m <= e /\ e <= Len(f)
        /\ Len(f) \in Nat /\ DOMAIN f = 1..Len(f) /\ s \in DOMAIN f /\ m \in DOMAIN f
    BY <1>1, LenProperties DEF IsOwnRun
  <1>4. ASSUME NEW i \in Owned(f, s) PROVE i \in s..e
    <2>1. i \in Nat /\ s <= i /\ i <= Len(f)
      BY <1>3 DEF Owned
    <2> SUFFICES ASSUME e < i PROVE FALSE
      BY <1>3, <2>1
    <2>2. e + 1 \in (m + 1)..i /\ e < Len(f)
      BY <1>3, <2>1
    <2>3. QED
      BY <1>1, <1>2, <2>2 DEF IsOwnRun
  <1>5. ASSUME NEW k \in s..e PROVE f[k].kind \notin {"other", "roots"}
    <2>1. f[k].kind # "roots"
      <3>1. PICK r \in 1..(s - 1) : f[r].kind = "roots"
        BY DEF WellFormed, Parses
      <3>2. r \in DOMAIN f /\ k \in DOMAIN f /\ r # k
        BY <1>3, <3>1
      <3>3. QED
        BY <3>1, <3>2 DEF WellFormed, Parses
    <2>2. CASE m < k
      <3>1. k \in (m + 1)..e
        BY <1>3, <2>2
      <3>2. QED
        BY <1>1, <3>1 DEF IsOwnRun
    <2>3. CASE k <= m /\ f[m].kind \in {"key", "text"}
      <3>1. Owner(f, m) = s
        BY <1>1 DEF IsOwnRun, Owned
      <3>2. \A j \in s..m : f[j].kind # "other"
        BY <1>3, <2>3, <3>1, GrammarOfKeys DEF WellFormed
      <3>3. k \in s..m
        BY <1>3, <2>3
      <3>4. QED
        BY <2>1, <3>2, <3>3
    <2>4. CASE k <= m /\ f[m].kind = "dash"
      <3>1. m \in Starts(f)
        BY <1>3, <2>4 DEF Starts
      <3>2. m = s
        BY <1>1, <1>3, <3>1 DEF IsOwnRun
      <3>3. QED
        BY <1>3, <2>4, <3>2
    <2>5. QED
      BY <1>1, <1>3, <2>2, <2>3, <2>4 DEF IsOwnRun
  <1>6. a = s
    BY <1>1, <1>2 DEF IsOwnRun
  <1>7. Owned(f, s) \subseteq s..e /\ \A k \in s..e : f[k].kind \notin {"other", "roots"}
    BY <1>4, <1>5
  <1>8. IsSpan(f, s, e)
    BY <1>1, <1>3, <1>7 DEF IsOwnRun, IsSpan
  <1>9. QED
    BY <1>6, <1>8 DEF a, e

(* A text without the lines from a to e: where its line k was.             *)
Before(a, e, k) == IF k < a THEN k ELSE k + (e - a + 1)

IsCut(f, a, e, out) ==
  /\ out \in Seq(TextLines) /\ Len(out) = Len(f) - (e - a + 1) /\ Len(out) \in Nat
  /\ DOMAIN out = 1..Len(out)
  /\ \A k \in 1..Len(out) : out[k] = f[Before(a, e, k)] /\ Before(a, e, k) \in 1..Len(f)

\* splice with no lines to put in takes lines out.
LEMMA SpliceCuts ==
  ASSUME NEW f \in Seq(TextLines), NEW a \in Nat, NEW e \in Nat, 1 <= a, a <= e, e <= Len(f)
  PROVE  /\ splice(f, a, e + 1, <<>>) = WithoutLines(f, a, e)
         /\ IsCut(f, a, e, splice(f, a, e + 1, <<>>))
  <1> DEFINE head == SubSeq(f, 1, a - 1)
             rest == SubSeq(f, e + 1, Len(f))
             out == splice(f, a, e + 1, <<>>)
  <1>1. Len(f) \in Nat /\ \A i \in 1..Len(f) : f[i] \in TextLines
    BY LenProperties, ElementOfSeq
  <1>2. /\ head \in Seq(TextLines) /\ Len(head) = a - 1
        /\ \A i \in 1..(a - 1) : head[i] = f[i]
    <2>1. a - 1 \in 0..Len(f)
      BY <1>1
    <2>2. QED
      BY <2>1, FrontOf
  <1>3. /\ rest \in Seq(TextLines) /\ Len(rest) = Len(f) - e
        /\ \A i \in 1..(Len(f) - e) : rest[i] = f[e + i]
    <2>1. e \in 0..Len(f)
      BY <1>1
    <2>2. QED
      BY <2>1, BackOf
  <1>4. out = head \o rest
    <2>1. head \o <<>> = head
      BY <1>2, ConcatEmptySeq
    <2>2. QED
      BY <2>1 DEF splice
  <1>10. out = WithoutLines(f, a, e)
    BY <1>4 DEF WithoutLines
  <1> HIDE DEF head, rest, out
  <1>5. /\ out \in Seq(TextLines) /\ Len(out) = Len(head) + Len(rest)
        /\ \A i \in 1..(Len(head) + Len(rest)) :
             out[i] = IF i <= Len(head) THEN head[i] ELSE rest[i - Len(head)]
    BY <1>2, <1>3, <1>4, ConcatProperties
  <1>6. Len(out) = Len(f) - (e - a + 1) /\ Len(out) \in Nat
    BY <1>1, <1>2, <1>3, <1>5
  <1>7. ASSUME NEW k \in 1..Len(out)
        PROVE  out[k] = f[Before(a, e, k)] /\ Before(a, e, k) \in 1..Len(f)
    <2>1. k \in Nat /\ k >= 1 /\ k <= Len(f) - (e - a + 1)
      BY <1>6
    <2>2. CASE k < a
      <3>1. out[k] = head[k] /\ k \in 1..(a - 1)
        BY <1>2, <1>3, <1>5, <1>6, <2>1, <2>2
      <3>2. QED
        BY <1>1, <1>2, <2>1, <2>2, <3>1 DEF Before
    <2>3. CASE ~ (k < a)
      <3>1. out[k] = rest[k - (a - 1)] /\ k - (a - 1) \in 1..(Len(f) - e)
        BY <1>1, <1>2, <1>3, <1>5, <1>6, <2>1, <2>3
      <3>2. e + (k - (a - 1)) = Before(a, e, k)
        BY <2>1, <2>3 DEF Before
      <3>3. QED
        BY <1>1, <1>3, <2>1, <2>3, <3>1, <3>2
    <2>4. QED
      BY <2>2, <2>3
  <1>8. DOMAIN out = 1..Len(out)
    BY <1>5, LenProperties
  <1>9. QED
    BY <1>5, <1>6, <1>7, <1>8, <1>10 DEF IsCut, out

\* What is left without an entry's lines: the lines before and after them, in
\* order, and the server reads it.
LEMMA CutIsWellFormed ==
  ASSUME NEW f \in Seq(TextLines), WellFormed(f), NEW s \in Starts(f), NEW e, IsSpan(f, s, e),
         NEW out, IsCut(f, s, e, out)
  PROVE  WellFormed(out)
  <1> DEFINE was(k) == Before(s, e, k)
  <1>1. /\ Len(f) \in Nat /\ DOMAIN f = 1..Len(f) /\ Len(out) \in Nat /\ DOMAIN out = 1..Len(out)
        /\ Len(out) = Len(f) - (e - s + 1) /\ s \in DOMAIN f
        /\ s \in Nat /\ s >= 1 /\ e \in Nat /\ s <= e /\ e <= Len(f)
    BY LenProperties DEF IsCut, IsSpan, Starts
  <1>2. Parses(f)
    BY DEF WellFormed
  <1>3. \A k \in DOMAIN out : /\ was(k) \in DOMAIN f /\ out[k] = f[was(k)] /\ k \in Nat /\ was(k) \in Nat
                              /\ was(k) < s \/ was(k) > e
                              /\ k < s => was(k) = k
                              /\ s <= k => was(k) = k + (e - s + 1)
    <2> TAKE k \in DOMAIN out
    <2>1. was(k) \in DOMAIN f /\ out[k] = f[was(k)] /\ k \in Nat
      BY <1>1 DEF IsCut
    <2>2. QED
      BY <1>1, <2>1 DEF Before
  <1> HIDE DEF was
  <1>4. \A i, j \in DOMAIN out : i < j => was(i) < was(j)
    <2> SUFFICES ASSUME NEW i \in DOMAIN out, NEW j \in DOMAIN out, i < j PROVE was(i) < was(j)
      OBVIOUS
    <2>1. i \in Nat /\ j \in Nat /\ (i < s => was(i) = i) /\ (s <= i => was(i) = i + (e - s + 1))
      BY <1>3
    <2>2. (j < s => was(j) = j) /\ (s <= j => was(j) = j + (e - s + 1))
      BY <1>3
    <2>3. QED
      BY <1>1, <2>1, <2>2
  <1>14. \A i, j \in DOMAIN out : was(i) = was(j) => i = j
    <2> SUFFICES ASSUME NEW i \in DOMAIN out, NEW j \in DOMAIN out, was(i) = was(j) PROVE i = j
      OBVIOUS
    <2>1. i \in Nat /\ j \in Nat /\ was(i) \in Nat /\ ~ (was(i) < was(j)) /\ ~ (was(j) < was(i))
      BY <1>3
    <2>2. ~ (i < j) /\ ~ (j < i)
      BY <1>4, <2>1
    <2>3. QED
      BY <2>1, <2>2
  <1>5. \A k \in DOMAIN out : k \in Starts(out) <=> was(k) \in Starts(f)
    BY <1>3 DEF Starts
  <1>6. PICK r \in 1..(s - 1) : f[r].kind = "roots"
    BY <1>2 DEF Parses
  <1>7. r \in DOMAIN f /\ r \in DOMAIN out /\ was(r) = r /\ out[r].kind = "roots"
    <2>1. r \in Nat /\ r >= 1 /\ r < s
      BY <1>1, <1>6
    <2>2. r \in 1..Len(out) /\ r \in 1..Len(f)
      BY <1>1, <2>1
    <2>3. QED
      BY <1>1, <1>3, <1>6, <2>1, <2>2
  <1>8. \A i, j \in DOMAIN out : out[i].kind = "roots" /\ out[j].kind = "roots" => i = j
    BY <1>2, <1>3, <1>14 DEF Parses
  <1>20. ASSUME NEW w \in DOMAIN f, w < s \/ e < w PROVE \E k \in DOMAIN out : was(k) = w
    <2> DEFINE k == IF w < s THEN w ELSE w - (e - s + 1)
    <2>1. k \in DOMAIN out /\ was(k) = w
      BY <1>1, <1>20 DEF was, Before
    <2>2. QED
      BY <2>1
  <1>21. \A i, j \in DOMAIN out : was(i) < was(j) => i < j
    <2> SUFFICES ASSUME NEW i \in DOMAIN out, NEW j \in DOMAIN out, was(i) < was(j), ~ (i < j) PROVE FALSE
      OBVIOUS
    <2>1. i \in Nat /\ j \in Nat /\ was(i) \in Nat /\ was(j) \in Nat
      BY <1>3
    <2>2. i = j \/ j < i
      BY <2>1
    <2>3. ~ (was(j) < was(i)) /\ was(i) # was(j)
      BY <2>1
    <2>4. QED
      BY <1>4, <2>2, <2>3
  <1>22. ASSUME NEW i \in DOMAIN out, NEW x \in DOMAIN out, NEW k \in (i + 1)..(x - 1)
         PROVE  k \in DOMAIN out /\ was(k) \in (was(i) + 1)..(was(x) - 1)
    <2>1. k \in DOMAIN out /\ i < k /\ k < x
      BY <1>1
    <2>2. /\ was(i) < was(k) /\ was(k) < was(x)
          /\ was(i) \in Nat /\ was(k) \in Nat /\ was(x) \in Nat
      BY <1>3, <1>4, <2>1
    <2>3. QED
      BY <2>1, <2>2
  <1>9. ASSUME NEW i \in Starts(out), out[i].kind = "bare" PROVE HasKey(out, i)
    <2> DEFINE w == was(i)
    <2>1. i \in DOMAIN out /\ w \in Starts(f) /\ f[w].kind = "bare" /\ w \in Nat /\ (w < s \/ e < w)
      BY <1>3, <1>5, <1>9 DEF Starts
    <2>2. PICK q \in (w + 1)..Len(f) : /\ f[q].kind \in {"key", "text"}
                                       /\ \A k \in (w + 1)..(q - 1) : ~ Solid(f, k)
      BY <2>1 DEF WellFormed, HasKey
    <2> HIDE DEF w
    <2>3. q \in DOMAIN f /\ q \in Nat /\ w < q
      BY <1>1, <2>1, <2>2
    <2>4. q < s \/ e < q
      <3> SUFFICES ASSUME s <= q, q <= e PROVE FALSE
        BY <1>1, <2>3
      <3>1. f[s].kind \in {"dash", "bare"}
        BY DEF Starts
      <3>2. s # q
        BY <2>2, <3>1
      <3>3. s \in (w + 1)..(q - 1)
        BY <1>1, <2>1, <2>3, <3>2
      <3>4. QED
        BY <2>2, <3>1, <3>3 DEF Solid
    <2>5. PICK x \in DOMAIN out : was(x) = q
      BY <1>20, <2>3, <2>4
    <2>6. i < x /\ x \in (i + 1)..Len(out)
      <3>1. i < x
        BY <1>21, <2>1, <2>3, <2>5 DEF w
      <3>2. QED
        BY <1>1, <2>1, <3>1
    <2>7. ASSUME NEW k \in (i + 1)..(x - 1) PROVE ~ Solid(out, k)
      <3>1. k \in DOMAIN out /\ was(k) \in (w + 1)..(q - 1)
        BY <1>22, <2>1, <2>5 DEF w
      <3>2. QED
        BY <1>3, <2>2, <3>1 DEF Solid
    <2>8. out[x].kind \in {"key", "text"}
      BY <1>3, <2>2, <2>5
    <2>9. QED
      BY <2>6, <2>7, <2>8 DEF HasKey
  <1>10. ASSUME NEW i \in Starts(out)
         PROVE  /\ \E q \in 1..(i - 1) : out[q].kind = "roots" /\ \A k \in q..i : out[k].kind # "other"
                /\ \A j \in Starts(out) : out[j].in = out[i].in
    <2>1. i \in DOMAIN out /\ was(i) \in Starts(f)
      BY <1>5 DEF Starts
    <2>2. PICK q \in 1..(was(i) - 1) : f[q].kind = "roots" /\ \A k \in q..was(i) : f[k].kind # "other"
      BY <1>2, <2>1 DEF Parses
    <2>3. q = r
      <3>1. q \in DOMAIN f
        BY <1>1, <1>3, <2>1, <2>2
      <3>2. QED
        BY <1>2, <1>6, <1>7, <2>2, <3>1 DEF Parses
    <2>4. r \in Nat /\ r >= 1 /\ i \in Nat /\ i <= Len(out) /\ r < i
      <3>1. r \in Nat /\ r >= 1 /\ i \in Nat /\ i <= Len(out) /\ was(i) \in Nat /\ r < was(i)
        BY <1>1, <1>3, <2>1, <2>2, <2>3
      <3>2. ~ (i < r) /\ i # r
        BY <1>4, <1>7, <2>1, <3>1
      <3>3. QED
        BY <3>1, <3>2
    <2>5. ASSUME NEW k \in r..i PROVE out[k].kind # "other"
      <3>1. k \in DOMAIN out /\ k \in Nat
        BY <1>1, <2>4
      <3>2. was(k) \in Nat /\ was(i) \in Nat /\ (k = r \/ r < k) /\ (k = i \/ k < i)
        BY <1>3, <2>1, <2>4, <3>1
      <3>3. was(k) \in r..was(i)
        BY <1>4, <1>7, <2>1, <2>4, <3>1, <3>2
      <3>4. QED
        BY <1>3, <2>2, <2>3, <3>1, <3>3
    <2>6. ASSUME NEW j \in Starts(out) PROVE out[j].in = out[i].in
      <3>1. j \in DOMAIN out /\ was(j) \in Starts(f)
        BY <1>5 DEF Starts
      <3>2. f[was(j)].in = f[was(i)].in
        BY <1>2, <2>1, <3>1 DEF Parses
      <3>3. QED
        BY <1>3, <2>1, <3>1, <3>2
    <2>8. QED
      BY <1>7, <2>4, <2>5, <2>6
  <1>11. ASSUME NEW i \in DOMAIN out, out[i].kind \in {"key", "text", "body"}
         PROVE  /\ \E q \in Starts(out) : q < i /\ \A k \in q..i : out[k].kind # "other"
                /\ out[i].kind # "body" => out[i].in = out[Owner(out, i)].in + 2
                /\ out[i].kind = "body" =>
                     /\ out[i].in = out[Owner(out, i)].in + 4
                     /\ \E h \in 1..(i - 1) : out[h].kind \in {"dash", "key", "text"} /\ Continues(out, h, i - 1)
    <2> DEFINE w == was(i)
               o == Owner(f, w)
    <2>1. w \in DOMAIN f /\ f[w] = out[i] /\ w \in Nat
      BY <1>3
    <2>2. /\ o \in Starts(f) /\ o < w
          /\ \A u \in Starts(f) : u <= w => u <= o
          /\ \A k \in o..w : f[k].kind # "other"
          /\ \A u \in Starts(f) : /\ f[w].kind # "body" => f[w].in = f[u].in + 2
                                  /\ f[w].kind = "body" => f[w].in = f[u].in + 4
          /\ f[w].kind = "body" =>
               \E h \in o..(w - 1) : f[h].kind \in {"dash", "key", "text"} /\ Continues(f, h, w - 1)
      BY <1>2, <1>11, <2>1, GrammarOfKeys
    <2> HIDE DEF o, w
    <2>3. o \in DOMAIN f /\ o \in Nat /\ o >= 1
      BY <1>1, <2>2 DEF Starts
    <2>4. o < s \/ e < o
      <3>1. ASSUME o = s PROVE w \in s..e
        <4>1. w \in s..Len(f)
          BY <1>1, <2>1, <2>2, <2>3, <3>1
        <4>2. f[w].kind \in {"key", "text", "body"}
          BY <1>11, <2>1
        <4>3. w \in Owned(f, s)
          BY <3>1, <4>1, <4>2 DEF Owned, o
        <4>4. QED
          BY <4>3 DEF IsSpan
      <3>2. o # s
        BY <1>1, <1>3, <3>1 DEF w
      <3>3. o <= s \/ e < o
        BY <2>2 DEF IsSpan
      <3>4. QED
        BY <1>1, <2>3, <3>2, <3>3
    <2>5. (o < s /\ w < s) \/ (e < o /\ e < w)
      <3>1. w < s \/ e < w
        BY <1>3 DEF w
      <3>2. s <= w => s <= o
        BY <2>2
      <3>3. QED
        BY <1>1, <2>1, <2>2, <2>3, <2>4, <3>1, <3>2
    <2> DEFINE q == IF o < s THEN o ELSE o - (e - s + 1)
    <2>6. q \in DOMAIN out /\ q < i /\ was(q) = o
      BY <1>1, <1>3, <2>1, <2>2, <2>3, <2>5 DEF w, was, Before
    <2> HIDE DEF q
    <2>7. q \in Starts(out)
      BY <1>5, <2>2, <2>6
    <2>8. ASSUME NEW k \in q..i PROVE out[k].kind # "other"
      <3>1. k \in DOMAIN out /\ k \in Nat /\ q \in Nat /\ i \in Nat /\ q <= k /\ k <= i
        BY <1>1, <1>11, <2>6
      <3>2. was(k) \in Nat /\ (k = q \/ q < k) /\ (k = i \/ k < i)
        BY <1>3, <3>1
      <3>3. was(k) \in o..w
        BY <1>4, <2>1, <2>3, <2>6, <3>1, <3>2 DEF w
      <3>4. QED
        BY <1>3, <2>2, <3>1, <3>3
    <2>9. Owner(out, i) \in Starts(out)
      <3>1. out \in Seq(TextLines)
        BY DEF IsCut
      <3>2. q <= i
        BY <1>1, <2>6
      <3>3. QED
        BY <2>7, <3>1, <3>2, OwnerIsLast
    <2>10. was(Owner(out, i)) \in Starts(f) /\ out[Owner(out, i)] = f[was(Owner(out, i))]
      BY <1>3, <1>5, <2>9 DEF Starts
    <2>11. /\ out[i].kind # "body" => out[i].in = out[Owner(out, i)].in + 2
           /\ out[i].kind = "body" => out[i].in = out[Owner(out, i)].in + 4
      BY <2>1, <2>2, <2>10
    <2>12. ASSUME out[i].kind = "body"
           PROVE  \E h \in 1..(i - 1) : out[h].kind \in {"dash", "key", "text"} /\ Continues(out, h, i - 1)
      <3>1. PICK h \in o..(w - 1) : f[h].kind \in {"dash", "key", "text"} /\ Continues(f, h, w - 1)
        BY <2>1, <2>2, <2>12
      <3>2. h \in DOMAIN f /\ h \in Nat /\ h < w /\ (h < s \/ e < h)
        BY <1>1, <2>1, <2>3, <2>5
      <3>3. PICK x \in DOMAIN out : was(x) = h
        BY <1>20, <3>2
      <3>4. x < i
        BY <1>11, <1>21, <3>2, <3>3 DEF w
      <3>5. x \in 1..(i - 1)
        BY <1>1, <1>11, <3>4
      <3>6. out[x] = f[h]
        BY <1>3, <3>3
      <3>7. \A k \in (x + 1)..(i - 1) : was(k) \in (h + 1)..(w - 1) /\ out[k] = f[was(k)]
        BY <1>3, <1>11, <1>22, <3>3 DEF w
      <3>8. Continues(out, x, i - 1)
        BY <3>1, <3>6, <3>7 DEF Continues
      <3>9. QED
        BY <3>1, <3>5, <3>6, <3>8
    <2>13. QED
      BY <2>6, <2>7, <2>8, <2>11, <2>12
  <1>12. Parses(out)
    BY <1>8, <1>9, <1>10, <1>11 DEF Parses
  <1>15. QED
    BY <1>7, <1>9, <1>12 DEF WellFormed

\* An entry's lines hold one start of an entry, its own.
LEMMA CutTakesOneStart ==
  ASSUME NEW f \in Seq(TextLines), NEW s \in Starts(f), NEW e, IsSpan(f, s, e),
         NEW out, IsCut(f, s, e, out)
  PROVE  Cardinality(Starts(out)) = Cardinality(Starts(f)) - 1
  <1> DEFINE g == [k \in Starts(out) |-> Before(s, e, k)]
  <1>1. /\ Len(f) \in Nat /\ DOMAIN f = 1..Len(f) /\ Len(out) \in Nat /\ DOMAIN out = 1..Len(out)
        /\ Len(out) = Len(f) - (e - s + 1) /\ s \in DOMAIN f
        /\ s \in Nat /\ s >= 1 /\ e \in Nat /\ s <= e /\ e <= Len(f)
    BY LenProperties DEF IsCut, IsSpan, Starts
  <1>2. IsFiniteSet(Starts(f)) /\ IsFiniteSet(Starts(out))
    BY StartsAreFinite DEF IsCut
  <1>3. \A k \in Starts(out) : k \in Nat /\ g[k] \in Starts(f) \ {s}
    <2> TAKE k \in Starts(out)
    <2>1. k \in 1..Len(out) /\ out[k].kind \in {"dash", "bare"}
      BY <1>1 DEF Starts
    <2>2. Before(s, e, k) \in 1..Len(f) /\ out[k] = f[Before(s, e, k)] /\ Before(s, e, k) # s
      BY <1>1, <2>1 DEF IsCut, Before
    <2>3. QED
      BY <1>1, <2>1, <2>2 DEF Starts
  <1>4. \A j, k \in Starts(out) : g[j] = g[k] => j = k
    BY <1>1, <1>3 DEF Before
  <1>5. \A u \in Starts(f) \ {s} : \E k \in Starts(out) : g[k] = u
    <2> TAKE u \in Starts(f) \ {s}
    <2>1. u \in 1..Len(f) /\ f[u].kind \in {"dash", "bare"} /\ (u < s \/ e < u)
      BY <1>1 DEF Starts, IsSpan
    <2> DEFINE k == IF u < s THEN u ELSE u - (e - s + 1)
    <2>2. k \in 1..Len(out) /\ Before(s, e, k) = u
      BY <1>1, <2>1 DEF Before
    <2> HIDE DEF k
    <2>3. k \in Starts(out)
      BY <1>1, <2>1, <2>2 DEF Starts, IsCut
    <2>4. QED
      BY <2>2, <2>3
  <1>6. g \in Bijection(Starts(out), Starts(f) \ {s})
    <2>1. g \in [Starts(out) -> Starts(f) \ {s}]
      BY <1>3
    <2> HIDE DEF g
    <2>2. QED
      BY <1>4, <1>5, <2>1 DEF Bijection, Injection, Surjection, IsInjective
  <1>7. Cardinality(Starts(f) \ {s}) = Cardinality(Starts(out))
    BY <1>2, <1>6, FS_Bijection DEF ExistsBijection
  <1>8. QED
    BY <1>2, <1>7, FS_RemoveElement

\* Removing an entry from a file the server reads takes lines of its own, all its
\* keys among them; a tidy one goes whole.
LEMMA RemovalIsLocal ==
  ASSUME NEW f \in Seq(TextLines), WellFormed(f), Cardinality(Starts(f)) > 1, NEW s \in Starts(f)
  PROVE  LET own == Owned(f, s)
             out == RemoveRoot(f, s)
         IN  /\ \E a, b \in own :
                  /\ a <= b /\ out = WithoutLines(f, a, b)
                  /\ \A i \in own \ (a..b) : i = s \/ f[i].kind \in {"body", "note"}
                  /\ Tidy(f, s) => own \subseteq a..b
             /\ Tidy(f, s) => /\ WellFormed(out)
                              /\ Cardinality(Starts(out)) = Cardinality(Starts(f)) - 1
  <1> DEFINE own == Owned(f, s)
             a == SpanStart(f, s)
             n == NodeLine(f, s)
             m == maxLine(f, s)
             e == SpanEnd(f, s)
             out == RemoveRoot(f, s)
  <1>1. IsOwnRun(f, s, a, n, m, e)
    BY SpanIsOwn
  <1>2. out = splice(f, a, e + 1, <<>>)
    BY DEF RemoveRoot
  <1>3. Tidy(f, s) => a = s /\ IsSpan(f, s, e)
    BY SpanIsEntry
  <1> HIDE DEF a, n, m, e, out
  <1>4. /\ s \in Nat /\ s >= 1 /\ a \in Nat /\ n \in Nat /\ m \in Nat /\ e \in Nat
        /\ s <= a /\ a <= n /\ n <= m /\ m <= e /\ e <= Len(f) /\ a \in own /\ e \in own
    BY <1>1 DEF IsOwnRun
  <1>5. out = WithoutLines(f, a, e) /\ IsCut(f, a, e, out)
    BY <1>2, <1>4, SpliceCuts
  <1>6. ASSUME NEW i \in own \ (a..e) PROVE i = s \/ f[i].kind \in {"body", "note"}
    <2>1. i \in Nat /\ i >= s /\ i \in DOMAIN f /\ Owner(f, i) = s
      BY <1>4, LenProperties DEF Owned
    <2>2. CASE f[i].kind \in {"dash", "bare"}
      <3>1. i \in Starts(f)
        BY <2>1, <2>2 DEF Starts
      <3>2. i <= Owner(f, i)
        BY <2>1, <3>1, OwnerIsLast
      <3>3. QED
        BY <1>4, <2>1, <3>2
    <2>3. CASE f[i].kind \in {"key", "text"}
      <3>1. n <= i /\ i <= m
        BY <1>1, <2>3 DEF IsOwnRun
      <3>2. i \in a..e
        BY <1>4, <2>1, <3>1
      <3>3. QED
        BY <3>2
    <2>4. QED
      BY <2>2, <2>3 DEF Owned
  <1>7. Tidy(f, s) => own \subseteq a..e
    BY <1>3 DEF IsSpan
  <1>8. Tidy(f, s) => /\ WellFormed(out)
                      /\ Cardinality(Starts(out)) = Cardinality(Starts(f)) - 1
    BY <1>3, <1>5, CutIsWellFormed, CutTakesOneStart
  <1>9. a <= e
    BY <1>4
  <1> HIDE DEF own
  <1>10. \E x, b \in own : /\ x <= b /\ out = WithoutLines(f, x, b)
                           /\ \A i \in own \ (x..b) : i = s \/ f[i].kind \in {"body", "note"}
                           /\ Tidy(f, s) => own \subseteq x..b
    BY <1>4, <1>5, <1>6, <1>7, <1>9
  <1>11. QED
    BY <1>8, <1>10 DEF own, out

(* A text with a new entry's three lines from line p on.                   *)
IsInsert(f, p, c, out) ==
  /\ out \in Seq(TextLines) /\ Len(out) = Len(f) + 3 /\ DOMAIN out = 1..Len(out)
  /\ \A k \in 1..Len(out) : k < p => k \in 1..Len(f) /\ out[k] = f[k]
  /\ out[p] = [kind |-> "dash", in |-> c]
  /\ \A k \in {p + 1, p + 2} : out[k] = [kind |-> "key", in |-> c + 2]
  /\ \A k \in 1..Len(out) : p + 3 <= k => k - 3 \in 1..Len(f) /\ out[k] = f[k - 3]

\* splice with none to take out puts the three lines of an entry in.
LEMMA SpliceInserts ==
  ASSUME NEW f \in Seq(TextLines), NEW p \in Nat, 1 <= p, p <= Len(f) + 1, NEW c \in Nat
  PROVE  IsInsert(f, p, c, splice(f, p, p, renderRootEntry(c)))
  <1> DEFINE head == SubSeq(f, 1, p - 1)
             block == renderRootEntry(c)
             rest == SubSeq(f, p, Len(f))
             front == head \o block
             out == splice(f, p, p, block)
  <1>1. Len(f) \in Nat /\ \A i \in 1..Len(f) : f[i] \in TextLines
    BY LenProperties, ElementOfSeq
  <1>2. /\ head \in Seq(TextLines) /\ Len(head) = p - 1
        /\ \A i \in 1..(p - 1) : head[i] = f[i]
    <2>1. p - 1 \in 0..Len(f)
      BY <1>1
    <2>2. QED
      BY <2>1, FrontOf
  <1>3. /\ rest \in Seq(TextLines) /\ Len(rest) = Len(f) - (p - 1)
        /\ \A i \in 1..(Len(f) - (p - 1)) : rest[i] = f[(p - 1) + i]
    <2>1. p - 1 \in 0..Len(f) /\ (p - 1) + 1 = p
      BY <1>1
    <2>2. rest = SubSeq(f, (p - 1) + 1, Len(f))
      BY <2>1
    <2> HIDE DEF rest
    <2>3. QED
      BY <2>1, <2>2, BackOf
  <1>4. /\ block \in Seq(TextLines) /\ Len(block) = 3 /\ block[1] = [kind |-> "dash", in |-> c]
        /\ block[2] = [kind |-> "key", in |-> c + 2] /\ block[3] = [kind |-> "key", in |-> c + 2]
    <2>1. [kind |-> "dash", in |-> c] \in TextLines /\ [kind |-> "key", in |-> c + 2] \in TextLines
      BY DEF TextLines
    <2>2. QED
      BY <2>1 DEF renderRootEntry
  <1>5. out = front \o rest
    BY DEF splice
  <1> HIDE DEF head, block, rest
  <1>6. /\ front \in Seq(TextLines) /\ Len(front) = p + 2
        /\ \A i \in 1..(p + 2) : front[i] = IF i <= p - 1 THEN head[i] ELSE block[i - (p - 1)]
    <2>1. /\ front \in Seq(TextLines) /\ Len(front) = Len(head) + Len(block)
          /\ \A i \in 1..(Len(head) + Len(block)) : front[i] = IF i <= Len(head) THEN head[i] ELSE block[i - Len(head)]
      BY <1>2, <1>4, ConcatProperties
    <2>2. Len(head) + Len(block) = p + 2
      BY <1>2, <1>4
    <2> HIDE DEF front
    <2>3. QED
      BY <1>2, <2>1, <2>2
  <1> HIDE DEF front, out
  <1>7. /\ out \in Seq(TextLines) /\ Len(out) = Len(f) + 3
        /\ \A i \in 1..(Len(f) + 3) : out[i] = IF i <= p + 2 THEN front[i] ELSE rest[i - (p + 2)]
    <2>1. /\ out \in Seq(TextLines) /\ Len(out) = Len(front) + Len(rest)
          /\ \A i \in 1..(Len(front) + Len(rest)) : out[i] = IF i <= Len(front) THEN front[i] ELSE rest[i - Len(front)]
      BY <1>3, <1>5, <1>6, ConcatProperties
    <2>2. Len(front) + Len(rest) = Len(f) + 3
      BY <1>1, <1>3, <1>6
    <2>3. QED
      BY <1>6, <2>1, <2>2
  <1>8. ASSUME NEW k \in 1..Len(out), k < p PROVE k \in 1..Len(f) /\ out[k] = f[k]
    <2>1. k \in 1..(p - 1) /\ k \in 1..(p + 2) /\ k \in 1..(Len(f) + 3) /\ k \in 1..Len(f)
      BY <1>1, <1>7, <1>8
    <2>2. out[k] = head[k]
      BY <1>6, <1>7, <2>1
    <2>3. QED
      BY <1>2, <2>1, <2>2
  <1>9. ASSUME NEW j \in {1, 2, 3} PROVE out[(p - 1) + j] = block[j]
    <2> DEFINE k == (p - 1) + j
    <2>1. k \in 1..(p + 2) /\ k \in 1..(Len(f) + 3) /\ ~ (k <= p - 1) /\ k - (p - 1) = j /\ k <= p + 2
      BY <1>1
    <2> HIDE DEF k
    <2>2. out[k] = block[j]
      BY <1>6, <1>7, <2>1
    <2>3. QED
      BY <2>2 DEF k
  <1>10. ASSUME NEW k \in 1..Len(out), p + 3 <= k PROVE k - 3 \in 1..Len(f) /\ out[k] = f[k - 3]
    <2>1. /\ k \in Nat /\ k \in 1..(Len(f) + 3) /\ ~ (k <= p + 2) /\ k - (p + 2) \in 1..(Len(f) - (p - 1))
          /\ k - 3 \in 1..Len(f) /\ (p - 1) + (k - (p + 2)) = k - 3
      BY <1>1, <1>7, <1>10
    <2>2. out[k] = rest[k - (p + 2)]
      BY <1>7, <2>1
    <2>3. QED
      BY <1>3, <2>1, <2>2
  <1>11. (p - 1) + 1 = p /\ (p - 1) + 2 = p + 1 /\ (p - 1) + 3 = p + 2
    OBVIOUS
  <1>12. out[p] = block[1] /\ out[p + 1] = block[2] /\ out[p + 2] = block[3]
    <2>1. out[(p - 1) + 1] = block[1] /\ out[(p - 1) + 2] = block[2] /\ out[(p - 1) + 3] = block[3]
      BY <1>9
    <2>2. QED
      BY <1>11, <2>1
  <1>13. DOMAIN out = 1..Len(out)
    BY <1>7, LenProperties
  <1>14. QED
    BY <1>4, <1>7, <1>8, <1>10, <1>12, <1>13 DEF IsInsert, out, block

(* A place for an entry: below the key of the list or one of its entries,  *)
(* with nothing after it that an entry could take for its own.             *)
MayInsert(f, p, c) ==
  /\ p \in Nat /\ 2 <= p /\ p <= Len(f) + 1 /\ c \in Nat
  /\ \A i \in p..Len(f) : f[i].kind \in {"note", "blank", "other"}
  /\ \E r \in 1..(p - 1) : f[r].kind = "roots" /\ \A k \in r..(p - 1) : f[k].kind # "other"
  /\ \A u \in Starts(f) : f[u].in = c

\* Where loadRootsFile puts a new entry, below a tidy one, there is a place for one.
LEMMA InsertAtIsAPlace ==
  ASSUME NEW f \in Seq(TextLines), WellFormed(f), Starts(f) # {} => Tidy(f, LastStart(f))
  PROVE  MayInsert(f, insertAt(f), indent(f))
  <1>1. Len(f) \in Nat /\ DOMAIN f = 1..Len(f)
    BY LenProperties
  <1>2. Parses(f)
    BY DEF WellFormed
  <1>3. \A i \in DOMAIN f : f[i].kind \in {"roots", "other", "dash", "bare", "key", "text", "body", "note", "blank"}
    BY LineFacts
  <1>4. CASE Starts(f) = {}
    <2> DEFINE q == keyLine(f)
    <2>1. q \in 1..Len(f) /\ f[q].kind = "roots"
      BY <1>1 DEF keyLine, WellFormed
    <2>2. insertAt(f) = q + 1 /\ indent(f) = 2
      BY <1>4 DEF insertAt, indent
    <2> HIDE DEF q
    <2>3. ASSUME NEW i \in (q + 1)..Len(f) PROVE f[i].kind \in {"note", "blank", "other"}
      <3>1. i \in DOMAIN f /\ i # q
        BY <1>1, <2>1
      <3>2. f[i].kind # "roots"
        BY <1>1, <1>2, <2>1, <3>1 DEF Parses
      <3>3. f[i].kind \notin {"dash", "bare"}
        BY <1>4, <3>1 DEF Starts
      <3>4. f[i].kind \notin {"key", "text", "body"}
        BY <1>2, <1>4, <3>1 DEF Parses
      <3>5. QED
        BY <1>3, <3>1, <3>2, <3>3, <3>4
    <2>4. q + 1 \in Nat /\ 2 <= q + 1 /\ q + 1 <= Len(f) + 1 /\ (q + 1) - 1 = q
      BY <1>1, <2>1
    <2>5. q \in 1..((q + 1) - 1) /\ \A k \in q..((q + 1) - 1) : f[k].kind # "other"
      BY <2>1, <2>4
    <2>6. QED
      BY <1>4, <2>1, <2>2, <2>3, <2>4, <2>5 DEF MayInsert
  <1>5. CASE Starts(f) # {}
    <2> DEFINE t == LastStart(f)
               e == SpanEnd(f, t)
    <2>1. t \in Starts(f) /\ \A u \in Starts(f) : u <= t
      <3>1. Starts(f) \in SUBSET (0..Len(f))
        BY <1>1 DEF Starts
      <3>2. \E u \in Starts(f) : \A v \in Starts(f) : v <= u
        BY <1>1, <1>5, <3>1, GreatestOf
      <3>3. QED
        BY <3>2 DEF LastStart
    <2>2. SpanStart(f, t) = t /\ IsSpan(f, t, e)
      BY <1>5, <2>1, SpanIsEntry
    <2>3. insertAt(f) = e + 1 /\ indent(f) = f[t].in
      BY <1>5, <2>2 DEF insertAt, indent
    <2> HIDE DEF t, e
    <2>4. t \in DOMAIN f /\ t \in Nat /\ t >= 1 /\ e \in Nat /\ t <= e /\ e <= Len(f)
      BY <1>1, <2>1, <2>2 DEF IsSpan, Starts
    <2>5. PICK r \in 1..(t - 1) : f[r].kind = "roots" /\ \A k \in r..t : f[k].kind # "other"
      BY <1>2, <2>1 DEF Parses
    <2>6. ASSUME NEW i \in (e + 1)..Len(f) PROVE f[i].kind \in {"note", "blank", "other"}
      <3>1. i \in DOMAIN f /\ i \in Nat /\ e < i /\ r # i /\ r \in DOMAIN f
        BY <1>1, <2>4, <2>5
      <3>2. f[i].kind # "roots"
        BY <1>2, <2>5, <3>1 DEF Parses
      <3>3. f[i].kind \notin {"dash", "bare"}
        BY <2>1, <2>4, <3>1 DEF Starts
      <3>4. ASSUME f[i].kind \in {"key", "text", "body"} PROVE FALSE
        <4>1. Owner(f, i) \in Starts(f) /\ t <= Owner(f, i)
          BY <1>2, <2>1, <2>4, <3>1, <3>4, GrammarOfKeys
        <4>2. Owner(f, i) = t
          BY <1>1, <2>1, <2>4, <4>1 DEF Starts
        <4>3. i \in t..Len(f)
          BY <1>1, <2>4, <3>1
        <4>4. i \in Owned(f, t)
          BY <3>4, <4>2, <4>3 DEF Owned
        <4>5. QED
          BY <2>2, <2>4, <3>1, <4>4 DEF IsSpan
      <3>5. QED
        BY <1>3, <3>1, <3>2, <3>3, <3>4
    <2>7. \A k \in r..((e + 1) - 1) : f[k].kind # "other"
      <3> TAKE k \in r..((e + 1) - 1)
      <3>1. k \in r..t \/ k \in t..e
        BY <2>4, <2>5
      <3>2. QED
        BY <2>2, <2>5, <3>1 DEF IsSpan
    <2>9. f[t].in \in Nat /\ \A u \in Starts(f) : f[u].in = f[t].in
      BY <1>2, <2>1, <2>4, LineFacts DEF Parses
    <2>10. e + 1 \in Nat /\ 2 <= e + 1 /\ e + 1 <= Len(f) + 1 /\ r \in 1..((e + 1) - 1)
      BY <1>1, <2>4, <2>5
    <2>11. QED
      BY <2>3, <2>5, <2>6, <2>7, <2>9, <2>10 DEF MayInsert
  <1>6. QED
    BY <1>4, <1>5

\* With a new entry the server reads the file, and it has the entries it had
\* and the new one.
LEMMA InsertIsWellFormed ==
  ASSUME NEW f \in Seq(TextLines), WellFormed(f), NEW p, NEW c, MayInsert(f, p, c),
         NEW out, IsInsert(f, p, c, out)
  PROVE  /\ WellFormed(out)
         /\ Starts(out) = Starts(f) \cup {p} /\ p \notin Starts(f)
         /\ \A k \in 1..Len(out) : p + 2 < k => out[k].kind \in {"note", "blank", "other"}
  <1>1. /\ Len(f) \in Nat /\ DOMAIN f = 1..Len(f) /\ Len(out) = Len(f) + 3 /\ DOMAIN out = 1..Len(out)
        /\ p \in Nat /\ 2 <= p /\ p <= Len(f) + 1 /\ out \in Seq(TextLines)
    BY LenProperties DEF IsInsert, MayInsert
  <1>2. Parses(f)
    BY DEF WellFormed
  <1>3. \A k \in 1..Len(out) : k < p => k \in DOMAIN f /\ out[k] = f[k]
    BY <1>1 DEF IsInsert
  <1>4. /\ out[p].kind = "dash" /\ out[p].in = c
        /\ out[p + 1].kind = "key" /\ out[p + 1].in = c + 2
        /\ out[p + 2].kind = "key" /\ out[p + 2].in = c + 2
    BY DEF IsInsert
  <1>5. ASSUME NEW k \in 1..Len(out), p + 2 < k PROVE out[k].kind \in {"note", "blank", "other"}
    <2>1. p + 3 <= k /\ k - 3 \in p..Len(f)
      BY <1>1, <1>5
    <2>2. QED
      BY <2>1 DEF IsInsert, MayInsert
  <1>6. ASSUME NEW k \in 1..Len(out) PROVE k < p \/ k = p \/ k = p + 1 \/ k = p + 2 \/ p + 2 < k
    BY <1>1
  <1>7. ASSUME NEW k \in DOMAIN f PROVE \/ k < p /\ k \in 1..Len(out) /\ out[k] = f[k]
                                        \/ p <= k /\ f[k].kind \in {"note", "blank", "other"}
    <2>1. k \in 1..Len(out) /\ (k < p \/ k \in p..Len(f))
      BY <1>1
    <2>2. QED
      BY <1>1, <1>3, <2>1 DEF MayInsert
  <1>8. Starts(out) = Starts(f) \cup {p} /\ p \notin Starts(f) /\ \A u \in Starts(f) : u < p
    <2>1. \A u \in Starts(f) : u < p /\ u \in Starts(out)
      BY <1>1, <1>7 DEF Starts
    <2>2. p \in Starts(out)
      BY <1>1, <1>4 DEF Starts
    <2>3. ASSUME NEW u \in Starts(out) PROVE u \in Starts(f) \cup {p}
      <3>1. u \in 1..Len(out) /\ out[u].kind \in {"dash", "bare"}
        BY <1>1 DEF Starts
      <3>2. u < p \/ u = p
        BY <1>4, <1>5, <1>6, <3>1
      <3>3. QED
        BY <1>3, <3>1, <3>2 DEF Starts
    <2>4. p \notin Starts(f)
      BY <1>1, <2>1
    <2>5. Starts(out) = Starts(f) \cup {p}
      BY <2>1, <2>2, <2>3
    <2>6. QED
      BY <2>1, <2>4, <2>5
  <1>9. \A u \in Starts(out) : out[u].in = c /\ u \in Nat /\ u <= p /\ u >= 1
    <2> TAKE u \in Starts(out)
    <2>1. CASE u = p
      BY <1>1, <1>4, <2>1
    <2>2. CASE u \in Starts(f)
      <3>1. u \in 1..Len(out) /\ u < p
        <4>1. u \in 1..Len(f) /\ u < p
          BY <1>1, <1>8, <2>2 DEF Starts
        <4>2. QED
          BY <1>1, <4>1
      <3>2. out[u] = f[u] /\ f[u].in = c
        BY <1>3, <2>2, <3>1 DEF MayInsert
      <3>3. QED
        BY <1>1, <3>1, <3>2
    <2>3. QED
      BY <1>8, <2>1, <2>2
  <1>10. PICK r \in 1..(p - 1) : f[r].kind = "roots" /\ \A k \in r..(p - 1) : f[k].kind # "other"
    BY DEF MayInsert
  <1>11. r \in 1..Len(out) /\ r < p /\ out[r].kind = "roots"
    <2>1. r \in 1..Len(out) /\ r < p
      BY <1>1
    <2>2. QED
      BY <1>3, <1>10, <2>1
  <1>12. \A i, j \in DOMAIN out : out[i].kind = "roots" /\ out[j].kind = "roots" => i = j
    <2>1. ASSUME NEW i \in DOMAIN out, out[i].kind = "roots" PROVE i \in DOMAIN f /\ f[i].kind = "roots"
      <3>1. i < p
        BY <1>1, <1>4, <1>5, <1>6, <2>1
      <3>2. QED
        BY <1>1, <1>3, <2>1, <3>1
    <2>2. QED
      BY <1>2, <2>1 DEF Parses
  <1>19. ASSUME NEW i \in Starts(out), out[i].kind = "bare" PROVE HasKey(out, i)
    <2>1. i \in Starts(f) /\ f[i].kind = "bare" /\ i \in Nat
      <3>1. i \in Starts(f)
        BY <1>4, <1>8, <1>19
      <3>2. i < p /\ i \in DOMAIN f /\ i \in 1..Len(out)
        BY <1>1, <1>8, <3>1 DEF Starts
      <3>3. QED
        BY <1>1, <1>3, <1>19, <3>1, <3>2
    <2>2. PICK q \in (i + 1)..Len(f) : /\ f[q].kind \in {"key", "text"}
                                       /\ \A k \in (i + 1)..(q - 1) : ~ Solid(f, k)
      BY <2>1 DEF WellFormed, HasKey
    <2>3. q \in DOMAIN f /\ q < p /\ q \in (i + 1)..Len(out)
      <3>1. q \in DOMAIN f /\ q \in (i + 1)..Len(out)
        BY <1>1, <2>1
      <3>2. QED
        BY <1>7, <2>2, <3>1
    <2>4. ASSUME NEW k \in (i + 1)..(q - 1) PROVE ~ Solid(out, k)
      <3>1. k \in 1..Len(out) /\ k < p
        BY <1>1, <2>1, <2>3
      <3>2. QED
        BY <1>3, <2>2, <3>1 DEF Solid
    <2>5. out[q].kind \in {"key", "text"}
      <3>1. q \in 1..Len(out)
        BY <1>1, <2>3
      <3>2. QED
        BY <1>3, <2>2, <2>3, <3>1
    <2>6. QED
      BY <2>3, <2>4, <2>5 DEF HasKey
  <1>13. ASSUME NEW i \in Starts(out)
         PROVE  /\ \E q \in 1..(i - 1) : out[q].kind = "roots" /\ \A k \in q..i : out[k].kind # "other"
                /\ \A j \in Starts(out) : out[j].in = out[i].in
    <2>1. \A j \in Starts(out) : out[j].in = out[i].in
      BY <1>9
    <2>2. CASE i = p
      <3>1. \A k \in r..i : out[k].kind # "other"
        <4> TAKE k \in r..i
        <4>1. k = p \/ (k < p /\ k \in r..(p - 1) /\ k \in 1..Len(out))
          BY <1>1, <1>11, <2>2
        <4>2. QED
          BY <1>3, <1>4, <1>10, <4>1
      <3>2. r \in 1..(i - 1)
        BY <2>2
      <3>3. QED
        BY <1>4, <1>11, <2>1, <2>2, <3>1, <3>2
    <2>3. CASE i \in Starts(f)
      <3>1. i < p /\ i \in 1..Len(out) /\ i \in Nat /\ out[i] = f[i] /\ i <= Len(f)
        BY <1>1, <1>3, <1>8, <2>3 DEF Starts
      <3>2. PICK q \in 1..(i - 1) : f[q].kind = "roots" /\ \A k \in q..i : f[k].kind # "other"
        BY <1>2, <2>3 DEF Parses
      <3>3. \A k \in q..i : k \in 1..Len(out) /\ k < p
        BY <1>1, <3>1
      <3>4. out[q].kind = "roots" /\ \A k \in q..i : out[k].kind # "other"
        <4>1. q \in q..i
          BY <3>1
        <4>2. QED
          BY <1>3, <3>2, <3>3, <4>1
      <3>6. QED
        BY <2>1, <3>4
    <2>4. QED
      BY <1>8, <2>2, <2>3
  <1>14. ASSUME NEW i \in DOMAIN out, out[i].kind \in {"key", "text", "body"}
         PROVE  /\ \E q \in Starts(out) : q < i /\ \A k \in q..i : out[k].kind # "other"
                /\ out[i].kind # "body" => out[i].in = out[Owner(out, i)].in + 2
                /\ out[i].kind = "body" =>
                     /\ out[i].in = out[Owner(out, i)].in + 4
                     /\ \E h \in 1..(i - 1) : out[h].kind \in {"dash", "key", "text"} /\ Continues(out, h, i - 1)
    <2>1. i \in 1..Len(out) /\ i \in Nat
      BY <1>1
    <2>2. ASSUME NEW q \in Starts(out), q < i PROVE out[Owner(out, i)].in = c
      BY <1>1, <1>9, <2>1, <2>2, OwnerIsLast
    <2>3. CASE i < p
      <3>1. i \in DOMAIN f /\ out[i] = f[i]
        BY <1>3, <2>1, <2>3
      <3> DEFINE o == Owner(f, i)
      <3>2. /\ o \in Starts(f) /\ o < i
            /\ \A k \in o..i : f[k].kind # "other"
            /\ \A u \in Starts(f) : /\ f[i].kind # "body" => f[i].in = f[u].in + 2
                                    /\ f[i].kind = "body" => f[i].in = f[u].in + 4
            /\ f[i].kind = "body" =>
                 \E h \in o..(i - 1) : f[h].kind \in {"dash", "key", "text"} /\ Continues(f, h, i - 1)
        BY <1>2, <1>14, <3>1, GrammarOfKeys
      <3> HIDE DEF o
      <3>3. o \in Nat /\ o >= 1 /\ o \in Starts(out) /\ f[o].in = c
        BY <1>1, <1>8, <3>2 DEF Starts, MayInsert
      <3>4. \A k \in o..i : out[k].kind # "other"
        <4> TAKE k \in o..i
        <4>1. k \in 1..Len(out) /\ k < p
          BY <1>1, <2>1, <2>3, <3>3
        <4>2. QED
          BY <1>3, <3>2, <4>1
      <3>5. out[Owner(out, i)].in = c
        BY <2>2, <3>2, <3>3
      <3>6. ASSUME out[i].kind = "body"
            PROVE  \E h \in 1..(i - 1) : out[h].kind \in {"dash", "key", "text"} /\ Continues(out, h, i - 1)
        <4>1. PICK h \in o..(i - 1) : f[h].kind \in {"dash", "key", "text"} /\ Continues(f, h, i - 1)
          BY <3>1, <3>2, <3>6
        <4>2. h \in 1..(i - 1)
          BY <2>1, <3>3
        <4>3. \A k \in h..(i - 1) : out[k] = f[k]
          <5> TAKE k \in h..(i - 1)
          <5>1. k \in 1..Len(out) /\ k < p
            BY <1>1, <2>1, <2>3, <4>2
          <5>2. QED
            BY <1>3, <5>1
        <4>4. out[h] = f[h] /\ \A k \in (h + 1)..(i - 1) : out[k] = f[k]
          <5>1. h \in h..(i - 1) /\ \A k \in (h + 1)..(i - 1) : k \in h..(i - 1)
            BY <2>1, <4>2
          <5>2. QED
            BY <4>3, <5>1
        <4>5. Continues(out, h, i - 1)
          BY <4>1, <4>4 DEF Continues
        <4>6. QED
          BY <4>1, <4>2, <4>4, <4>5
      <3>7. /\ f[i].kind # "body" => f[i].in = c + 2
            /\ f[i].kind = "body" => f[i].in = c + 4
        BY <3>2, <3>3
      <3>8. QED
        BY <3>1, <3>2, <3>3, <3>4, <3>5, <3>6, <3>7
    <2>4. CASE i = p + 1 \/ i = p + 2
      <3>1. p \in Starts(out) /\ p < i
        BY <1>1, <1>8, <2>4
      <3>2. \A k \in p..i : out[k].kind # "other"
        <4> TAKE k \in p..i
        <4>1. k = p \/ k = p + 1 \/ k = p + 2
          BY <1>1, <2>4
        <4>2. QED
          BY <1>4, <4>1
      <3>3. out[Owner(out, i)].in = c
        BY <2>2, <3>1
      <3>4. out[i].kind = "key" /\ out[i].in = c + 2
        BY <1>4, <2>4
      <3>5. QED
        BY <3>1, <3>2, <3>3, <3>4
    <2>5. QED
      BY <1>4, <1>5, <1>6, <1>14, <2>1, <2>3, <2>4
  <1>15. Parses(out)
    BY <1>12, <1>13, <1>14, <1>19 DEF Parses
  <1>17. WellFormed(out)
    BY <1>1, <1>11, <1>15, <1>19 DEF WellFormed
  <1>18. QED
    BY <1>5, <1>8, <1>17

\* Removing the entry that was added restores the text, line by line.
LEMMA InsertThenCut ==
  ASSUME NEW f \in Seq(TextLines), WellFormed(f), NEW p, NEW c, MayInsert(f, p, c),
         NEW out, IsInsert(f, p, c, out), Starts(f) # {}
  PROVE  RemoveRoot(out, p) = f
  <1>1. /\ WellFormed(out) /\ Starts(out) = Starts(f) \cup {p} /\ p \notin Starts(f)
        /\ \A k \in 1..Len(out) : p + 2 < k => out[k].kind \in {"note", "blank", "other"}
    BY InsertIsWellFormed
  <1>2. /\ Len(f) \in Nat /\ DOMAIN f = 1..Len(f) /\ Len(out) = Len(f) + 3 /\ DOMAIN out = 1..Len(out)
        /\ p \in Nat /\ 2 <= p /\ p <= Len(f) + 1 /\ out \in Seq(TextLines)
    BY LenProperties DEF IsInsert, MayInsert
  <1>11. p \in Starts(out) /\ \A u \in Starts(out) : u \in Nat /\ u <= p
    <2>1. \A u \in Starts(f) : u \in 1..Len(f) /\ f[u].kind \in {"dash", "bare"}
      BY <1>2 DEF Starts
    <2>2. \A u \in Starts(f) : ~ (u \in p..Len(f))
      BY <2>1 DEF MayInsert
    <2>3. QED
      BY <1>1, <1>2, <2>1, <2>2
  <1>12. \A i \in DOMAIN out : p <= i => Owner(out, i) = p
    <2> TAKE i \in DOMAIN out
    <2> HAVE p <= i
    <2>1. Owner(out, i) \in Starts(out) /\ p <= Owner(out, i)
      BY <1>2, <1>11, OwnerIsLast
    <2>2. Owner(out, i) \in Nat /\ Owner(out, i) <= p /\ p \in Nat
      BY <1>2, <1>11, <2>1
    <2>3. QED
      BY <2>1, <2>2
  <1>13. ASSUME NEW i \in p..Len(out) PROVE i = p \/ i = p + 1 \/ i = p + 2 \/ p + 2 < i
    BY <1>2
  <1>14. /\ out[p].kind = "dash" /\ out[p + 1].kind = "key" /\ out[p + 2].kind = "key"
         /\ p \in p..Len(out) /\ p + 2 \in p..Len(out) /\ p..Len(out) \subseteq DOMAIN out
    BY <1>2 DEF IsInsert
  <1>15. ASSUME NEW i \in Owned(out, p) PROVE i \in Nat /\ i <= p + 2
    <2>1. i \in p..Len(out) /\ i \in DOMAIN out /\ i \in Nat
      BY <1>2 DEF Owned
    <2> SUFFICES ASSUME p + 2 < i PROVE FALSE
      BY <1>2, <1>13, <2>1
    <2>2. out[i].kind \in {"note", "blank", "other"}
      BY <1>1, <1>2, <2>1
    <2>3. PICK h \in p..(i - 1) : out[h].kind = "text"
      BY <2>2 DEF Owned
    <2>4. h \in p..Len(out) /\ h \in 1..Len(out)
      BY <1>2, <2>1
    <2>5. QED
      BY <1>1, <1>13, <1>14, <2>3, <2>4
  <1>16. p + 2 \in Owned(out, p)
    BY <1>2, <1>12, <1>14 DEF Owned
  <1>17. maxLine(out, p) = p + 2
    <2> DEFINE nodes == {i \in Owned(out, p) : out[i].kind \in {"dash", "key", "text"}}
    <2>1. p + 2 \in nodes /\ \A i \in nodes : i \in Nat /\ i <= p + 2
      BY <1>14, <1>15, <1>16
    <2> HIDE DEF nodes
    <2>2. \A i \in nodes : (\A j \in nodes : j <= i) => i = p + 2
      BY <1>2, <2>1
    <2>3. (CHOOSE i \in nodes : \A j \in nodes : j <= i) = p + 2
      BY <2>1, <2>2
    <2>4. QED
      BY <2>3 DEF maxLine, nodes
  <1>18. Tidy(out, p)
    <2>1. NodeLine(out, p) = p
      BY <1>14 DEF NodeLine
    <2>2. p <= p + dashSearchDepth
      BY <1>2 DEF dashSearchDepth
    <2>3. \A i \in Owned(out, p) : (maxLine(out, p) + 1)..i = {}
      BY <1>2, <1>15, <1>17
    <2>4. QED
      BY <2>1, <2>2, <2>3 DEF Tidy
  <1> DEFINE e == SpanEnd(out, p)
  <1>3. SpanStart(out, p) = p /\ IsSpan(out, p, e)
    BY <1>1, <1>2, <1>11, <1>18, SpanIsEntry
  <1> HIDE DEF e
  <1>4. e = p + 2
    <2>1. e \in Nat /\ e <= p + 2 /\ p + 2 \in p..e
      BY <1>3, <1>15, <1>16 DEF IsSpan
    <2>2. QED
      BY <1>2, <2>1
  <1>5. Cardinality(Starts(out)) # 1
    <2>1. PICK u \in Starts(f) : TRUE
      BY DEF Starts
    <2>2. u \in Starts(out) /\ p \in Starts(out) /\ u # p
      BY <1>1
    <2>3. IsFiniteSet(Starts(out))
      BY <1>2, StartsAreFinite
    <2>4. QED
      BY <2>2, <2>3, FS_Singleton
  <1> DEFINE cut == splice(out, p, (p + 2) + 1, <<>>)
  <1>6. RemoveRoot(out, p) = cut
    BY <1>3, <1>4, <1>5 DEF RemoveRoot, e
  <1> HIDE DEF cut
  <1>7. IsCut(out, p, p + 2, cut)
    BY <1>2, SpliceCuts DEF cut
  <1>8. Len(cut) = Len(f) /\ cut \in Seq(TextLines)
    BY <1>2, <1>7 DEF IsCut
  <1>9. ASSUME NEW k \in 1..Len(cut) PROVE cut[k] = f[k]
    <2>1. k \in Nat /\ k >= 1 /\ k <= Len(f)
      BY <1>2, <1>8
    <2>2. CASE k < p
      <3>1. Before(p, p + 2, k) = k /\ k \in 1..Len(out)
        BY <1>2, <2>1, <2>2 DEF Before
      <3>2. QED
        BY <1>7, <2>2, <3>1 DEF IsCut, IsInsert
    <2>3. CASE ~ (k < p)
      <3>1. Before(p, p + 2, k) = k + 3 /\ k + 3 \in 1..Len(out) /\ p + 3 <= k + 3 /\ (k + 3) - 3 = k
        BY <1>2, <2>1, <2>3 DEF Before
      <3>2. cut[k] = out[k + 3]
        BY <1>7, <3>1 DEF IsCut
      <3>3. out[k + 3] = f[(k + 3) - 3]
        BY <3>1 DEF IsInsert
      <3>4. QED
        BY <3>1, <3>2, <3>3
    <2>4. QED
      BY <2>2, <2>3
  <1>10. QED
    BY <1>6, <1>8, <1>9, SeqEqual

\* The lines of the file are lines of a text.
LEMMA LinesAreText == Seq(Lines) \subseteq Seq(TextLines)
  <1>1. Lines \subseteq TextLines
    <2> SUFFICES ASSUME NEW l \in Lines PROVE l \in TextLines
      OBVIOUS
    <2>1. CASE l \in [kind : {"roots", "other", "blank"}, in : {0}]
      BY <2>1 DEF TextLines
    <2>2. CASE l \in [kind : {"dash", "bare"}, in : Indents]
      BY <2>2, FileAssumption DEF TextLines
    <2>3. CASE l \in [kind : {"key", "text", "body", "note"},
                     in : {i + 2 : i \in Indents} \union {i + 4 : i \in Indents}]
      <3>1. {i + 2 : i \in Indents} \union {i + 4 : i \in Indents} \subseteq Nat
        BY FileAssumption
      <3>2. QED
        BY <2>3, <3>1 DEF TextLines
    <2>4. QED
      BY <2>1, <2>2, <2>3 DEF Lines
  <1>2. ASSUME NEW f \in Seq(Lines) PROVE f \in Seq(TextLines)
    BY <1>1, SeqMonotonic
  <1>3. QED
    BY <1>2

(* The splice of the roots list takes the lines of one entry and no more,  *)
(* all its keys among them, and adding a root and removing it leaves the   *)
(* text as it was: in a file of any length, with comments, empty lines,    *)
(* bare dashes, values over several lines and other keys wherever the      *)
(* parser accepts them.  That nothing of the entry is left, and that what  *)
(* is left is read, holds of an entry whose dash is at most two lines      *)
(* above its first key and whose last value no empty line and no # breaks; *)
(* of the others it does not (TakesTheWholeEntry, AddedIsRead of RootsFile)*)
(* (config/rootsfile.go).                                                  *)
THEOREM SplicesStayLocal == fileSpec => []SplicesAreLocal
  <1>1. fileInit => lines \in Seq(Lines)
    BY EmptySeq DEF fileInit
  <1>2. lines \in Seq(Lines) /\ [fileNext]_lines => (lines \in Seq(Lines))'
    BY AppendProperties DEF fileNext, Write
  <1>3. lines \in Seq(Lines) => SplicesAreLocal
    <2> SUFFICES ASSUME lines \in Seq(TextLines) PROVE SplicesAreLocal
      BY LinesAreText
    <2>1. RemovesOnlyItsOwn
      BY RemovalIsLocal DEF RemovesOnlyItsOwn
    <2>2. ASSUME WellFormed(lines), Starts(lines) # {} => Tidy(lines, LastStart(lines))
          PROVE  LET out == AddRoot(lines)
                 IN  /\ WellFormed(out)
                     /\ Cardinality(Starts(out)) = Cardinality(Starts(lines)) + 1
                     /\ Starts(lines) # {} => RemoveRoot(out, insertAt(lines)) = lines
      <3> DEFINE p == insertAt(lines)
                 c == indent(lines)
                 out == AddRoot(lines)
      <3>1. MayInsert(lines, p, c)
        BY <2>2, InsertAtIsAPlace
      <3>2. IsInsert(lines, p, c, out)
        <4>1. p \in Nat /\ 1 <= p /\ p <= Len(lines) + 1 /\ c \in Nat
          BY <3>1 DEF MayInsert
        <4> HIDE DEF p, c
        <4>2. IsInsert(lines, p, c, splice(lines, p, p, renderRootEntry(c)))
          BY <4>1, SpliceInserts
        <4>3. QED
          BY <4>2 DEF AddRoot, p, c
      <3> HIDE DEF p, c, out
      <3>3. WellFormed(out) /\ Starts(out) = Starts(lines) \cup {p} /\ p \notin Starts(lines)
        BY <2>2, <3>1, <3>2, InsertIsWellFormed
      <3>4. IsFiniteSet(Starts(lines))
        BY StartsAreFinite
      <3>5. Cardinality(Starts(out)) = Cardinality(Starts(lines)) + 1
        BY <3>3, <3>4, FS_AddElement
      <3>6. Starts(lines) # {} => RemoveRoot(out, p) = lines
        BY <2>2, <3>1, <3>2, InsertThenCut
      <3>7. QED
        BY <3>3, <3>5, <3>6 DEF p, out
    <2>3. QED
      BY <2>1, <2>2 DEF SplicesAreLocal, AddThenRemove
  <1>4. QED
    BY <1>1, <1>2, <1>3, PTL DEF fileSpec
=============================================================================
