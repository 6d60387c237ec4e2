------------------------------ MODULE FirstSeen ------------------------------
(***************************************************************************)
(* When each series was first seen: the scans that collect the sightings   *)
(* of a root and write them to user.db after the index, and the marker     *)
(* that ends the bootstrap, in which a series is dated by its files and    *)
(* not by the clock.  A run can be cancelled, can fail to read or to write *)
(* and can end with the process between any two of its steps.              *)
(* An operator named X_Bug is X with a plausible mistake in it.            *)
(***************************************************************************)
EXTENDS Integers, FiniteSets

CONSTANTS
  RootOf,     \* from series to roots, which are 1, 2, ... in their order
  SeenClock   \* bound: runs begun and series that arrived

ASSUME FirstSeenAssumption == IsFiniteSet(DOMAIN RootOf) /\ SeenClock \in Nat

VARIABLES
  seenClock,
  disk,     \* from the series on the disk to [mtime, arrived]
  mounted,  \* the roots that can be reached
  seen,     \* user.db: from series to first_seen_at
  marker,   \* user.db: when the bootstrap was completed, 0 before
  run,      \* the run's request, seenRun, seenTally and results
  batch     \* the sightings of the root that is being scanned

seendb == <<seen, marker>>
outside == <<seenClock, disk, mounted>>
seenVars == <<outside, seendb, run, batch>>

Series == DOMAIN RootOf
Roots == {RootOf[s] : s \in Series}
Earliest(a, b) == IF a < b THEN a ELSE b

NoRun == [phase |-> "none"]

seenInit ==
  /\ seenClock = 2
  /\ \E S \in SUBSET Series : \E m \in {0, 1} : disk = [s \in S |-> [mtime |-> m, arrived |-> 1]]
  /\ mounted = Roots
  /\ seen = <<>> /\ marker = 0
  /\ run = NoRun /\ batch = <<>>

------------------------------------------------------------------------------
(* One run. *)

FirstSeenBootstrapNeeded_Empty == marker = 0 /\ seen = <<>>

\* "The marker alone decides it."
FirstSeenBootstrapNeeded == marker = 0

\* beginSeen: a marker that cannot be read lets the run record nothing.
BeginSeen(wanted, only) ==
  /\ run = NoRun /\ seenClock < SeenClock
  /\ seenClock' = seenClock + 1
  /\ \E readable \in BOOLEAN :
       run' = [phase |-> "roots", at |-> seenClock + 1, records |-> readable,
               bootstrap |-> FirstSeenBootstrapNeeded, wanted |-> wanted, only |-> only,
               done |-> {}, bad |-> {}, cancelled |-> FALSE, failed |-> FALSE, recorded |-> 0]
  /\ batch' = <<>>
  /\ UNCHANGED <<disk, mounted, seendb>>

Asked(s) == run.only = {} \/ s \in run.only
Next1(r) == r \in run.wanted \ run.done /\ \A q \in run.wanted \ run.done : r <= q

\* scanRoot without the root: nothing is listed.
Unreachable(r) ==
  /\ run.phase = "roots" /\ ~ run.cancelled /\ Next1(r) /\ r \notin mounted
  /\ run' = [run EXCEPT !.done = @ \cup {r}, !.bad = @ \cup {r}]
  /\ UNCHANGED <<outside, seendb, batch>>

\* add: the run's time, or in a bootstrap the files' if it is earlier.
StampOf(s) ==
  IF run.bootstrap /\ disk[s].mtime > 0 THEN Earliest(run.at, disk[s].mtime) ELSE run.at

\* scanRoot up to the end of its index writer: all the series asked for, or the
\* ones written before it was cancelled or could not be written.
ScanRoot(r, listed, outcome) ==
  /\ run.phase = "roots" /\ ~ run.cancelled /\ Next1(r) /\ r \in mounted
  /\ LET there == {s \in DOMAIN disk : RootOf[s] = r /\ Asked(s)}
     IN  listed \subseteq there /\ (outcome = "ok" => listed = there)
  /\ batch' = IF run.records THEN [s \in listed |-> StampOf(s)] ELSE <<>>
  /\ run' = [run EXCEPT !.phase = "flush", !.done = @ \cup {r},
                        !.bad = IF outcome = "failed" THEN @ \cup {r} ELSE @,
                        !.cancelled = outcome = "cancelled"]
  /\ UNCHANGED <<outside, seendb>>

\* MarkSeriesSeen on conflict, first and last.
Insert_Overwrites(old, new) ==
  [s \in DOMAIN old \cup DOMAIN new |-> IF s \in DOMAIN new THEN new[s] ELSE old[s]]
Insert(old, new) ==
  [s \in DOMAIN old \cup DOMAIN new |-> IF s \in DOMAIN old THEN old[s] ELSE new[s]]

\* flush: one transaction, or none; a cancelled run flushes too.
Flush ==
  /\ run.phase = "flush"
  /\ seen' = Insert(seen, batch)
  /\ run' = [run EXCEPT !.phase = "roots", !.recorded = @ + Cardinality(DOMAIN batch)]
  /\ batch' = <<>>
  /\ UNCHANGED <<outside, marker>>
FlushFails_Unnoticed ==
  /\ run.phase = "flush" /\ batch # <<>>
  /\ run' = [run EXCEPT !.phase = "roots"]
  /\ batch' = <<>>
  /\ UNCHANGED <<outside, seendb>>
FlushFails ==
  /\ run.phase = "flush" /\ batch # <<>>
  /\ run' = [run EXCEPT !.phase = "roots", !.failed = TRUE]
  /\ batch' = <<>>
  /\ UNCHANGED <<outside, seendb>>

Cancel ==
  /\ run.phase \in {"roots", "flush"} /\ ~ run.cancelled
  /\ run' = [run EXCEPT !.cancelled = TRUE]
  /\ UNCHANGED <<outside, seendb, batch>>

\* bootstrapIncomplete, the other way round.
Complete ==
  /\ ~ run.cancelled
  /\ run.wanted = Roots /\ run.only = {}
  /\ run.done = run.wanted
  /\ ~ run.failed /\ run.recorded > 0
  /\ run.bad = {}

\* finishSeen; the marker may fail to be written.
FinishSeen(written) ==
  /\ run.phase = "roots" /\ (run.done = run.wanted \/ run.cancelled)
  /\ marker' = IF run.records /\ run.bootstrap /\ Complete /\ written THEN run.at ELSE marker
  /\ run' = NoRun
  /\ UNCHANGED <<outside, seen, batch>>

------------------------------------------------------------------------------
(* The process, the disk. *)

Crash ==
  /\ run.phase \in {"roots", "flush"}
  /\ run' = NoRun /\ batch' = <<>>
  /\ UNCHANGED <<outside, seendb>>

\* A series is copied in, with the times of its files or with today's.
Arrive(s) ==
  /\ s \notin DOMAIN disk /\ seenClock < SeenClock
  /\ seenClock' = seenClock + 1
  /\ \E m \in {1, seenClock + 1} :
       disk' = [x \in DOMAIN disk \cup {s} |->
                  IF x = s THEN [mtime |-> m, arrived |-> seenClock + 1] ELSE disk[x]]
  /\ UNCHANGED <<mounted, seendb, run, batch>>
Mount(r) ==
  /\ run = NoRun
  /\ mounted' = IF r \in mounted THEN mounted \ {r} ELSE mounted \cup {r}
  /\ UNCHANGED <<seenClock, disk, seendb, run, batch>>

seenNext ==
  \/ BeginSeen(Roots, {})
  \/ \E r \in Roots : BeginSeen({r}, {}) \/ Unreachable(r) \/ Mount(r)
  \/ \E s \in Series : BeginSeen({RootOf[s]}, {s}) \/ Arrive(s)
  \/ \E r \in Roots, listed \in SUBSET DOMAIN disk, outcome \in {"ok", "failed", "cancelled"} :
       ScanRoot(r, listed, outcome)
  \/ Flush \/ FlushFails \/ Cancel \/ Crash
  \/ \E written \in BOOLEAN : FinishSeen(written)

seenSpec == seenInit /\ [][seenNext]_seenVars

------------------------------------------------------------------------------
Runs ==
  [phase : {"roots", "flush"}, at : Nat, records : BOOLEAN, bootstrap : BOOLEAN,
   wanted : SUBSET Roots, only : SUBSET Series, done : SUBSET Roots, bad : SUBSET Roots,
   cancelled : BOOLEAN, failed : BOOLEAN, recorded : Nat]

seenTypeOK ==
  /\ seenClock \in Nat /\ marker \in Nat /\ mounted \subseteq Roots
  /\ DOMAIN disk \subseteq Series /\ disk \in [DOMAIN disk -> [mtime : Nat, arrived : Nat]]
  /\ DOMAIN seen \subseteq DOMAIN disk /\ seen \in [DOMAIN seen -> Nat]
  /\ run \in Runs \cup {NoRun}
  /\ DOMAIN batch \subseteq DOMAIN disk /\ batch \in [DOMAIN batch -> Nat]

\* "The first scan of a pre-existing collection" never puts it into what is
\* recently added: a series is dated later than its files only if it arrived
\* after the run that completed the bootstrap had begun, however many runs were
\* cancelled, failed or cut short before.  Files without a time are excepted.
OldIsNotNew ==
  \A s \in DOMAIN seen :
    seen[s] > disk[s].mtime /\ disk[s].mtime > 0 => marker > 0 /\ disk[s].arrived >= marker

\* "The first sighting wins for ever", and a run that ended well leaves no series
\* unseen that was there when it began.
SightingsStay ==
  /\ \A s \in DOMAIN seen : s \in DOMAIN seen' /\ seen'[s] = seen[s]
  /\ (\E written \in BOOLEAN : FinishSeen(written)) /\ run.records
       /\ ~ run.cancelled /\ ~ run.failed /\ run.bad = {} =>
         \A s \in DOMAIN disk :
           RootOf[s] \in run.wanted /\ Asked(s) /\ disk[s].arrived < run.at => s \in DOMAIN seen
SightingsLast == [][SightingsStay]_seenVars
==============================================================================
