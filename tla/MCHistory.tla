------------------------------ MODULE MCHistory ------------------------------
(***************************************************************************)
(* ReadingHistory on two libraries, one in each behaviour.  In the first,  *)
(* of the configuration's constants, two files are renamed, retagged and   *)
(* moved between two roots while they are read, and the server learns to   *)
(* split them.  In the second everything may fail around another file, of  *)
(* two chapters.                                                           *)
(***************************************************************************)
EXTENDS MCReadingHistory

CONSTANT h

VARIABLE library

\* h has two chapters as f has: the files of both libraries, so that a property that
\* speaks of pages can be read in either.
TheirChapters == [x \in Files \cup {h} |-> IF x = g THEN <<2>> ELSE <<1, 2>>]

FailingPaths == {p, q}
FailingLocations == {A, B} \X FailingPaths
FailingUntagged == [x \in FailingPaths |-> x]
FailingStart == [l \in FailingLocations |-> IF l = <<A, p>> THEN h ELSE None]
FailingMoves == {m \in FailingLocations \X FailingLocations : m[2][1] = m[1][1]}
FailingEvents == {"offline", "rebuild", "cancel", "partial", "crash", "targeted", "userdb",
                  "unreadable"}

Failing == INSTANCE ReadingHistory WITH
  Paths <- FailingPaths, Files <- {h}, Volumes <- Volumes,
  Untagged <- FailingUntagged, Start <- FailingStart, Moves <- FailingMoves,
  Events <- FailingEvents, MaxReads <- 1

LibraryInit == \/ library = "moving" /\ Init
               \/ library = "failing" /\ Failing!Init
LibraryNext == /\ \/ library = "moving" /\ Next
                  \/ library = "failing" /\ Failing!Next
               /\ UNCHANGED library
LibrarySpec == LibraryInit /\ [][LibraryNext]_<<library, vars>>
=============================================================================
