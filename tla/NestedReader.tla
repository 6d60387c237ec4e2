---------------------------- MODULE NestedReader ----------------------------
(***************************************************************************)
(* An archive inside an archive read at random: a stored one is a section  *)
(* of the outer container, a deflated one is inflated forward from its     *)
(* start, with one stream whose position moves, a restart for a read       *)
(* behind it, and the last bytes kept once they have been inflated.  A     *)
(* byte is its own offset in the inner archive, so a wrong byte shows.     *)
(* The mutex makes every call one step.  An operator named X_Bug is X with *)
(* a plausible mistake in it.                                              *)
(***************************************************************************)
EXTENDS Integers

CONSTANTS
  Sizes,        \* lengths the index may have recorded for the inner archive
  Lengths,      \* lengths its stored bytes may really inflate to
  MaxRead,      \* bound: bytes asked for in one call
  tailWindow    \* bytes kept from the end, more than none

ASSUME NestedAssumption ==
  /\ Sizes \subseteq Nat /\ Lengths \subseteq Nat
  /\ MaxRead \in Nat /\ tailWindow \in Nat \ {0}

VARIABLES
  kind,       \* "shut" before Open, then "stored", "inflate" or "refused"
  size,       \* the recorded length
  real,       \* the length that is really there
  broken,     \* the stream fails at real instead of ending
  open, pos,  \* the inflate stream and the offset it has reached
  tailFrom,   \* the byte that the kept tail begins with
  tailOff,    \* the offset the reader believes it begins at
  tailLen, tailDone,
  closed,
  answer      \* of the last read: off, want, first, count, err

nestVars == <<kind, size, real, broken, open, pos, tailFrom, tailOff, tailLen,
          tailDone, closed, answer>>
inner == <<kind, size, real, broken>>
stream == <<open, pos>>
tail == <<tailFrom, tailOff, tailLen, tailDone>>

Least(a, b) == IF a < b THEN a ELSE b

Kinds == {"shut", "stored", "inflate", "refused"}
Errors == {"none", "EOF", "failed", "closed"}
Answer(off, want, first, count, err) ==
  [off |-> off, want |-> want, first |-> first, count |-> count, err |-> err]
NoAnswer == Answer(0, 0, 0, 0, "none")

nestInit ==
  /\ kind = "shut"
  /\ size \in Sizes /\ real \in Lengths /\ broken \in BOOLEAN
  /\ open = FALSE /\ pos = 0
  /\ tailFrom = 0 /\ tailOff = 0 /\ tailLen = 0 /\ tailDone = FALSE
  /\ closed = FALSE
  /\ answer = NoAnswer

\* Open and payloadOffset: no local header at the offset or an encrypted one is
\* refused, and a method other than the two.
Open ==
  /\ kind = "shut"
  /\ \E header \in {"plain", "encrypted", "missing"}, method \in {"store", "deflate", "other"} :
       kind' = IF header # "plain" \/ method = "other" THEN "refused"
               ELSE IF method = "store" THEN "stored" ELSE "inflate"
  /\ UNCHANGED <<size, real, broken, stream, tail, closed, answer>>

\* How much of a call can be answered at all, and what a short answer says.
Want(off, n) == Least(n, size - off)
Ending(off, n, count) ==
  IF count < Want(off, n) THEN (IF broken THEN "failed" ELSE "EOF")
  ELSE IF Want(off, n) < n THEN "EOF" ELSE "none"

\* A read of a stored inner archive: a section of the outer file.
ReadStored(off, n) ==
  /\ kind = "stored"
  /\ LET there == IF off < real THEN real - off ELSE 0
         count == Least(Want(off, n), there)
     IN  answer' = IF off >= size THEN Answer(off, n, off, 0, "EOF")
                   ELSE Answer(off, n, off, count, Ending(off, n, count))
  /\ UNCHANGED <<inner, stream, tail, closed>>

\* A read after Close, and one past the end.
ReadClosed(off, n) ==
  /\ kind = "inflate" /\ closed
  /\ answer' = Answer(off, n, off, 0, "closed")
  /\ UNCHANGED <<inner, stream, tail, closed>>
ReadPastEnd(off, n) ==
  /\ kind = "inflate" /\ ~ closed /\ off >= size
  /\ answer' = Answer(off, n, off, 0, "EOF")
  /\ UNCHANGED <<inner, stream, tail, closed>>

\* Is the read near enough the end that the tail is worth inflating.
NearEnd(off, n) == off + Want(off, n) > size - tailWindow

\* fillTail: inflate from the start to the recorded end, keeping the last bytes;
\* a stream that ends early is the real end, one that fails is not remembered.
Inflated == Least(size, real)
FillFails == real < size /\ broken
TailBytes == Least(tailWindow, Inflated)
FillTail ==
  /\ open' = TRUE
  /\ pos' = Inflated
  /\ tailLen' = TailBytes
  /\ tailFrom' = Inflated - TailBytes
  /\ tailOff' = pos' - tailLen'
  /\ tailDone' = ~ FillFails

\* What the kept tail answers.
FromTail(off, n) ==
  LET lo == off - tailOff'
      count == Least(Want(off, n), tailLen' - lo)
  IN  IF lo >= tailLen' THEN Answer(off, n, off, 0, "EOF")
      ELSE Answer(off, n, tailFrom' + lo, count,
                  IF count < n THEN "EOF" ELSE "none")

\* A read the tail answers, inflated now or before.
ReadTail(off, n) ==
  /\ kind = "inflate" /\ ~ closed /\ off < size
  /\ NearEnd(off, n)
  /\ IF tailDone THEN UNCHANGED <<stream, tail>> ELSE FillTail
  /\ IF ~ tailDone /\ FillFails
       THEN answer' = Answer(off, n, off, 0, "failed")
       ELSE off >= tailOff' /\ answer' = FromTail(off, n)
  /\ UNCHANGED <<inner, closed>>

Sequential_NoRestart(off, n, opened, at) ==
  LET from == IF opened THEN at ELSE 0
      reach == from + (IF from > off THEN 0 ELSE Least(off - from, real - from))
      count == IF reach < off THEN 0 ELSE Least(Want(off, n), real - reach)
  IN  /\ open' = TRUE
      /\ pos' = reach + count
      /\ answer' = Answer(off, n, reach, count, Ending(off, n, count))

\* The sequential path from a stream position: a restart for a read behind it,
\* the bytes before off thrown away, the rest handed over.
Sequential(off, n, opened, at) ==
  LET from == IF ~ opened \/ off < at THEN 0 ELSE at
      reach == from + Least(off - from, real - from)   \* where discard stops
      count == IF reach < off THEN 0 ELSE Least(Want(off, n), real - reach)
  IN  /\ open' = TRUE
      /\ pos' = reach + count
      /\ answer' = Answer(off, n, reach, count, Ending(off, n, count))

ReadForward(off, n) ==
  /\ kind = "inflate" /\ ~ closed /\ off < size
  /\ ~ NearEnd(off, n)
  /\ Sequential(off, n, open, pos)
  /\ UNCHANGED <<inner, tail, closed>>

\* A read near the end whose beginning the tail does not reach back to.
ReadAcross(off, n) ==
  /\ kind = "inflate" /\ ~ closed /\ off < size
  /\ NearEnd(off, n)
  /\ IF tailDone
       THEN /\ off < tailOff
            /\ Sequential(off, n, open, pos)
            /\ UNCHANGED tail
       ELSE /\ ~ FillFails
            /\ off < Inflated - TailBytes
            /\ tailLen' = TailBytes /\ tailFrom' = Inflated - TailBytes /\ tailOff' = Inflated - TailBytes
            /\ tailDone' = TRUE
            /\ Sequential(off, n, TRUE, Inflated)
  /\ UNCHANGED <<inner, closed>>

\* Close lets the stream and the tail go; a stored reader has neither.
Close ==
  /\ kind = "inflate"
  /\ closed' = TRUE
  /\ open' = FALSE /\ pos' = 0
  /\ tailLen' = 0
  /\ UNCHANGED <<inner, tailFrom, tailOff, tailDone, answer>>

ReadAt(off, n) ==
  \/ ReadStored(off, n) \/ ReadClosed(off, n) \/ ReadPastEnd(off, n)
  \/ ReadTail(off, n) \/ ReadForward(off, n) \/ ReadAcross(off, n)

nestNext ==
  \/ Open
  \/ \E off \in 0..size, n \in 1..MaxRead : ReadAt(off, n)
  \/ Close

nestSpec == nestInit /\ [][nestNext]_nestVars

------------------------------------------------------------------------------
nestTypeOK ==
  /\ kind \in Kinds
  /\ size \in Sizes /\ real \in Lengths /\ broken \in BOOLEAN
  /\ open \in BOOLEAN /\ pos \in Nat
  /\ tailFrom \in Nat /\ tailOff \in Nat /\ tailLen \in Nat /\ tailDone \in BOOLEAN
  /\ closed \in BOOLEAN
  /\ answer \in [off : Nat, want : Nat, first : Nat, count : Nat, err : Errors]

\* Whatever was read before, backwards, forwards or near the end, the bytes of
\* an answer are the bytes at the offset asked for, and as many as are there: it
\* is shorter than asked for only at the end, or where the stream is damaged,
\* and then it says so.
AnswersAreTrue ==
  /\ answer.count > 0 => answer.first = answer.off
  /\ answer.off + answer.count <= real \/ answer.count = 0
  /\ answer.count < answer.want => answer.err # "none"
  /\ (answer.err = "EOF" /\ answer.off < size /\ ~ broken) =>
        answer.count = Least(answer.want, IF answer.off < Inflated THEN Inflated - answer.off ELSE 0)

\* The reader is where it believes it is: the stream has not passed the bytes
\* that exist, and a finished tail is the end of them.
StreamIsWhereItIs ==
  /\ pos <= real /\ (~ open => pos = 0)
  /\ (tailDone /\ ~ closed) => /\ tailLen = TailBytes /\ tailFrom = Inflated - TailBytes
                               /\ tailOff = tailFrom /\ ~ FillFails
  /\ closed => ~ open /\ kind = "inflate"

\* An inner archive read at random offsets through a sequential stream and a
\* kept tail answers what is at the offset, and the stream is where the reader
\* believes it is.
NestedIsTrue == nestTypeOK /\ AnswersAreTrue /\ StreamIsWhereItIs
==============================================================================
