-------------------------- MODULE MCReadingHistory --------------------------
(* ReadingHistory on libraries of two files.                                *)
EXTENDS ReadingHistory

CONSTANTS A, B, C,   \* roots
          p, q, tp,  \* paths; tp is p with a leading [tag]
          f, g       \* files

TwoRoots == <<A, B>>
ThreeRoots == <<A, B, C>>

\* f is one book or two chapters, g one book of another length.
Chapters == [x \in Files |-> IF x = f THEN <<1, 2>> ELSE <<2>>]
Plain == [x \in Paths |-> x]
Tagged == [x \in Paths |-> IF x = tp THEN p ELSE x]

Put(l1, l2) == [l \in Locations |-> IF l = l1 THEN f ELSE IF l = l2 THEN g ELSE None]
Apart == Put(<<A, p>>, <<A, q>>)
Alone == Put(<<A, p>>, <<>>)
AtTag == Put(<<B, tp>>, <<A, q>>)
AtTwin == Put(<<A, p>>, <<B, p>>)
OneEach == Put(<<A, p>>, <<B, q>>)

\* A scan visits the root a file moves to before the one it leaves, or they are
\* one root.
Backward == {m \in Locations \X Locations : Position(m[2][1]) <= Position(m[1][1])}
Onward == {m \in Locations \X Locations :
              Position(m[2][1]) > Position(m[1][1]) /\ m[2][2] # m[1][2]}
WithinRoot == {m \in Locations \X Locations : m[2][1] = m[1][1]}
SamePath == {m \in Locations \X Locations : m[2][2] = m[1][2]}
NoMoves == {}
=============================================================================
