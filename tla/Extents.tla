------------------------------ MODULE Extents ------------------------------
(***************************************************************************)
(* Blocks that lie one after another: each is a header of one cell and the *)
(* cells of its payload.  Offsets begin at 0.                              *)
(***************************************************************************)
EXTENDS Integers, Sequences

\* The least of a set of numbers.
Lowest(S) == CHOOSE x \in S : \A y \in S : x <= y

\* Where block i begins, if the first begins at base; one more than there are
\* blocks begins where they end.
BlockAt(sizes, base, i) ==
  LET at[k \in 1..(Len(sizes) + 1)] == IF k = 1 THEN base ELSE at[k - 1] + 1 + sizes[k - 1]
  IN  at[i]

\* The block that has the cell at an offset.
BlockOf(sizes, base, o) ==
  CHOOSE i \in DOMAIN sizes :
    BlockAt(sizes, base, i) <= o /\ o < BlockAt(sizes, base, i + 1)
=============================================================================
