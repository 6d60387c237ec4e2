----------------------------- MODULE MCOpenPool -----------------------------
(* OpenPool on small sets.  Callers and descriptors are interchangeable, so *)
(* the safety run uses symmetry.  What a closed descriptor was and what an  *)
(* idle caller last asked for is overwritten before it is read again: the   *)
(* view leaves both out.                                                    *)
EXTENDS OpenPool, TLC

Symmetry == Permutations(Callers) \cup Permutations(Descriptors)

Task(c) == IF pc[c] = "idle" THEN <<>> ELSE <<path[c], want[c], look[c]>>

View == <<disk, [d \in open |-> file[d]], refs, published, items, older, live,
          closed, drain, pc, [c \in Callers |-> Task(c)], lease, own>>
=============================================================================
