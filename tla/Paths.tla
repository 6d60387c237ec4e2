------------------------------- MODULE Paths -------------------------------
(***************************************************************************)
(* The order of paths, and lists made in an order.  A path is a sequence   *)
(* of names, and a name is a number: numbers stand in the natural order of *)
(* the names.                                                              *)
(***************************************************************************)
EXTENDS Integers, Sequences, FiniteSets, SequencesExt

Less(a, b) ==
  \/ IsStrictPrefix(a, b)
  \/ \E i \in DOMAIN a \cap DOMAIN b :
       /\ a[i] < b[i]
       /\ \A j \in 1..(i - 1) : a[j] = b[j]

\* The members of a finite set in the order R, the pairs <<d, e>> with d first.
Rank(S, R, e) == Cardinality({d \in S : <<d, e>> \in R})
InOrder(S, R) == [k \in 1..Cardinality(S) |-> CHOOSE e \in S : Rank(S, R, e) = k - 1]

\* What a list has of a set, in the order of the list.
Selected(s, T) ==
  LET at == {i \in DOMAIN s : s[i] \in T}
      order == InOrder(at, {p \in at \X at : p[1] < p[2]})
  IN  [k \in DOMAIN order |-> s[order[k]]]
=============================================================================
