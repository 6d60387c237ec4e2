--------------------------- MODULE MCScanPipeline ---------------------------
(* ScanPipeline on libraries of three series, where workers are             *)
(* interchangeable.                                                         *)
EXTENDS ScanPipeline, TLC

\* A series of two books, one of which is a container, one of none, and one that
\* is larger than the budget.
MixedPages == << <<1, 2>>, <<>>, <<4>> >>
OneContainer == {<<1, 2>>}

\* One series, for the counterexamples.

Symmetry == Permutations(Workers)
=============================================================================
