-------------------------- MODULE MCScannerControl --------------------------
(* ScannerControl on small sets, where requests and closers are             *)
(* interchangeable.                                                         *)
EXTENDS ScannerControl, TLC

Symmetry == Permutations(Requests) \cup Permutations(Closers)
=============================================================================
