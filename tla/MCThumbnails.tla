---------------------------- MODULE MCThumbnails ----------------------------
(* Constants for TLC: a page that is fine and is replaced by one that no   *)
(* decoder reads, or a loose cover file.                                   *)
EXTENDS Thumbnails, TLC

CONSTANTS w1, w2, c1, page, cover

OnePage    == {page}
OneCover   == {cover}
BrokenPage == {<<page, 2>>}

(* Of an outcome, only a verdict that has yet to be settled and whether a  *)
(* follower was told decide what can happen.                               *)
Decisive(q) ==
    \/ pc[q] = "settle" /\ outcome[q] \in Verdicts
    \/ pc[q] = "follow" /\ outcome[q] # "none"

View == <<sources, files, queues, flights, active, life, turn, leader, picture, attempt, gone, owed,
          [q \in Procs |-> <<Decisive(q), pc[q] = "settle" /\ outcome[q] = "unread">>]>>

(* No step is enabled by, and neither liveness property reads, which       *)
(* picture a file has and what a request was promised.                     *)
FairView == <<sources, {k \in Keys : cache[k] # 0}, intact, strikes, queues, inflight, negative, held,
              active, life, turn, leader, attempt, gone, [q \in Procs |-> Decisive(q)]>>

Symmetry == Permutations(Workers)
=============================================================================
