------------------------- MODULE MCIncrementalSync -------------------------
(* Small instances of IncrementalSync for TLC.                             *)
EXTENDS IncrementalSync, TLC

CONSTANTS w1, w2

OneWorker == {w1}
TwoWorkers == {w1, w2}

\* The two threads of a job do the same: sound for every property checked with
\* it, none of which names a thread or is about liveness.
Symmetry == Permutations(TwoWorkers)

TwoRows == 1..2
ThreeRows == 1..3

Appends == {"append"}
AllButTies == {"append", "update", "delete"}
=============================================================================
