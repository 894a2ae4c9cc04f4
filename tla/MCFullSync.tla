----------------------------- MODULE MCFullSync -----------------------------
(* A small instance of FullSync for TLC.                                   *)
EXTENDS FullSync

CONSTANT w1

OneWorker == {w1}
FourRows == 1..4

\* ORDER BY the primary key.
ByKey == [r \in Rows |-> r]
=============================================================================
