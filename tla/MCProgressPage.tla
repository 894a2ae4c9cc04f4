--------------------------- MODULE MCProgressPage ---------------------------
(* A small instance of ProgressPage, and of the run it watches, for TLC.   *)
EXTENDS ProgressPage

CONSTANTS a, b

TwoTables == {a, b}
AnyError == ErrorKinds
=============================================================================
