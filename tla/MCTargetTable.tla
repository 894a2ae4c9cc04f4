--------------------------- MODULE MCTargetTable ---------------------------
(* A small instance of TargetTable for TLC.                                *)
EXTENDS TargetTable

AllDatabases == Databases
AllKinds == {"int", "string", "text", "decimal", "time"}
=============================================================================
