------------------------- MODULE MCConnectorCalls -------------------------
(* A small instance of ConnectorCalls for TLC.                             *)
EXTENDS ConnectorCalls

CONSTANTS a, b, c

ThreeTables == <<a, b, c>>
AllKinds == {"postgres", "mysql", "sqlserver"}
AllModes == {"full", "incremental"}
=============================================================================
