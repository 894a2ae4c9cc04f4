----------------------------- MODULE MCSyncRun -----------------------------
(* A small instance of SyncRun for TLC.                                    *)
EXTENDS SyncRun

CONSTANTS a, b

TwoTables == {a, b}

TableErrors == {"table"}
=============================================================================
