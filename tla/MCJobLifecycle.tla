--------------------------- MODULE MCJobLifecycle ---------------------------
(* Small instances of JobLifecycle for TLC.                                *)
EXTENDS JobLifecycle

CONSTANTS p1, p2, t1, t2, t3

OneServer == {p1}
TwoServers == {p1, p2}
ThreeThreads == {t1, t2, t3}

AllRequests == RequestKinds

AnySchedule == {"recurring", "once"}

AllOutcomes == OutcomeKinds
NoTableError == OutcomeKinds \ {"table_error"}
=============================================================================
