----------------------------- MODULE MCNextRun -----------------------------
(* A small calendar: hours of 4 ticks, days of 2 hours, weeks of 2 days, and *)
(* a zone that is one hour and a half ahead.                                 *)
EXTENDS NextRun
=============================================================================
