--------------------------- MODULE MCJobWizard ---------------------------
(* A small instance of JobWizard for TLC.                                  *)
EXTENDS JobWizard, TLC

CONSTANTS a, b, x, y, t1, r1, r2, p, q, k

TwoConns == {a, b}
TwoTables == {x, y}
AllTables == [c \in TwoConns |-> TwoTables]
OneTab == {t1}
TwoRequests == {r1, r2}
TwoPasswords == {p, q}
QLooksEncrypted == {q}
OneKey == {k}
\* Connections, tables and requests are interchangeable: no property names one.
Symmetry ==
  Permutations(TwoConns) \cup Permutations(TwoTables)
  \cup Permutations(TwoRequests)
=============================================================================
