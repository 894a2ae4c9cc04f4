---------------------------- MODULE TableReplace ----------------------------
(***************************************************************************)
(* What the full sync of one table promises, without pages, offsets or     *)
(* batches: when a run completes, the target is a copy of the source as it *)
(* was at one moment of the run.  That holds of a run that reads one view  *)
(* of the source, and of any run while rows are only added behind the      *)
(* others; of a run that rows changed places under nothing is promised.    *)
(* FullSync implements it.                                                 *)
(***************************************************************************)
EXTENDS Naturals

CONSTANTS Rows, Rank

VARIABLES
  isolated,  \* do all statements of a run share one view?
  source,    \* the rows in the source
  target,    \* target[r]: how often the target holds row r, 2 = more than once
  taken,     \* the source at the moment the run will have copied
  phase      \* "torn" is a run of which nothing is promised

vars == <<isolated, source, target, taken, phase>>

Empty == [r \in Rows |-> 0]
CopyOf(S) == [r \in Rows |-> IF r \in S THEN 1 ELSE 0]

Init ==
  /\ isolated \in BOOLEAN
  /\ source \in SUBSET Rows
  /\ target \in [Rows -> 0..1]
  /\ taken = {}
  /\ phase = "idle"

----------------------------------------------------------------------------
\* A row is added behind all others; a run may still come to it.
Append ==
  /\ \E r \in Rows \ source :
       /\ \A s \in source : Rank[s] < Rank[r]
       /\ source' = source \cup {r}
  /\ \/ taken' = taken
     \/ phase = "running" /\ ~isolated /\ taken' = source'
  /\ UNCHANGED <<isolated, target, phase>>

\* Rows come or go anywhere, which a run with a view of its own does not see.
Alter ==
  /\ source' \subseteq Rows
  /\ IF isolated \/ phase = "idle"
       THEN UNCHANGED <<taken, phase>>
       ELSE phase' = "torn" /\ taken' = {}
  /\ UNCHANGED <<isolated, target>>

\* A run begins.
Begin ==
  /\ phase = "idle"
  /\ phase' = "running"
  /\ taken' = source
  /\ UNCHANGED <<isolated, source, target>>

\* Its view is that of a later moment.
Look ==
  /\ phase = "running"
  /\ taken' = source
  /\ UNCHANGED <<isolated, source, target, phase>>

\* The target is emptied, or gets rows it does not have and the source had.
Written ==
  \/ target' = Empty
  \/ /\ target' \in [Rows -> 0..2]
     /\ \A r \in Rows :
          \/ target'[r] = target[r]
          \/ phase = "running" /\ r \in taken /\ target[r] = 0 /\ target'[r] = 1
          \/ phase = "torn" /\ target'[r] >= target[r]

Write ==
  /\ phase \in {"running", "torn"}
  /\ Written
  /\ UNCHANGED <<isolated, source, taken, phase>>

\* The target has been replaced.
Complete ==
  /\ phase = "running"
  /\ target = CopyOf(taken)
  /\ phase' = "replaced"
  /\ UNCHANGED <<isolated, source, target, taken>>

\* The run is over: completed, or given up halfway in a last write.
End ==
  /\ phase # "idle"
  /\ phase' = "idle"
  /\ taken' = {}
  /\ target' = target \/ (phase # "replaced" /\ Written)
  /\ UNCHANGED <<isolated, source>>

Next == Append \/ Alter \/ Begin \/ Look \/ Write \/ Complete \/ End

Spec == Init /\ [][Next]_vars
=============================================================================
