----------------------------- MODULE TableCopy -----------------------------
(***************************************************************************)
(* What the incremental sync of one table promises, without batches,       *)
(* offsets, retries or runs: a target that receives at least one copy of   *)
(* every row, and a checkpoint that never runs ahead of the target.        *)
(* IncrementalSync implements it.                                          *)
(***************************************************************************)
EXTENDS Integers

CONSTANTS Versions, Values, Null, Val(_)

VARIABLES source, history, copies, checkpoint

vars == <<source, history, copies, checkpoint>>

\* Every source row the checkpoint c rules out from now on has been copied.
Kept(c) == \A x \in source : Val(x) # Null /\ Val(x) <= c => copies[x] > 0

Init ==
  /\ source = history
  /\ history \subseteq Versions
  /\ copies = [x \in Versions |-> 0]
  /\ checkpoint = Null

\* Rows come, change and go; a row that is new is above the checkpoint.
Change ==
  /\ source' \subseteq Versions
  /\ history' = history \cup source'
  /\ \A x \in source' \ source : Val(x) = Null \/ Val(x) > checkpoint
  /\ UNCHANGED <<copies, checkpoint>>

\* Some rows the source holds or has held are copied, once more or at last;
\* no copy is ever taken back.
Copy ==
  /\ copies' \in [Versions -> 0..2]
  /\ \A x \in Versions : \/ copies'[x] = copies[x]
                         \/ x \in history /\ copies'[x] > 0
                              /\ copies'[x] >= copies[x]
  /\ UNCHANGED <<source, history, checkpoint>>

\* The checkpoint moves, or is removed: nothing below it is left behind.
Advance ==
  /\ checkpoint' \in Values
  /\ Kept(checkpoint')
  /\ UNCHANGED <<source, history, copies>>

Next == Change \/ Copy \/ Advance

Spec == Init /\ [][Next]_vars
=============================================================================
