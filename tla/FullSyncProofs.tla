--------------------------- MODULE FullSyncProofs ---------------------------
(***************************************************************************)
(* Proofs about FullSync, for any rows, batch size and number of faults.   *)
(* Type correctness needs no hypothesis.  That a completed run has         *)
(* replaced the target, and that FullSync implements TableReplace, needs a *)
(* job that one worker runs at a time and a table whose ORDER BY tells any *)
(* two rows apart; OnlyRun and TotalOrder say so.                          *)
(***************************************************************************)
EXTENDS FullSync, FiniteSetTheorems, TLAPS

OnlyRun == \A v, w \in Workers : v = w
TotalOrder == \A r, s \in Rows : Rank[r] = Rank[s] => r = s

----------------------------------------------------------------------------
(* Types.                                                                  *)

LEMMA VisibleType ==
  ASSUME TypeOK, NEW w \in Workers
  PROVE  Visible(w) \subseteq Rows
  BY DEF TypeOK, Visible

LEMMA FaultType ==
  ASSUME TypeOK, Fault
  PROVE  faults' \in 0..MaxFaults
  BY BoundsAssumption DEF TypeOK, Fault

LEMMA CopyInType ==
  ASSUME TypeOK, NEW P, CopyIn(P)
  PROVE  copies' \in [Rows -> 0..2]
  BY DEF TypeOK, CopyIn, Smaller

LEMMA LeaveType ==
  ASSUME TypeOK, NEW w \in Workers, Leave(w), UNCHANGED <<snapshot, source>>,
         copies' \in [Rows -> 0..2], faults' \in 0..MaxFaults
  PROVE  TypeOK'
  BY DEF TypeOK, Leave, States

LEMMA TypeStep == TypeOK /\ [Next]_vars => TypeOK'
  <1> SUFFICES ASSUME TypeOK, [Next]_vars PROVE TypeOK'
    OBVIOUS
  <1>1. ASSUME NEW r \in Rows, Appear(r) \/ Disappear(r)
        PROVE  TypeOK'
    <2>1. shifted' \in [Workers -> BOOLEAN]
      BY <1>1 DEF TypeOK, Appear, Disappear, Shift
    <2>2. live' \in [Workers -> SUBSET Rows]
      BY <1>1 DEF TypeOK, Appear, Disappear
    <2>3. QED
      BY <1>1, <2>1, <2>2 DEF TypeOK, Appear, Disappear
  <1>2. ASSUME NEW w \in Workers, Step(w)
        PROVE  TypeOK'
    <2>1. CASE Connect(w)
      BY <2>1 DEF TypeOK, Connect, States
    <2>2. CASE Truncate(w)
      BY <2>2, VisibleType DEF TypeOK, Truncate, Emptied, States
    <2>3. CASE Fetch(w)
      <3>1. PICK P \in Pages(Visible(w), offset[w]) :
              /\ batch' = [batch EXCEPT ![w] = P]
              /\ pc' = [pc EXCEPT ![w] = IF P = {} THEN "finish" ELSE "insert"]
        BY <2>3 DEF Fetch
      <3>2. P \subseteq Rows
        BY VisibleType DEF Pages
      <3>3. QED
        BY <2>3, <3>1, <3>2 DEF TypeOK, Fetch, States
    <2>4. CASE Insert(w)
      BY <2>4, CopyInType DEF TypeOK, Insert, States
    <2>5. CASE SaveProgress(w)
      BY <2>5, BoundsAssumption DEF TypeOK, SaveProgress, NextOffset, States
    <2>6. CASE Finish(w)
      BY <2>6, LeaveType DEF Finish, TypeOK
    <2>7. QED
      BY <1>2, <2>1, <2>2, <2>3, <2>4, <2>5, <2>6 DEF Step
  <1>3. ASSUME NEW w \in Workers, Reopen(w)
        PROVE  TypeOK'
    BY <1>3 DEF TypeOK, Reopen
  <1>4. ASSUME NEW w \in Workers, FaultStep(w)
        PROVE  TypeOK'
    <2>1. /\ Leave(w) /\ Fault /\ UNCHANGED <<snapshot, source>>
          /\ Emptied \/ CopyIn(batch[w]) \/ UNCHANGED copies
      BY <1>4 DEF FaultStep, TruncateError, FetchError, InsertError, SaveError
    <2>2. copies' \in [Rows -> 0..2]
      BY <2>1, CopyInType DEF Emptied, TypeOK
    <2>3. QED
      BY <2>1, <2>2, FaultType, LeaveType
  <1>5. CASE Crash
    BY <1>5, FaultType DEF TypeOK, Crash, States
  <1>8. CASE PutRight
    BY <1>8 DEF TypeOK, PutRight, States
  <1>6. CASE UNCHANGED vars
    BY <1>6 DEF TypeOK, vars
  <1>7. QED
    BY <1>1, <1>2, <1>3, <1>4, <1>5, <1>6, <1>8 DEF Next

LEMMA TypeInit == Init => TypeOK
  BY BoundsAssumption DEF Init, TypeOK, States

\* Every variable keeps its type, whatever the application, the runs and the
\* faults do.
THEOREM FullTypes == Spec => []TypeOK
  BY TypeInit, TypeStep, PTL DEF Spec

----------------------------------------------------------------------------
(* Paging over a total order.                                              *)

LEMMA SumOfSizes ==
  ASSUME NEW A, IsFiniteSet(A), NEW B, IsFiniteSet(B), A \cap B = {}
  PROVE  /\ Cardinality(A \cup B) = Cardinality(A) + Cardinality(B)
         /\ Cardinality(A) \in Nat /\ Cardinality(B) \in Nat
  <1>1. Cardinality(A \cap B) = 0
    BY FS_EmptySet
  <1>2. Cardinality(A) \in Nat /\ Cardinality(B) \in Nat
    BY FS_CardinalityType
  <1>3. Cardinality(A \cup B) = Cardinality(A) + Cardinality(B)
                                 - Cardinality(A \cap B)
    BY FS_Union
  <1>4. QED
    BY <1>1, <1>2, <1>3

\* Two sets of rows of one size that both come first in S are the same set.
LEMMA OneBeginning ==
  ASSUME TotalOrder, NEW S \in SUBSET Rows,
         NEW A \in SUBSET S, NEW B \in SUBSET S,
         Ahead(A, S \ A), Ahead(B, S \ B), Cardinality(A) = Cardinality(B)
  PROVE  A = B
  <1>1. IsFiniteSet(S) /\ IsFiniteSet(A) /\ IsFiniteSet(B)
    BY RowsAssumption, FS_Subset
  <1>2. A \subseteq B \/ B \subseteq A
    <2> SUFFICES ASSUME NEW a \in A, a \notin B, NEW b \in B, b \notin A
                 PROVE  FALSE
      OBVIOUS
    <2>1. Rank[a] <= Rank[b] /\ Rank[b] <= Rank[a]
      BY DEF Ahead
    <2>2. Rank[a] \in Nat /\ Rank[b] \in Nat
      BY RowsAssumption
    <2>3. Rank[a] = Rank[b]
      BY <2>1, <2>2
    <2>4. QED
      BY <2>3 DEF TotalOrder
  <1>3. QED
    BY <1>1, <1>2, FS_Subset

\* P is the page of S after the rows D: it repeats none of them, leaves no gap,
\* and is short only when nothing is left.
IsNextPage(S, D, P) ==
  /\ P \subseteq S \ D
  /\ Cardinality(P) \in Nat /\ Cardinality(P) <= BatchSize
  /\ Ahead(D \cup P, S \ (D \cup P))
  /\ LastBatch(P) => D \cup P = S

LEMMA NextPage ==
  ASSUME TotalOrder, NEW S \in SUBSET Rows,
         NEW D \in SUBSET S, Ahead(D, S \ D),
         NEW P \in Pages(S, Cardinality(D))
  PROVE  IsNextPage(S, D, P)
  <1>1. PICK K \in SUBSET (S \ P) :
          /\ Cardinality(K) = Smaller(Cardinality(D), Cardinality(S))
          /\ Cardinality(P) = Smaller(BatchSize,
                                      Cardinality(S) - Cardinality(K))
          /\ Ahead(K, S \ K)
          /\ Ahead(P, S \ (K \cup P))
    BY DEF Pages
  <1>2. P \in SUBSET S /\ K \in SUBSET S
    BY DEF Pages
  <1>3. IsFiniteSet(S) /\ IsFiniteSet(D) /\ IsFiniteSet(P) /\ IsFiniteSet(K)
    BY <1>2, RowsAssumption, FS_Subset
  <1>4. /\ Cardinality(S) \in Nat /\ Cardinality(D) \in Nat
        /\ Cardinality(P) \in Nat /\ Cardinality(D) <= Cardinality(S)
    BY <1>3, FS_CardinalityType, FS_Subset
  <1>5. Cardinality(K) = Cardinality(D)
    BY <1>1, <1>4 DEF Smaller
  <1>6. K = D
    BY <1>1, <1>2, <1>5, OneBeginning
  <1>7. Cardinality(P) <= BatchSize
    BY <1>1, <1>4, <1>5, BoundsAssumption DEF Smaller
  <1>8. Ahead(D \cup P, S \ (D \cup P))
    BY <1>1, <1>6 DEF Ahead
  <1>9. ASSUME LastBatch(P)
        PROVE  D \cup P = S
    <2>1. Cardinality(P) = Cardinality(S) - Cardinality(D)
      BY <1>1, <1>4, <1>5, <1>9, BoundsAssumption DEF Smaller, LastBatch
    <2>2. D \cap P = {}
      BY <1>1, <1>6
    <2>3. Cardinality(D \cup P) = Cardinality(D) + Cardinality(P)
      BY <1>3, <2>2, SumOfSizes
    <2>4. Cardinality(D \cup P) = Cardinality(S)
      BY <1>4, <2>1, <2>3
    <2>5. QED
      BY <1>2, <1>3, <2>4, FS_Subset
  <1>10. QED
    BY <1>1, <1>2, <1>4, <1>6, <1>7, <1>8, <1>9 DEF IsNextPage

----------------------------------------------------------------------------
(* The inductive invariant.                                                *)

\* What a run w reads lies within live[w], and holds start[w].
SeesInv(w) ==
  /\ pc[w] \in {"idle", "stuck", "connected"} => offset[w] = 0
  /\ Running(w) => source \subseteq live[w] /\ Visible(w) \subseteq live[w]
  /\ start[w] \subseteq source
  /\ Running(w) => start[w] \subseteq Visible(w)

\* The rows that n rows of the order have been copied for are the first of the
\* order, and none of them twice.
FirstRows(S, n) ==
  /\ \A r \in Rows : copies[r] \in {0, 1}
  /\ Copied \subseteq S
  /\ Ahead(Copied, S \ Copied)
  /\ Cardinality(Copied) = n

\* The batch P is the next of them, and the last if it is short.
Due(S, P, w) ==
  /\ Cardinality(P) \in Nat /\ Cardinality(P) <= BatchSize
  /\ P \subseteq S \ Copied
  /\ Ahead(Copied \cup P, S \ (Copied \cup P))
  /\ LastBatch(P) => start[w] \subseteq Copied \cup P

PagesInv(w) ==
  (shifted[w] => snapshot) =>
    /\ pc[w] = "fetch" => FirstRows(Visible(w), offset[w])
    /\ pc[w] = "insert" =>
         FirstRows(Visible(w), offset[w]) /\ Due(Visible(w), batch[w], w)
    /\ pc[w] = "save" =>
         /\ FirstRows(Visible(w), offset[w] + Cardinality(batch[w]))
         /\ Cardinality(batch[w]) \in Nat /\ Cardinality(batch[w]) <= BatchSize
         /\ LastBatch(batch[w]) => start[w] \subseteq Copied
    /\ pc[w] = "finish" =>
         FirstRows(Visible(w), Cardinality(Copied)) /\ start[w] \subseteq Copied

FullInv == TypeOK /\ \A w \in Workers : SeesInv(w) /\ PagesInv(w)

----------------------------------------------------------------------------
(* The application.                                                        *)

\* A row behind all others extends the order; the rows copied stay the first.
LEMMA RowBehind ==
  ASSUME NEW S, NEW r, S \subseteq source, \A s \in source : Rank[s] < Rank[r],
         NEW A \in SUBSET S, Ahead(A, S \ A), r \in Rows, source \subseteq Rows
  PROVE  Ahead(A, (S \cup {r}) \ A)
  <1> SUFFICES ASSUME NEW a \in A, NEW t \in (S \cup {r}) \ A
               PROVE  Rank[a] <= Rank[t]
    BY DEF Ahead
  <1>1. Rank[a] \in Nat /\ Rank[t] \in Nat
    BY RowsAssumption
  <1>2. CASE t = r
    BY <1>1, <1>2
  <1>3. CASE t # r
    BY <1>3 DEF Ahead
  <1>4. QED
    BY <1>2, <1>3

LEMMA AppearStep ==
  ASSUME FullInv, NEW r \in Rows, Appear(r), NEW w \in Workers
  PROVE  SeesInv(w)' /\ PagesInv(w)'
  <1>0. TypeOK /\ SeesInv(w) /\ PagesInv(w)
    BY DEF FullInv
  <1>1. /\ source' = source \cup {r}
        /\ UNCHANGED <<snapshot, copies, pc, view, offset, batch, start>>
        /\ Running(w) => live'[w] = live[w] \cup {r}
    BY <1>0 DEF Appear, TypeOK
  <1>2. Visible(w)' \in {Visible(w), Visible(w) \cup {r}}
    BY <1>1 DEF Visible
  <1>3. SeesInv(w)'
    BY <1>0, <1>1, <1>2 DEF SeesInv, Running
  <1>4. ASSUME Running(w), shifted'[w] => snapshot
        PROVE  PagesInv(w)'
    <2>1. snapshot \/ \A s \in source : Rank[s] < Rank[r]
      BY <1>0, <1>4 DEF Appear, Shift, TypeOK
    <2>2. shifted[w] => snapshot
      BY <1>0, <1>4 DEF Appear, Shift, TypeOK
    <2>3. Copied' = Copied
      BY <1>1 DEF Copied
    <2>4. ASSUME NEW A \in SUBSET Visible(w), Ahead(A, Visible(w) \ A)
          PROVE  A \subseteq Visible(w)' /\ Ahead(A, Visible(w)' \ A)
      <3>1. CASE snapshot
        BY <1>1, <2>4, <3>1 DEF Visible
      <3>2. CASE ~ snapshot
        <4>1. Visible(w) = source /\ Visible(w)' = source \cup {r}
          BY <1>1, <3>2 DEF Visible
        <4>2. QED
          BY <1>0, <2>1, <2>4, <3>2, <4>1, RowBehind DEF TypeOK
      <3>3. QED
        BY <3>1, <3>2
    <2>5. ASSUME NEW n, FirstRows(Visible(w), n)
          PROVE  FirstRows(Visible(w), n)'
      BY <1>1, <2>3, <2>4, <2>5 DEF FirstRows
    <2>6. ASSUME Due(Visible(w), batch[w], w), FirstRows(Visible(w), offset[w])
          PROVE  Due(Visible(w), batch[w], w)'
      <3>1. Copied \cup batch[w] \in SUBSET Visible(w)
        BY <2>6 DEF Due, FirstRows
      <3>2. QED
        BY <1>1, <2>3, <2>4, <2>6, <3>1 DEF Due, LastBatch
    <2>7. QED
      BY <1>0, <1>1, <2>2, <2>3, <2>5, <2>6 DEF PagesInv, LastBatch
  <1>5. CASE ~Running(w)
    BY <1>3, <1>1, <1>5 DEF PagesInv, Running
  <1>6. CASE ~ (shifted'[w] => snapshot)
    BY <1>3, <1>1, <1>6 DEF PagesInv
  <1>7. QED
    BY <1>3, <1>4, <1>5, <1>6

LEMMA DisappearStep ==
  ASSUME FullInv, NEW r \in Rows, Disappear(r), NEW w \in Workers
  PROVE  SeesInv(w)' /\ PagesInv(w)'
  <1>0. TypeOK /\ SeesInv(w) /\ PagesInv(w)
    BY DEF FullInv
  <1>1. /\ source' = source \ {r} /\ start'[w] = start[w] \ {r}
        /\ shifted'[w] = (shifted[w] \/ Running(w))
        /\ UNCHANGED <<snapshot, copies, pc, view, offset, batch, live>>
    BY DEF Disappear, Shift
  <1>2. SeesInv(w)'
    BY <1>0, <1>1 DEF SeesInv, Running, Visible
  <1>3. CASE snapshot
    <2>1. Visible(w)' = Visible(w) /\ Copied' = Copied
      BY <1>1, <1>3 DEF Visible, Copied
    <2>2. QED
      BY <1>2, <1>0, <1>1, <1>3, <2>1 DEF PagesInv, FirstRows, Due, LastBatch
  <1>4. CASE ~ snapshot
    BY <1>2, <1>1, <1>4 DEF Running, PagesInv
  <1>5. QED
    BY <1>2, <1>3, <1>4

----------------------------------------------------------------------------
(* The run.                                                                *)

LEMMA ConnectStep ==
  ASSUME FullInv, NEW w \in Workers, Connect(w)
  PROVE  SeesInv(w)' /\ PagesInv(w)'
  <1>1. /\ pc'[w] = "connected" /\ live'[w] = source
        /\ snapshot => view'[w] = source
        /\ pc[w] = "idle"
        /\ UNCHANGED <<snapshot, source, offset, start>>
    BY DEF Connect, FullInv, TypeOK
  <1>2. Visible(w)' = source
    BY <1>1 DEF Visible
  <1>3. SeesInv(w)'
    BY <1>1, <1>2 DEF FullInv, SeesInv
  <1>4. PagesInv(w)'
    BY <1>1 DEF PagesInv
  <1>5. QED
    BY <1>3, <1>4

LEMMA TruncateStep ==
  ASSUME FullInv, NEW w \in Workers, Truncate(w)
  PROVE  SeesInv(w)' /\ PagesInv(w)'
  <1>1. /\ pc[w] = "connected" /\ pc'[w] = "fetch" /\ Emptied
        /\ start'[w] = Visible(w) \cap source
        /\ UNCHANGED <<snapshot, source, view, offset, live>>
    BY DEF Truncate, FullInv, TypeOK
  <1>2. Visible(w)' = Visible(w) /\ offset[w] = 0
    BY <1>1 DEF Visible, FullInv, SeesInv
  <1>3. SeesInv(w)'
    BY <1>1, <1>2 DEF Running, FullInv, SeesInv
  <1>4. Copied' = {} /\ \A r \in Rows : copies'[r] = 0
    BY <1>1 DEF Emptied, Copied
  <1>5. FirstRows(Visible(w), offset[w])'
    BY <1>1, <1>2, <1>4, FS_EmptySet DEF FirstRows, Ahead
  <1>6. QED
    BY <1>1, <1>3, <1>5 DEF PagesInv

LEMMA ReopenStep ==
  ASSUME FullInv, NEW w \in Workers, Reopen(w)
  PROVE  SeesInv(w)' /\ PagesInv(w)'
  <1>1. /\ pc[w] \in {"connected", "fetch"} /\ offset[w] = 0 /\ snapshot
        /\ view'[w] = source
        /\ UNCHANGED <<snapshot, source, copies, pc, offset, start, live>>
    BY DEF Reopen, FullInv, TypeOK
  <1>2. Visible(w)' = source
    BY <1>1 DEF Visible
  <1>3. SeesInv(w)'
    BY <1>1, <1>2 DEF Running, FullInv, SeesInv
  <1>4. CASE pc[w] = "fetch"
    <2>1. FirstRows(Visible(w), 0)
      BY <1>1, <1>4 DEF FullInv, PagesInv
    <2>2. IsFiniteSet(Copied)
      BY RowsAssumption, FS_Subset DEF Copied
    <2>3. Copied = {} /\ Copied' = Copied
      BY <1>1, <2>1, <2>2, FS_EmptySet DEF FirstRows, Copied
    <2>4. FirstRows(Visible(w), offset[w])'
      BY <1>1, <2>1, <2>3, FS_EmptySet DEF FirstRows, Ahead
    <2>5. QED
      BY <1>1, <1>3, <1>4, <2>4 DEF PagesInv
  <1>5. CASE pc[w] = "connected"
    BY <1>1, <1>3, <1>5 DEF PagesInv
  <1>6. QED
    BY <1>1, <1>4, <1>5

\* What a run fetches is the page after the rows it has copied.
LEMMA PageFetched ==
  ASSUME TotalOrder, FullInv, NEW w \in Workers, pc[w] = "fetch",
         shifted[w] => snapshot, NEW P \in Pages(Visible(w), offset[w])
  PROVE  IsNextPage(Visible(w), Copied, P)
  <1>1. FirstRows(Visible(w), offset[w])
    BY DEF FullInv, PagesInv
  <1>2. Visible(w) \in SUBSET Rows /\ Copied \in SUBSET Visible(w)
    BY <1>1, VisibleType DEF FirstRows, FullInv
  <1>3. Ahead(Copied, Visible(w) \ Copied) /\ P \in Pages(Visible(w), Cardinality(Copied))
    BY <1>1 DEF FirstRows
  <1>4. QED
    BY <1>2, <1>3, NextPage

LEMMA FetchStep ==
  ASSUME TotalOrder, FullInv, NEW w \in Workers, Fetch(w)
  PROVE  SeesInv(w)' /\ PagesInv(w)'
  <1>0. TypeOK /\ SeesInv(w) /\ PagesInv(w)
    BY DEF FullInv
  <1>1. PICK P \in Pages(Visible(w), offset[w]) :
          /\ batch' = [batch EXCEPT ![w] = P]
          /\ pc' = [pc EXCEPT ![w] = IF P = {} THEN "finish" ELSE "insert"]
    BY DEF Fetch
  <1>2. /\ batch'[w] = P /\ pc[w] = "fetch"
        /\ pc'[w] = IF P = {} THEN "finish" ELSE "insert"
        /\ UNCHANGED <<snapshot, source, copies, view, offset, start, live, shifted>>
    BY <1>0, <1>1 DEF Fetch, TypeOK
  <1>3. Visible(w)' = Visible(w) /\ Copied' = Copied
    BY <1>2 DEF Visible, Copied
  <1>4. SeesInv(w)'
    BY <1>0, <1>2, <1>3 DEF Running, SeesInv
  <1>5. ASSUME shifted[w] => snapshot
        PROVE  PagesInv(w)'
    <2>1. FirstRows(Visible(w), offset[w])
      BY <1>0, <1>2, <1>5 DEF PagesInv
    <2>3. IsNextPage(Visible(w), Copied, P)
      BY <1>2, <1>5, PageFetched
    <2>4. start[w] \subseteq Visible(w)
      BY <1>0, <1>2 DEF Running, SeesInv
    <2>5. CASE P = {}
      <3>1. LastBatch(P)
        <4>1. Cardinality(P) = 0
          BY <2>5, FS_EmptySet
        <4>2. QED
          BY <4>1, BoundsAssumption DEF LastBatch
      <3>2. start[w] \subseteq Copied
        BY <2>3, <2>4, <2>5, <3>1 DEF IsNextPage
      <3>3. QED
        BY <1>2, <1>3, <2>1, <2>5, <3>2 DEF PagesInv, FirstRows
    <2>6. CASE P # {}
      <3>1. FirstRows(Visible(w), offset[w])'
        BY <1>2, <1>3, <2>1 DEF FirstRows
      <3>2. Due(Visible(w), batch[w], w)'
        BY <1>2, <1>3, <2>3, <2>4 DEF IsNextPage, Due, LastBatch
      <3>3. QED
        BY <1>2, <2>6, <3>1, <3>2 DEF PagesInv
    <2>7. QED
      BY <2>5, <2>6
  <1>6. CASE ~ (shifted[w] => snapshot)
    BY <1>4, <1>2, <1>6 DEF PagesInv
  <1>7. QED
    BY <1>4, <1>5, <1>6

\* An insert, acknowledged or not, adds the rows of the batch, each once.
LEMMA BatchCopied ==
  ASSUME FullInv, NEW w \in Workers, pc[w] = "insert", shifted[w] => snapshot,
         CopyIn(batch[w])
  PROVE  /\ \A r \in Rows : copies[r] \in {0, 1} /\ (r \in batch[w] => copies[r] = 0)
         /\ \A r \in Rows : copies'[r] = IF r \in batch[w] THEN 1 ELSE copies[r]
         /\ Copied' = Copied \cup batch[w]
  <1>1. FirstRows(Visible(w), offset[w]) /\ Due(Visible(w), batch[w], w)
    BY DEF FullInv, PagesInv
  <1>2. batch[w] \subseteq Rows
    BY DEF FullInv, TypeOK
  <1>3. \A r \in Rows : copies[r] \in {0, 1} /\ (r \in batch[w] => copies[r] = 0)
    BY <1>1 DEF FirstRows, Due, Copied
  <1>4. \A r \in Rows : copies'[r] = IF r \in batch[w] THEN 1 ELSE copies[r]
    BY <1>3 DEF CopyIn, Smaller
  <1>5. Copied' = Copied \cup batch[w]
    BY <1>2, <1>3, <1>4 DEF Copied
  <1>6. QED
    BY <1>3, <1>4, <1>5

LEMMA InsertStep ==
  ASSUME FullInv, NEW w \in Workers, Insert(w)
  PROVE  SeesInv(w)' /\ PagesInv(w)'
  <1>0. TypeOK /\ SeesInv(w) /\ PagesInv(w)
    BY DEF FullInv
  <1>1. /\ pc[w] = "insert" /\ pc'[w] = "save" /\ CopyIn(batch[w])
        /\ UNCHANGED <<snapshot, source, view, offset, batch, start, live, shifted>>
    BY <1>0 DEF Insert, TypeOK
  <1>2. Visible(w)' = Visible(w)
    BY <1>1 DEF Visible
  <1>3. SeesInv(w)'
    BY <1>0, <1>1, <1>2 DEF Running, SeesInv
  <1>4. ASSUME shifted[w] => snapshot
        PROVE  PagesInv(w)'
    <2> DEFINE P == batch[w]
    <2>1. FirstRows(Visible(w), offset[w]) /\ Due(Visible(w), P, w)
      BY <1>0, <1>1, <1>4 DEF PagesInv
    <2>2. P \subseteq Rows
      BY <1>0 DEF TypeOK
    <2>3. /\ \A r \in Rows : copies[r] \in {0, 1} /\ (r \in P => copies[r] = 0)
          /\ \A r \in Rows : copies'[r] = IF r \in P THEN 1 ELSE copies[r]
          /\ Copied' = Copied \cup P
      BY <1>1, <1>4, BatchCopied
    <2>6. IsFiniteSet(Copied) /\ IsFiniteSet(P) /\ Copied \cap P = {}
      BY <2>1, <2>2, RowsAssumption, FS_Subset DEF Copied, Due
    <2>7. Cardinality(Copied \cup P) = offset[w] + Cardinality(P)
      BY <2>1, <2>6, SumOfSizes DEF FirstRows
    <2>8. FirstRows(Visible(w), offset[w] + Cardinality(batch[w]))'
      BY <1>1, <1>2, <2>1, <2>3, <2>7 DEF FirstRows, Due
    <2>9. QED
      BY <1>1, <2>1, <2>3, <2>8 DEF PagesInv, Due, LastBatch
  <1>5. CASE ~ (shifted[w] => snapshot)
    BY <1>3, <1>1, <1>5 DEF PagesInv
  <1>6. QED
    BY <1>3, <1>4, <1>5

LEMMA SaveStep ==
  ASSUME FullInv, NEW w \in Workers, SaveProgress(w)
  PROVE  SeesInv(w)' /\ PagesInv(w)'
  <1>0. TypeOK /\ SeesInv(w) /\ PagesInv(w)
    BY DEF FullInv
  <1>1. /\ pc[w] = "save"
        /\ pc'[w] = IF LastBatch(batch[w]) THEN "finish" ELSE "fetch"
        /\ offset'[w] = offset[w] + BatchSize
        /\ UNCHANGED <<snapshot, source, copies, view, start, live, shifted>>
    BY <1>0 DEF SaveProgress, NextOffset, TypeOK
  <1>2. Visible(w)' = Visible(w) /\ Copied' = Copied
    BY <1>1 DEF Visible, Copied
  <1>3. SeesInv(w)'
    BY <1>0, <1>1, <1>2 DEF Running, SeesInv
  <1>4. ASSUME shifted[w] => snapshot
        PROVE  PagesInv(w)'
    <2>1. /\ FirstRows(Visible(w), offset[w] + Cardinality(batch[w]))
          /\ Cardinality(batch[w]) \in Nat /\ Cardinality(batch[w]) <= BatchSize
          /\ LastBatch(batch[w]) => start[w] \subseteq Copied
      BY <1>0, <1>1, <1>4 DEF PagesInv
    <2>2. CASE LastBatch(batch[w])
      BY <1>1, <1>2, <2>1, <2>2 DEF PagesInv, FirstRows
    <2>3. CASE ~ LastBatch(batch[w])
      <3>1. Cardinality(batch[w]) = BatchSize
        BY <2>1, <2>3, BoundsAssumption DEF LastBatch
      <3>2. FirstRows(Visible(w), offset[w])'
        BY <1>1, <1>2, <2>1, <3>1 DEF FirstRows
      <3>3. QED
        BY <1>1, <2>3, <3>2 DEF PagesInv
    <2>4. QED
      BY <2>2, <2>3
  <1>5. CASE ~ (shifted[w] => snapshot)
    BY <1>3, <1>1, <1>5 DEF PagesInv
  <1>6. QED
    BY <1>3, <1>4, <1>5

\* A run that ends in whatever way has nothing to keep.
LEMMA LeaveStep ==
  ASSUME NEW w \in Workers, pc'[w] \in {"idle", "stuck"}, offset'[w] = 0, start'[w] = {}
  PROVE  SeesInv(w)' /\ PagesInv(w)'
  BY DEF SeesInv, PagesInv, Running

LEMMA RunStep ==
  ASSUME TotalOrder, FullInv, NEW w \in Workers,
         Step(w) \/ Reopen(w) \/ FaultStep(w)
  PROVE  SeesInv(w)' /\ PagesInv(w)'
  <1>1. CASE Leave(w)
    <2>1. pc'[w] = "idle" /\ offset'[w] = 0 /\ start'[w] = {}
      BY <1>1 DEF Leave, FullInv, TypeOK
    <2>2. QED
      BY <2>1, LeaveStep
  <1>2. QED
    BY <1>1, ConnectStep, TruncateStep, ReopenStep, FetchStep, InsertStep, SaveStep
      DEF Step, FaultStep, Finish, TruncateError, FetchError, InsertError, SaveError

LEMMA FullStep == OnlyRun /\ TotalOrder /\ FullInv /\ [Next]_vars => FullInv'
  <1> SUFFICES ASSUME OnlyRun, TotalOrder, FullInv, [Next]_vars,
                      NEW w \in Workers
               PROVE  SeesInv(w)' /\ PagesInv(w)'
    BY TypeStep DEF FullInv
  <1>1. CASE \E r \in Rows : Appear(r) \/ Disappear(r)
    BY <1>1, AppearStep, DisappearStep
  <1>2. CASE \E v \in Workers : Step(v) \/ Reopen(v) \/ FaultStep(v)
    BY <1>2, RunStep DEF OnlyRun
  <1>3. CASE Crash
    BY <1>3, LeaveStep DEF Crash
  <1>6. CASE PutRight
    <2>1. /\ pc[w] = "stuck" /\ pc'[w] = "idle"
          /\ UNCHANGED <<source, offset, start>>
      BY <1>6 DEF PutRight, Stuck
    <2>2. QED
      BY <2>1 DEF FullInv, SeesInv, PagesInv, Running
  <1>4. CASE UNCHANGED vars
    BY <1>4 DEF vars, FullInv, SeesInv, PagesInv, FirstRows, Due, Copied, Visible,
                LastBatch, Running
  <1>5. QED
    BY <1>1, <1>2, <1>3, <1>4, <1>6 DEF Next

LEMMA FullStart == Init => FullInv
  <1> SUFFICES ASSUME Init PROVE FullInv
    OBVIOUS
  <1>1. ASSUME NEW w \in Workers
        PROVE  SeesInv(w) /\ PagesInv(w)
    BY DEF Running, Init, SeesInv, PagesInv
  <1>2. QED
    BY <1>1, TypeInit DEF FullInv

LEMMA FullKept == OnlyRun /\ TotalOrder => (Spec => []FullInv)
  <1>1. OnlyRun /\ TotalOrder /\ FullInv /\ [Next]_vars => FullInv'
    BY FullStep
  <1> SUFFICES ASSUME OnlyRun, TotalOrder PROVE Spec => []FullInv
    OBVIOUS
  <1>2. FullInv /\ [Next]_vars => FullInv'
    BY <1>1
  <1>3. QED
    BY <1>2, FullStart, PTL DEF Spec

\* A completed run has copied every row that was there all the while.
THEOREM FullLeavesNoGap == OnlyRun /\ TotalOrder => (Spec => []NothingMissing)
  <1>1. FullInv => NothingMissing
    BY DEF FullInv, PagesInv, Copied, NothingMissing
  <1> SUFFICES ASSUME OnlyRun, TotalOrder PROVE Spec => []NothingMissing
    OBVIOUS
  <1>2. Spec => []FullInv
    BY FullKept
  <1>3. QED
    BY <1>1, <1>2, PTL

\* It has copied no row twice, and left nothing of what the target held before.
THEOREM FullLeavesNoRest == OnlyRun /\ TotalOrder => (Spec => []NothingElse)
  <1>1. FullInv => NothingElse
    <2> SUFFICES ASSUME FullInv, NEW w \in Workers, pc[w] = "finish",
                        shifted[w] => snapshot, NEW r \in Rows, copies[r] > 0
                 PROVE  copies[r] = 1 /\ r \in live[w]
      BY DEF NothingElse
    <2>1. FirstRows(Visible(w), Cardinality(Copied)) /\ Visible(w) \subseteq live[w]
      BY DEF Running, FullInv, SeesInv, PagesInv
    <2>2. copies[r] \in {0, 1} /\ r \in Copied
      BY <2>1 DEF FirstRows, Copied
    <2>3. QED
      BY <2>1, <2>2 DEF FirstRows
  <1> SUFFICES ASSUME OnlyRun, TotalOrder PROVE Spec => []NothingElse
    OBVIOUS
  <1>2. Spec => []FullInv
    BY FullKept
  <1>3. QED
    BY <1>1, <1>2, PTL

----------------------------------------------------------------------------
(* FullSync implements TableReplace.  Of what a run has copied this needs   *)
(* to know more: it is not only the beginning of the order but, once the   *)
(* last page is read, the whole view of a run that keeps one.              *)

TakenInv(w) ==
  /\ ~Running(w) => ~shifted[w]
  /\ (shifted[w] => snapshot) =>
       /\ pc[w] = "save" => batch[w] \subseteq Copied
       /\ snapshot =>
            /\ pc[w] = "insert" /\ LastBatch(batch[w]) => Copied \cup batch[w] = view[w]
            /\ pc[w] = "save" /\ LastBatch(batch[w]) => Copied = view[w]
            /\ pc[w] = "finish" => Copied = view[w]

LEMMA TakenByRun ==
  ASSUME TotalOrder, FullInv, NEW w \in Workers, TakenInv(w), Step(w) \/ Reopen(w)
  PROVE  TakenInv(w)'
  <1>0. TypeOK
    BY DEF FullInv
  <1>1. CASE Connect(w) \/ Truncate(w) \/ Reopen(w)
    <2>1. pc'[w] \in {"connected", "fetch"}
      BY <1>0, <1>1 DEF Connect, Truncate, Reopen, TypeOK
    <2>2. QED
      BY <2>1 DEF Running, TakenInv
  <1>2. CASE Fetch(w)
    <2>1. PICK P \in Pages(Visible(w), offset[w]) :
            /\ batch' = [batch EXCEPT ![w] = P]
            /\ pc' = [pc EXCEPT ![w] = IF P = {} THEN "finish" ELSE "insert"]
      BY <1>2 DEF Fetch
    <2>2. /\ batch'[w] = P /\ pc[w] = "fetch"
          /\ pc'[w] = IF P = {} THEN "finish" ELSE "insert"
          /\ UNCHANGED <<snapshot, copies, view, shifted>>
      BY <1>0, <1>2, <2>1 DEF Fetch, TypeOK
    <2>3. Copied' = Copied
      BY <2>2 DEF Copied
    <2>4. ASSUME snapshot, LastBatch(P)
          PROVE  Copied \cup P = view[w]
      BY <2>2, <2>4, PageFetched DEF IsNextPage, Visible
    <2>5. P = {} => LastBatch(P)
      BY FS_EmptySet, BoundsAssumption DEF LastBatch
    <2>6. QED
      BY <2>2, <2>3, <2>4, <2>5 DEF Running, TakenInv, LastBatch
  <1>3. CASE Insert(w)
    <2>1. /\ pc[w] = "insert" /\ pc'[w] = "save" /\ CopyIn(batch[w])
          /\ UNCHANGED <<snapshot, view, batch, shifted>>
      BY <1>0, <1>3 DEF Insert, TypeOK
    <2>2. ASSUME shifted[w] => snapshot
          PROVE  Copied' = Copied \cup batch[w]
      BY <2>1, <2>2, BatchCopied
    <2>3. QED
      BY <2>1, <2>2 DEF Running, TakenInv, LastBatch
  <1>4. CASE SaveProgress(w)
    <2>1. /\ pc[w] = "save"
          /\ pc'[w] = IF LastBatch(batch[w]) THEN "finish" ELSE "fetch"
          /\ UNCHANGED <<snapshot, copies, view, shifted>>
      BY <1>0, <1>4 DEF SaveProgress, TypeOK
    <2>2. Copied' = Copied
      BY <2>1 DEF Copied
    <2>3. QED
      BY <2>1, <2>2 DEF Running, TakenInv
  <1>5. CASE Finish(w)
    BY <1>0, <1>5 DEF Finish, Leave, Running, TakenInv, TypeOK
  <1>6. QED
    BY <1>1, <1>2, <1>3, <1>4, <1>5 DEF Step

LEMMA TakenStep ==
  ASSUME OnlyRun, TotalOrder, FullInv, NEW w \in Workers, TakenInv(w), [Next]_vars
  PROVE  TakenInv(w)'
  <1>0. TypeOK
    BY DEF FullInv
  <1>1. ASSUME NEW r \in Rows, Appear(r) \/ Disappear(r)
        PROVE  TakenInv(w)'
    <2>1. UNCHANGED <<snapshot, copies, pc, view, batch>>
      BY <1>1 DEF Appear, Disappear
    <2>2. shifted'[w] = shifted[w] \/ shifted'[w] = (shifted[w] \/ Running(w))
      BY <1>1 DEF Appear, Disappear, Shift
    <2>3. Copied' = Copied
      BY <2>1 DEF Copied
    <2>4. shifted[w] \in BOOLEAN
      BY <1>0 DEF TypeOK
    <2>5. QED
      BY <2>1, <2>2, <2>3, <2>4 DEF Running, TakenInv, LastBatch
  <1>2. ASSUME NEW v \in Workers, Step(v) \/ Reopen(v)
        PROVE  TakenInv(w)'
    BY <1>2, TakenByRun DEF OnlyRun
  <1>3. ASSUME NEW v \in Workers, FaultStep(v)
        PROVE  TakenInv(w)'
    <2>1. Leave(w)
      BY <1>3 DEF OnlyRun, FaultStep, TruncateError, FetchError, InsertError, SaveError
    <2>2. QED
      BY <1>0, <2>1 DEF Leave, Running, TakenInv, TypeOK
  <1>4. CASE Crash
    BY <1>4 DEF Crash, Running, TakenInv
  <1>7. CASE PutRight
    BY <1>7 DEF PutRight, Stuck, Running, TakenInv
  <1>5. CASE UNCHANGED vars
    BY <1>5 DEF vars, Running, TakenInv, Copied, LastBatch
  <1>6. QED
    BY <1>1, <1>2, <1>3, <1>4, <1>5, <1>7 DEF Next

\* What the refinement mapping says of the run's place in sync_table.
LEMMA MappedNow ==
  /\ pc[Worker] \in {"idle", "stuck"} => Phase = "idle" /\ Taken = {}
  /\ pc[Worker] \notin {"idle", "stuck"} /\ Torn => Phase = "torn" /\ Taken = {}
  /\ pc[Worker] \notin {"idle", "stuck"} /\ ~Torn =>
       /\ Phase = IF pc[Worker] = "finish" THEN "replaced" ELSE "running"
       /\ Taken = IF snapshot THEN view[Worker]
                  ELSE IF LastRead THEN Copied \cup batch[Worker] ELSE source
  BY DEF Phase, Taken, Running

LEMMA MappedNext ==
  /\ pc'[Worker] \in {"idle", "stuck"} => Phase' = "idle" /\ Taken' = {}
  /\ pc'[Worker] \notin {"idle", "stuck"} /\ Torn' => Phase' = "torn" /\ Taken' = {}
  /\ pc'[Worker] \notin {"idle", "stuck"} /\ ~Torn' =>
       /\ Phase' = IF pc'[Worker] = "finish" THEN "replaced" ELSE "running"
       /\ Taken' = IF snapshot' THEN view'[Worker]
                   ELSE IF LastRead' THEN Copied' \cup batch'[Worker] ELSE source'
  BY DEF Phase, Taken, Running

LEMMA AppearMaps ==
  ASSUME TypeOK, Worker \in Workers, TakenInv(Worker), NEW r \in Rows, Appear(r)
  PROVE  Replace!Next
  <1>1. /\ r \in Rows \ source /\ source' = source \cup {r}
        /\ UNCHANGED <<snapshot, copies, pc, view, batch>>
    BY DEF Appear
  <1>2. Copied' = Copied /\ LastRead' = LastRead
    BY <1>1 DEF Copied, LastRead, LastBatch
  <1>3. CASE \A s \in source : Rank[s] < Rank[r]
    <2>1. Torn' = Torn /\ shifted' = shifted
      BY <1>1, <1>3 DEF Appear, Torn
    <2>2. Phase' = Phase
      BY <1>1, <2>1, MappedNow, MappedNext
    <2>3. Taken' = Taken \/ (Phase = "running" /\ ~snapshot /\ Taken' = source')
      BY <1>1, <1>2, <2>1, MappedNow, MappedNext DEF LastRead
    <2>4. Replace!Append
      BY <1>1, <1>3, <2>2, <2>3 DEF Replace!Append
    <2>5. QED
      BY <2>4 DEF Replace!Next
  <1>4. CASE ~ \A s \in source : Rank[s] < Rank[r]
    <2>1. shifted'[Worker] = (shifted[Worker] \/ Running(Worker))
      BY <1>4 DEF Appear, Shift
    <2>2. IF snapshot \/ Phase = "idle" THEN UNCHANGED <<Taken, Phase>>
          ELSE Phase' = "torn" /\ Taken' = {}
      BY <1>1, <1>2, <2>1, MappedNow, MappedNext DEF Torn, Running
    <2>3. Replace!Alter
      BY <1>1, <2>2 DEF Replace!Alter, TypeOK
    <2>4. QED
      BY <2>3 DEF Replace!Next
  <1>5. QED
    BY <1>3, <1>4

LEMMA DisappearMaps ==
  ASSUME TypeOK, Worker \in Workers, NEW r \in Rows, Disappear(r)
  PROVE  Replace!Next
  <1>1. /\ source' = source \ {r}
        /\ shifted'[Worker] = (shifted[Worker] \/ Running(Worker))
        /\ UNCHANGED <<snapshot, copies, pc, view, batch>>
    BY DEF Disappear, Shift
  <1>2. Copied' = Copied /\ LastRead' = LastRead
    BY <1>1 DEF Copied, LastRead, LastBatch
  <1>3. IF snapshot \/ Phase = "idle" THEN UNCHANGED <<Taken, Phase>>
        ELSE Phase' = "torn" /\ Taken' = {}
    BY <1>1, <1>2, MappedNow, MappedNext DEF Torn, Running
  <1>4. Replace!Alter
    BY <1>1, <1>3 DEF Replace!Alter, TypeOK
  <1>5. QED
    BY <1>4 DEF Replace!Next

\* The steps of a run that write nothing.
LEMMA ReadMaps ==
  ASSUME TotalOrder, FullInv, Worker \in Workers, TakenInv(Worker),
         Connect(Worker) \/ Reopen(Worker) \/ Fetch(Worker) \/ SaveProgress(Worker)
  PROVE  [Replace!Next]_Replace!vars
  <1> DEFINE w == Worker
  <1>0. TypeOK
    BY DEF FullInv
  <1>1. CASE Connect(w)
    <2>1. /\ pc[w] = "idle" /\ pc'[w] = "connected"
          /\ UNCHANGED <<snapshot, source, copies, shifted>>
          /\ snapshot => view'[w] = source
      BY <1>0, <1>1 DEF Connect, TypeOK
    <2>2. ~Torn' /\ ~LastRead'
      BY <2>1 DEF Running, Torn, LastRead, TakenInv
    <2>3. Phase = "idle" /\ Phase' = "running" /\ Taken' = source
      BY <2>1, <2>2, MappedNow, MappedNext
    <2>4. Replace!Begin
      BY <2>1, <2>3 DEF Replace!Begin
    <2>5. QED
      BY <2>4 DEF Replace!Next
  <1>2. CASE Reopen(w)
    <2>1. /\ snapshot /\ pc[w] \in {"connected", "fetch"} /\ view'[w] = source
          /\ UNCHANGED <<snapshot, source, copies, pc>>
      BY <1>0, <1>2 DEF Reopen, TypeOK
    <2>2. ~Torn /\ ~Torn'
      BY <2>1 DEF Torn
    <2>3. Phase = "running" /\ Phase' = "running" /\ Taken' = source
      BY <2>1, <2>2, MappedNow, MappedNext
    <2>4. Replace!Look
      BY <2>1, <2>3 DEF Replace!Look
    <2>5. QED
      BY <2>4 DEF Replace!Next
  <1>3. CASE Fetch(w)
    <2>1. PICK P \in Pages(Visible(w), offset[w]) :
            /\ batch' = [batch EXCEPT ![w] = P]
            /\ pc' = [pc EXCEPT ![w] = IF P = {} THEN "finish" ELSE "insert"]
      BY <1>3 DEF Fetch
    <2>2. /\ batch'[w] = P /\ pc[w] = "fetch"
          /\ pc'[w] = IF P = {} THEN "finish" ELSE "insert"
          /\ UNCHANGED <<snapshot, source, copies, view, shifted>>
      BY <1>0, <1>3, <2>1 DEF Fetch, TypeOK
    <2>3. Copied' = Copied /\ Torn' = Torn /\ ~LastRead
      BY <2>2 DEF Copied, Torn, LastRead
    <2>4. CASE Torn
      BY <2>2, <2>3, <2>4, MappedNow, MappedNext DEF Replace!vars
    <2>5. CASE ~Torn
      <3>1. IsNextPage(Visible(w), Copied, P)
        BY <2>2, <2>5, PageFetched DEF Torn
      <3>2. LastBatch(P) => Copied \cup P = Visible(w)
        BY <3>1 DEF IsNextPage
      <3>3. P = {} => LastBatch(P)
        BY FS_EmptySet, BoundsAssumption DEF LastBatch
      <3>4. LastRead' <=> LastBatch(P)
        <4>1. LastBatch(batch[w])' <=> LastBatch(P)
          BY <2>2 DEF LastBatch
        <4>2. LastRead' <=> (P = {} \/ LastBatch(P))
          BY <2>2, <4>1 DEF LastRead
        <4>3. QED
          BY <3>3, <4>2
      <3>5. Phase = "running" /\ Taken = Visible(w) /\ Taken' = Taken
        <4>1. Phase = "running" /\ Taken = Visible(w)
          BY <2>2, <2>3, <2>5, MappedNow DEF Visible
        <4>2. Taken' = IF snapshot THEN view[w]
                       ELSE IF LastBatch(P) THEN Copied \cup P ELSE source
          BY <2>2, <2>3, <2>5, <3>4, MappedNext
        <4>3. QED
          BY <3>2, <4>1, <4>2 DEF Visible
      <3>6. CASE P = {}
        <4>1. Copied = Taken /\ Phase' = "replaced"
          BY <2>2, <2>3, <2>5, <3>2, <3>3, <3>5, <3>6, MappedNext
        <4>2. \A r \in Rows : copies[r] \in {0, 1}
          BY <2>2, <2>5 DEF FullInv, PagesInv, FirstRows, Torn
        <4>3. copies = Replace!CopyOf(Taken)
          BY <1>0, <4>1, <4>2 DEF Replace!CopyOf, Copied, TypeOK
        <4>4. Replace!Complete
          BY <2>2, <3>5, <4>1, <4>3 DEF Replace!Complete
        <4>5. QED
          BY <4>4 DEF Replace!Next
      <3>7. CASE P # {}
        BY <2>2, <2>3, <2>5, <3>5, <3>7, MappedNext DEF Replace!vars
      <3>8. QED
        BY <3>6, <3>7
    <2>6. QED
      BY <2>4, <2>5
  <1>4. CASE SaveProgress(w)
    <2>1. /\ pc[w] = "save" /\ batch'[w] = {}
          /\ pc'[w] = IF LastBatch(batch[w]) THEN "finish" ELSE "fetch"
          /\ UNCHANGED <<snapshot, source, copies, view, shifted>>
      BY <1>0, <1>4 DEF SaveProgress, TypeOK
    <2>2. Copied' = Copied /\ Torn' = Torn /\ LastRead' = LastRead
      BY <2>1 DEF Copied, Torn, LastRead
    <2>3. CASE Torn
      BY <2>1, <2>2, <2>3, MappedNow, MappedNext DEF Replace!vars
    <2>4. CASE ~Torn
      <3>1. batch[w] \subseteq Copied
        BY <2>1, <2>4 DEF Running, TakenInv, Torn
      <3>2. Phase = "running" /\ Taken' = Taken
        <4>1. Copied' \cup batch'[w] = Copied \cup batch[w]
          BY <2>1, <2>2, <3>1
        <4>2. /\ Phase = "running"
              /\ Taken = IF snapshot THEN view[w]
                         ELSE IF LastRead THEN Copied \cup batch[w] ELSE source
          BY <2>1, <2>4, MappedNow
        <4>3. Taken' = IF snapshot THEN view[w]
                       ELSE IF LastRead THEN Copied \cup batch[w] ELSE source
          BY <2>1, <2>2, <2>4, <4>1, MappedNext
        <4>4. QED
          BY <4>2, <4>3
      <3>3. CASE LastBatch(batch[w])
        <4>1. Copied = Taken /\ Phase' = "replaced"
          BY <2>1, <2>2, <2>4, <3>1, <3>3, MappedNow, MappedNext
            DEF Running, TakenInv, Torn, LastRead
        <4>2. \A r \in Rows : copies[r] \in {0, 1}
          BY <2>1, <2>4 DEF FullInv, PagesInv, FirstRows, Torn
        <4>3. copies = Replace!CopyOf(Taken)
          BY <1>0, <4>1, <4>2 DEF Replace!CopyOf, Copied, TypeOK
        <4>4. Replace!Complete
          BY <2>1, <3>2, <4>1, <4>3 DEF Replace!Complete
        <4>5. QED
          BY <4>4 DEF Replace!Next
      <3>4. CASE ~LastBatch(batch[w])
        BY <2>1, <2>2, <2>4, <3>2, <3>4, MappedNext DEF Replace!vars
      <3>5. QED
        BY <3>3, <3>4
    <2>5. QED
      BY <2>3, <2>4
  <1>5. QED
    BY <1>1, <1>2, <1>3, <1>4

\* A run that is under way writes nothing but what it has to.
LEMMA WriteMaps ==
  ASSUME FullInv, Worker \in Workers, TakenInv(Worker), copies' \in [Rows -> 0..2],
         \/ pc[Worker] = "connected" /\ Emptied
         \/ pc[Worker] = "insert" /\ CopyIn(batch[Worker])
         \/ UNCHANGED copies
  PROVE  Replace!Written
  <1> DEFINE w == Worker
  <1>0. TypeOK
    BY DEF FullInv
  <1>1. CASE Emptied
    BY <1>1 DEF Emptied, Replace!Written, Replace!Empty
  <1>2. CASE UNCHANGED copies
    BY <1>2 DEF Replace!Written
  <1>3. CASE pc[w] = "insert" /\ CopyIn(batch[w])
    <2>1. CASE Torn
      <3>1. Phase = "torn"
        BY <1>3, <2>1, MappedNow
      <3>2. \A r \in Rows : copies'[r] >= copies[r]
        BY <1>0, <1>3 DEF CopyIn, Smaller, TypeOK
      <3>3. QED
        BY <3>1, <3>2 DEF Replace!Written
    <2>2. CASE ~Torn
      <3>1. /\ \A r \in Rows : r \in batch[w] => copies[r] = 0
            /\ \A r \in Rows : copies'[r] = IF r \in batch[w] THEN 1 ELSE copies[r]
        BY <1>3, <2>2, BatchCopied DEF Torn
      <3>2. batch[w] \subseteq Visible(w)
        BY <1>3, <2>2 DEF FullInv, PagesInv, Due, Torn
      <3>3. Phase = "running" /\ batch[w] \subseteq Taken
        BY <1>3, <2>2, <3>2, MappedNow DEF Visible
      <3>4. QED
        BY <3>1, <3>3 DEF Replace!Written
    <2>3. QED
      BY <2>1, <2>2
  <1>4. QED
    BY <1>1, <1>2, <1>3

LEMMA WriteStepMaps ==
  ASSUME FullInv, FullInv', Worker \in Workers, TakenInv(Worker),
         Truncate(Worker) \/ Insert(Worker)
  PROVE  Replace!Next
  <1> DEFINE w == Worker
  <1>0. TypeOK /\ copies' \in [Rows -> 0..2]
    BY DEF FullInv, TypeOK
  <1>1. /\ UNCHANGED <<snapshot, source, view, batch, shifted>>
        /\ \/ pc[w] = "connected" /\ pc'[w] = "fetch" /\ Emptied
           \/ pc[w] = "insert" /\ pc'[w] = "save" /\ CopyIn(batch[w])
    BY <1>0 DEF Truncate, Insert, TypeOK
  <1>2. Replace!Written
    BY <1>0, <1>1, WriteMaps
  <1>3. Torn' = Torn /\ LastRead' = LastRead
    BY <1>1 DEF Torn, LastRead, LastBatch
  <1>4. Phase' = Phase /\ Phase \in {"running", "torn"}
    BY <1>1, <1>3, MappedNow, MappedNext
  <1>5. Taken' = Taken
    <2>1. CASE pc[w] = "connected" \/ Torn
      BY <1>1, <1>3, <2>1, MappedNow, MappedNext DEF LastRead
    <2>2. CASE pc[w] = "insert" /\ ~Torn
      <3>1. CopyIn(batch[w])
        BY <1>1, <2>2
      <3>2. Copied' = Copied \cup batch[w]
        BY <2>2, <3>1, BatchCopied DEF Torn
      <3>3. QED
        BY <1>1, <1>3, <2>2, <3>2, MappedNow, MappedNext
    <2>3. QED
      BY <1>1, <2>1, <2>2
  <1>6. Replace!Write
    BY <1>1, <1>2, <1>4, <1>5 DEF Replace!Write
  <1>7. QED
    BY <1>6 DEF Replace!Next

LEMMA EndMaps ==
  ASSUME FullInv, FullInv', Worker \in Workers, TakenInv(Worker),
         Finish(Worker) \/ FaultStep(Worker) \/ (Crash /\ Running(Worker))
  PROVE  Replace!Next
  <1> DEFINE w == Worker
  <1>0. TypeOK /\ copies' \in [Rows -> 0..2]
    BY DEF FullInv, TypeOK
  <1>1. /\ Running(w) /\ ~Running(w)' /\ UNCHANGED <<snapshot, source>>
        /\ \/ pc[w] = "connected" /\ Emptied
           \/ pc[w] = "insert" /\ CopyIn(batch[w])
           \/ UNCHANGED copies
    BY <1>0 DEF Finish, FaultStep, TruncateError, FetchError, InsertError, SaveError,
      Crash, Leave, Running, TypeOK
  <1>2. Phase # "idle" /\ Phase' = "idle" /\ Taken' = {}
    BY <1>1, MappedNow, MappedNext DEF Running
  <1>3. Replace!Written
    BY <1>0, <1>1, WriteMaps
  <1>4. copies' = copies \/ Phase # "replaced"
    BY <1>1, MappedNow DEF Running
  <1>5. Replace!End
    BY <1>1, <1>2, <1>3, <1>4 DEF Replace!End
  <1>6. QED
    BY <1>5 DEF Replace!Next

LEMMA StepMaps ==
  ASSUME OnlyRun, Workers # {}, TotalOrder, FullInv, FullInv', TakenInv(Worker),
         [Next]_vars
  PROVE  [Replace!Next]_Replace!vars
  <1>1. Worker \in Workers /\ \A v \in Workers : v = Worker
    BY DEF Worker, OnlyRun
  <1>2. TypeOK
    BY DEF FullInv
  <1>3. CASE \E r \in Rows : Appear(r) \/ Disappear(r)
    BY <1>1, <1>2, <1>3, AppearMaps, DisappearMaps
  <1>4. ASSUME NEW v \in Workers, Step(v) \/ Reopen(v) \/ FaultStep(v)
        PROVE  [Replace!Next]_Replace!vars
    <2>1. v = Worker
      BY <1>1
    <2>2. QED
      BY <1>1, <1>4, <2>1, ReadMaps, WriteStepMaps, EndMaps DEF Step
  <1>5. CASE Crash /\ Running(Worker)
    BY <1>1, <1>5, EndMaps
  <1>8. CASE (Crash /\ ~Running(Worker)) \/ PutRight
    <2>1. /\ ~Running(Worker) /\ ~Running(Worker)'
          /\ UNCHANGED <<snapshot, source, copies>>
      BY <1>1, <1>8 DEF Crash, PutRight, Stuck, Running
    <2>2. QED
      BY <2>1, MappedNow, MappedNext DEF Running, Replace!vars
  <1>6. CASE UNCHANGED vars
    BY <1>6 DEF Running, vars, Replace!vars, Phase, Taken, Torn, LastRead, LastBatch, Copied
  <1>7. QED
    BY <1>3, <1>4, <1>5, <1>6, <1>8 DEF Next

\* One worker over a total order: a completed run has made the target a copy of
\* the source as it was at one moment of the run, and no run writes anything
\* else, whatever is added behind the other rows, and to MySQL anywhere.
THEOREM FullRefines ==
  OnlyRun /\ Workers # {} /\ TotalOrder => (Spec => Implements)
  <1> SUFFICES ASSUME OnlyRun, Workers # {}, TotalOrder
               PROVE  Spec => Implements
    OBVIOUS
  <1>0. Worker \in Workers
    BY DEF Worker
  <1>1. Init => Replace!Init
    BY <1>0 DEF Running, Init, Replace!Init, Phase, Taken
  <1>2. Init => TakenInv(Worker)
    BY <1>0 DEF Init, Running, TakenInv
  <1>3. FullInv /\ TakenInv(Worker) /\ [Next]_vars => TakenInv(Worker)'
    BY <1>0, TakenStep
  <1>4. FullInv /\ FullInv' /\ TakenInv(Worker) /\ [Next]_vars
          => [Replace!Next]_Replace!vars
    BY StepMaps
  <1>5. Spec => []FullInv
    BY FullKept
  <1>6. QED
    BY <1>1, <1>2, <1>3, <1>4, <1>5, PTL DEF Spec, Implements, Replace!Spec

=============================================================================
