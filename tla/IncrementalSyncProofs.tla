----------------------- MODULE IncrementalSyncProofs -----------------------
(***************************************************************************)
(* Proofs about IncrementalSync, for every number of rows, values, runs,   *)
(* faults and every batch size.  Type correctness needs no hypothesis; the *)
(* safety properties hold in the regime that IncrementalSync names Regime, *)
(* by the inductive invariant IInv.                                        *)
(***************************************************************************)
EXTENDS IncrementalSync, FiniteSetTheorems, TLAPS

LEMMA VersionsFinite == IsFiniteSet(Versions)
  <1>1. IsFiniteSet(Values)
    BY FS_Interval, BoundsAssumption DEF Values
  <1>2. QED
    BY <1>1, FS_Product, RowsAssumption DEF Versions

LEMMA VersionParts ==
  ASSUME NEW x \in Versions
  PROVE  Pk(x) \in Nat /\ Val(x) \in Values /\ Val(x) \in Nat
                        /\ x = <<Pk(x), Val(x)>>
  <1>1. x[1] \in Rows /\ x[2] \in Values /\ x = <<x[1], x[2]>>
    BY DEF Versions
  <1>2. QED
    BY <1>1, RowsAssumption, BoundsAssumption DEF Values, Pk, Val

\* An answer never leaves the set of row versions it selects from.
LEMMA SelectedSubset ==
  ASSUME NEW S, NEW c
  PROVE  Selected(S, c) \subseteq S
  BY DEF Selected

LEMMA CopyInType ==
  ASSUME copies \in [Versions -> 0..2], NEW P, CopyIn(P)
  PROVE  copies' \in [Versions -> 0..2]
  BY DEF CopyIn, Smaller

LEMMA AbandonType ==
  ASSUME TypeOK, NEW w \in Workers, Abandon(w)
  PROVE  /\ pc' \in [Workers -> States]
         /\ cp' \in [Workers -> Values]
         /\ view' \in [Workers -> SUBSET Versions]
         /\ offset' \in [Workers -> Nat]
         /\ batch' \in [Workers -> SUBSET Versions]
         /\ top' \in [Workers -> Values]
         /\ attempt' \in [Workers -> 0..(MaxAttempts - 1)]
         /\ due' \in [Workers -> SUBSET Versions]
         /\ seen' \in [Workers -> SUBSET Versions]
  <1> Null \in Values /\ 0 \in 0..(MaxAttempts - 1)
    BY BoundsAssumption DEF Null, Values, MaxAttempts
  <1> QED
    BY DEF Abandon, TypeOK, States

LEMMA RetryType ==
  ASSUME TypeOK, NEW w \in Workers, Retry(w)
  PROVE  /\ pc' \in [Workers -> States]
         /\ cp' \in [Workers -> Values]
         /\ view' \in [Workers -> SUBSET Versions]
         /\ offset' \in [Workers -> Nat]
         /\ batch' \in [Workers -> SUBSET Versions]
         /\ top' \in [Workers -> Values]
         /\ attempt' \in [Workers -> 0..(MaxAttempts - 1)]
         /\ due' \in [Workers -> SUBSET Versions]
         /\ seen' \in [Workers -> SUBSET Versions]
  <1>1. CASE Abandon(w)
    BY <1>1, AbandonType
  <1>2. CASE attempt[w] + 1 < MaxAttempts /\ ~Abandon(w)
    BY <1>2 DEF Retry, TypeOK, MaxAttempts
  <1>3. QED
    BY <1>1, <1>2 DEF Retry

LEMMA FaultType ==
  ASSUME TypeOK, Fault
  PROVE  faults' \in 0..MaxFaults
  BY BoundsAssumption DEF TypeOK, Fault

\* Every variable keeps its type, whatever the application, the runs and the
\* faults do.
LEMMA TypeStep == TypeOK /\ [Next]_vars => TypeOK'
  <1> SUFFICES ASSUME TypeOK, [Next]_vars
               PROVE  TypeOK'
    OBVIOUS
  <1>1. CASE SourceStep
    <2>1. ASSUME NEW r \in Rows, NEW v \in Values, SourceInsert(r, v)
          PROVE  TypeOK'
      BY <2>1 DEF TypeOK, SourceInsert, AddVersion, runVars, Versions
    <2>2. ASSUME NEW r \in Rows, NEW v \in Values, SourceUpdate(r, v)
          PROVE  TypeOK'
      BY <2>2 DEF TypeOK, SourceUpdate, AddVersion, runVars, Versions
    <2>3. ASSUME NEW r \in Rows, SourceDelete(r)
          PROVE  TypeOK'
      BY <2>3 DEF TypeOK, SourceDelete, runVars
    <2>4. QED
      BY <1>1, <2>1, <2>2, <2>3 DEF SourceStep
  <1>2. ASSUME NEW w \in Workers, Step(w)
        PROVE  TypeOK'
    <2>0. CASE Connect(w)
      BY <2>0 DEF Connect, TypeOK, States
    <2>1. CASE Begin(w)
      <3>1. Selected(Visible(w), checkpoint) \subseteq Versions
        BY SelectedSubset DEF TypeOK, Visible
      <3>2. QED
        BY <2>1, <3>1 DEF TypeOK, Begin, States
    <2>2. CASE Fetch(w)
      <3>1. PICK P \in Pages(Selected(Visible(w), cp[w]), offset[w]) :
              /\ batch' = [batch EXCEPT ![w] = P]
              /\ \E v \in Values : top' = [top EXCEPT ![w] = v]
              /\ pc' = [pc EXCEPT ![w] = IF P = {} THEN "checkpoint"
                                         ELSE "insert"]
        BY <2>2 DEF Fetch
      <3>2. P \subseteq Versions
        BY SelectedSubset DEF Pages, Visible, TypeOK
      <3>3. pc' \in [Workers -> States]
        BY <3>1 DEF TypeOK, States
      <3>4. QED
        BY <2>2, <3>1, <3>2, <3>3 DEF Fetch, TypeOK, MaxAttempts
    <2>3. CASE Insert(w)
      BY <2>3, CopyInType DEF Insert, TypeOK, States, MaxAttempts
    <2>4. CASE InsertRejected(w)
      BY <2>4, AbandonType DEF InsertRejected, TypeOK
    <2>5. CASE SaveProgress(w)
      BY <2>5, BoundsAssumption DEF SaveProgress, NextOffset, TypeOK, States
    <2>6. CASE WriteCheckpoint(w)
      BY <2>6 DEF WriteCheckpoint, TypeOK, States
    <2>7. CASE Finish(w)
      BY <2>7, AbandonType DEF Finish, TypeOK
    <2>8. QED
      BY <1>2, <2>0, <2>1, <2>2, <2>3, <2>4, <2>5, <2>6, <2>7 DEF Step
  <1>8. ASSUME NEW w \in Workers, Reopen(w)
        PROVE  TypeOK'
    BY <1>8 DEF Reopen, TypeOK
  <1>3. ASSUME NEW w \in Workers, FaultStep(w)
        PROVE  TypeOK'
    <2>0. CASE BeginError(w)
      BY <2>0, AbandonType, FaultType DEF BeginError, TypeOK
    <2>1. CASE FetchError(w)
      BY <2>1, RetryType, FaultType DEF FetchError, TypeOK
    <2>2. CASE InsertError(w)
      BY <2>2, RetryType, FaultType DEF InsertError, TypeOK
    <2>3. CASE InsertLost(w)
      BY <2>3, AbandonType, FaultType, CopyInType DEF InsertLost, TypeOK
    <2>4. CASE SaveError(w)
      BY <2>4, AbandonType, FaultType DEF SaveError, TypeOK
    <2>5. CASE CheckpointError(w)
      BY <2>5, FaultType DEF CheckpointError, TypeOK, States
    <2>6. QED
      BY <1>3, <2>0, <2>1, <2>2, <2>3, <2>4, <2>5 DEF FaultStep
  <1>4. CASE ResetCheckpoint
    BY <1>4, BoundsAssumption
      DEF ResetCheckpoint, TypeOK, runVars, Null, Values
  <1>5. CASE Crash
    BY <1>5, FaultType, BoundsAssumption
      DEF Crash, TypeOK, States, Null, Values, MaxAttempts
  <1>9. CASE PutRight
    BY <1>9 DEF PutRight, TypeOK, States
  <1>6. CASE UNCHANGED vars
    BY <1>6 DEF vars, TypeOK
  <1>7. QED
    BY <1>1, <1>2, <1>3, <1>4, <1>5, <1>6, <1>8, <1>9 DEF Next

LEMMA TypeInit == Init => TypeOK
  <1> SUFFICES ASSUME Init
               PROVE  TypeOK
    OBVIOUS
  <1>1. source \subseteq Versions
    <2>1. PICK D \in SUBSET Rows :
            \E f \in [D -> IF NullRows THEN Values ELSE Values \ {Null}] :
              source = {<<r, f[r]>> : r \in D}
      BY SMTT(30) DEF Init, Tables
    <2>2. PICK f \in [D -> IF NullRows THEN Values ELSE Values \ {Null}] :
            source = {<<r, f[r]>> : r \in D}
      BY <2>1
    <2>3. \A r \in D : f[r] \in Values
      BY <2>2
    <2>4. QED
      BY <2>1, <2>2, <2>3 DEF Versions
  <1>2. QED
    BY <1>1, BoundsAssumption
      DEF Init, TypeOK, States, Null, Values, MaxAttempts

\* Type correctness of the whole component.
THEOREM TypeCorrect == Spec => []TypeOK
  BY TypeInit, TypeStep, PTL DEF Spec
----------------------------------------------------------------------------
(* What paging by LIMIT and OFFSET returns when the order is total.        *)

\* With a primary key ORDER BY tells any two rows apart, those with NULL too.
LEMMA TotalOrder ==
  ASSUME HasPrimaryKey,
         NEW x \in Versions, NEW y \in Versions, x # y
  PROVE  /\ Before(x, y) \/ Before(y, x)
         /\ ~(Before(x, y) /\ Before(y, x))
  <1>1. Pk(x) # Pk(y) \/ Val(x) # Val(y)
    BY VersionParts
  <1>2. /\ Pk(x) \in Nat /\ Val(x) \in Nat
        /\ Pk(y) \in Nat /\ Val(y) \in Nat
    BY VersionParts
  <1>3. QED
    BY <1>1, <1>2 DEF Before

LEMMA BeforeTransitive ==
  ASSUME NEW x \in Versions, NEW y \in Versions, NEW z \in Versions,
         Before(x, y), Before(y, z)
  PROVE  Before(x, z)
  <1>1. /\ Pk(x) \in Nat /\ Val(x) \in Nat
        /\ Pk(y) \in Nat /\ Val(y) \in Nat
        /\ Pk(z) \in Nat /\ Val(z) \in Nat
    BY VersionParts
  <1>2. QED
    BY <1>1 DEF Before

LEMMA DisjointUnion ==
  ASSUME NEW A, IsFiniteSet(A), NEW B, IsFiniteSet(B), A \cap B = {}
  PROVE  /\ Cardinality(A \cup B) = Cardinality(A) + Cardinality(B)
         /\ Cardinality(A) \in Nat /\ Cardinality(B) \in Nat
  <1>1. Cardinality(A \cap B) = 0
    BY FS_EmptySet
  <1>2. Cardinality(A) \in Nat /\ Cardinality(B) \in Nat
    BY FS_CardinalityType
  <1>3. Cardinality(A \cup B) = Cardinality(A) + Cardinality(B)
                                 - Cardinality(A \cap B)
    BY FS_Union
  <1>4. QED
    BY <1>1, <1>2, <1>3

\* Of two sets of rows that both come first in S, one holds the other.
LEMMA FirstRowsNest ==
  ASSUME HasPrimaryKey, NEW S, S \subseteq Versions,
         NEW A \in SUBSET S, NEW B \in SUBSET S,
         Ahead(A, S \ A), Ahead(B, S \ B),
         Cardinality(A) <= Cardinality(B)
  PROVE  A \subseteq B
  <1>1. IsFiniteSet(S) /\ IsFiniteSet(A) /\ IsFiniteSet(B)
    BY VersionsFinite, FS_Subset
  <1>2. A \subseteq B \/ B \subseteq A
    <2> SUFFICES ASSUME NEW a \in A, a \notin B, NEW b \in B, b \notin A
                 PROVE  FALSE
      OBVIOUS
    <2>1. ~Before(b, a) /\ ~Before(a, b)
      BY DEF Ahead
    <2>2. a # b
      OBVIOUS
    <2>3. QED
      BY <2>1, <2>2, TotalOrder
  <1>3. CASE B \subseteq A
    <2>1. /\ Cardinality(A) \in Nat /\ Cardinality(B) \in Nat
          /\ Cardinality(B) <= Cardinality(A)
      BY <1>1, <1>3, FS_CardinalityType, FS_Subset
    <2>2. Cardinality(A) = Cardinality(B)
      BY <2>1
    <2>3. A = B
      BY <1>1, <1>3, <2>2, FS_Subset
    <2>4. QED
      BY <2>3
  <1>4. QED
    BY <1>2, <1>3

\* P is a page of S at an offset n among the first rows D: it reaches n rows
\* and its own, leaves no gap after D, and is short only when nothing is left.
IsNextPage(S, D, n, P) ==
  /\ P \subseteq S
  /\ Cardinality(P) \in Nat /\ Cardinality(P) <= BatchSize
  /\ Ahead(D \cup P, S \ (D \cup P))
  /\ n + Cardinality(P) <= Cardinality(D \cup P)
  /\ n = Cardinality(D) =>
       P \cap D = {} /\ Cardinality(D \cup P) = n + Cardinality(P)
  /\ LastBatch(P) => D \cup P = S

\* What the database answers.
LEMMA NextPage ==
  ASSUME HasPrimaryKey,
         NEW S, S \subseteq Versions,
         NEW D \in SUBSET S, Ahead(D, S \ D),
         NEW n \in Nat, n <= Cardinality(D),
         NEW P \in Pages(S, n)
  PROVE  IsNextPage(S, D, n, P)
  <1>1. PICK K \in SUBSET (S \ P) :
          /\ Cardinality(K) = Smaller(n, Cardinality(S))
          /\ Cardinality(P) = Smaller(BatchSize,
                                     Cardinality(S) - Cardinality(K))
          /\ Ahead(K, S \ K)
          /\ Ahead(P, S \ (K \cup P))
    BY DEF Pages
  <1>2. /\ IsFiniteSet(S) /\ IsFiniteSet(D) /\ IsFiniteSet(P)
        /\ IsFiniteSet(K) /\ P \in SUBSET S /\ K \in SUBSET S
    BY VersionsFinite, FS_Subset DEF Pages
  <1>3. /\ Cardinality(S) \in Nat /\ Cardinality(D) \in Nat
        /\ Cardinality(P) \in Nat /\ Cardinality(K) \in Nat
        /\ Cardinality(D) <= Cardinality(S)
    BY <1>2, FS_CardinalityType, FS_Subset
  <1>4. Cardinality(K) = n
    BY <1>1, <1>3 DEF Smaller
  <1>5. K \subseteq D
    BY <1>1, <1>2, <1>4, FirstRowsNest
  <1>6. Cardinality(P) <= BatchSize
    BY <1>1, <1>3, BoundsAssumption DEF Smaller
  <1>7. Ahead(D \cup P, S \ (D \cup P))
    BY <1>1, <1>5 DEF Ahead
  <1>8. Cardinality(K \cup P) = n + Cardinality(P)
    <2>1. K \cap P = {}
      OBVIOUS
    <2>2. QED
      BY <1>2, <1>4, <2>1, DisjointUnion
  <1>9. n + Cardinality(P) <= Cardinality(D \cup P)
    <2>1. IsFiniteSet(D \cup P) /\ K \cup P \subseteq D \cup P
      BY <1>2, <1>5, FS_Union
    <2>2. Cardinality(K \cup P) <= Cardinality(D \cup P)
      BY <2>1, FS_Subset
    <2>3. QED
      BY <1>8, <2>2
  <1>10. ASSUME n = Cardinality(D)
         PROVE  P \cap D = {} /\ Cardinality(D \cup P) = n + Cardinality(P)
    <2>1. K = D
      BY <1>2, <1>4, <1>5, <1>10, FS_Subset
    <2>2. QED
      BY <1>8, <2>1
  <1>11. ASSUME LastBatch(P)
         PROVE  D \cup P = S
    <2>1. Cardinality(P) = Cardinality(S) - n
      BY <1>1, <1>3, <1>4, <1>11, BoundsAssumption DEF Smaller, LastBatch
    <2>2. Cardinality(K \cup P) = Cardinality(S)
      BY <1>3, <1>8, <2>1
    <2>3. K \cup P = S
      BY <1>2, <2>2, FS_Subset
    <2>4. QED
      BY <1>5, <2>3
  <1>12. QED
    BY <1>2, <1>3, <1>6, <1>7, <1>9, <1>10, <1>11 DEF IsNextPage

\* A page takes a run further through the answer.
LEMMA ThroughPage ==
  ASSUME HasPrimaryKey,
         NEW A, A \subseteq Versions, NEW S \in SUBSET A, NEW n \in Nat, NEW d,
         Through(A, S, n, d), NEW P \in Pages(A, n)
  PROVE  /\ P \subseteq A /\ Cardinality(P) <= BatchSize
         /\ NoNulls(A) => P \cap S = {}
         /\ Through(A, S \cup P, n + Cardinality(P), d)
         /\ LastBatch(P) =>
              \A x \in A \ (S \cup P) : Val(x) = Null /\ x \notin d
  <1>1. PICK D \in SUBSET A :
          /\ S \subseteq D
          /\ Ahead(D, A \ D)
          /\ n <= Cardinality(D)
          /\ \A x \in D \ S : Val(x) = Null /\ x \notin d
          /\ NoNulls(A) => Cardinality(D) = n
    BY DEF Through
  <1>2. IsNextPage(A, D, n, P)
    BY <1>1, NextPage
  <1>3. /\ P \subseteq A
        /\ Ahead(D \cup P, A \ (D \cup P))
        /\ n + Cardinality(P) <= Cardinality(D \cup P)
        /\ NoNulls(A) => /\ P \cap D = {}
                         /\ Cardinality(D \cup P) = n + Cardinality(P)
        /\ LastBatch(P) => D \cup P = A
    BY <1>1, <1>2 DEF IsNextPage
  <1>4. D \cup P \in SUBSET A /\ S \cup P \subseteq D \cup P
    BY <1>1, <1>3
  <1>5. \A x \in (D \cup P) \ (S \cup P) : Val(x) = Null /\ x \notin d
    BY <1>1
  <1>6. Through(A, S \cup P, n + Cardinality(P), d)
    BY <1>3, <1>4, <1>5 DEF Through
  <1>7. NoNulls(A) => P \cap S = {}
    BY <1>1, <1>3
  <1>8. LastBatch(P) => \A x \in A \ (S \cup P) : Val(x) = Null /\ x \notin d
    BY <1>3, <1>5
  <1>9. QED
    BY <1>2, <1>6, <1>7, <1>8 DEF IsNextPage

\* A row that is added to an answer sets a run back at most by that row: behind
\* all others it is not yet gone through, and a NULL is not due.
LEMMA ThroughRowAdded ==
  ASSUME HasPrimaryKey,
         NEW A, A \subseteq Versions, NEW S, NEW n \in Nat, NEW d,
         Through(A, S, n, d),
         NEW x \in Versions, x \notin A, x \notin d,
         Val(x) # Null => \A y \in A : ~Before(x, y)
  PROVE  Through(A \cup {x}, S, n, d)
  <1> DEFINE B == A \cup {x}
  <1>1. PICK D \in SUBSET A :
          /\ S \subseteq D
          /\ Ahead(D, A \ D)
          /\ n <= Cardinality(D)
          /\ \A z \in D \ S : Val(z) = Null /\ z \notin d
          /\ NoNulls(A) => Cardinality(D) = n
    BY DEF Through
  <1>2. NoNulls(B) => NoNulls(A) /\ Val(x) # Null
    BY DEF NoNulls
  <1>3. CASE \A y \in D : ~Before(x, y)
    <2>1. Ahead(D, B \ D)
      BY <1>1, <1>3 DEF Ahead
    <2>2. QED
      BY <1>1, <1>2, <2>1 DEF Through
  <1>4. ASSUME NEW y \in D, Before(x, y)
        PROVE  Through(B, S, n, d)
    <2>1. Val(x) = Null
      BY <1>4
    <2>2. Ahead(D \cup {x}, B \ (D \cup {x}))
      <3> SUFFICES ASSUME NEW z \in A \ D PROVE ~Before(z, x)
        BY <1>1 DEF Ahead
      <3>1. ~Before(z, y) /\ z # y
        BY <1>1 DEF Ahead
      <3>2. Before(y, z)
        BY <3>1, TotalOrder
      <3>3. Before(x, z)
        BY <1>4, <3>2, BeforeTransitive
      <3>4. QED
        BY <3>3, TotalOrder
    <2>3. n <= Cardinality(D \cup {x})
      <3>1. IsFiniteSet(D) /\ IsFiniteSet(D \cup {x})
        BY VersionsFinite, FS_Subset
      <3>2. /\ Cardinality(D) \in Nat /\ Cardinality(D \cup {x}) \in Nat
            /\ Cardinality(D) <= Cardinality(D \cup {x})
        BY <3>1, FS_CardinalityType, FS_Subset
      <3>3. QED
        BY <1>1, <3>2
    <2>4. /\ D \cup {x} \in SUBSET B /\ S \subseteq D \cup {x}
          /\ \A z \in (D \cup {x}) \ S : Val(z) = Null /\ z \notin d
      BY <1>1, <2>1
    <2>5. ~NoNulls(B)
      BY <1>2, <2>1
    <2>6. QED
      BY <2>2, <2>3, <2>4, <2>5 DEF Through
  <1>5. QED
    BY <1>3, <1>4

----------------------------------------------------------------------------
(* The inductive invariant.                                                *)

\* A row that is new in the source lies above every checkpoint in use.
LEMMA NewRowAbove ==
  ASSUME TypeOK, NEW c \in Values, Covered(c),
         NEW x \in Versions, Val(x) # Null, \A y \in history : Val(y) < Val(x)
  PROVE  c < Val(x)
  <1>1. Val(x) \in Nat /\ c \in Nat /\ \A y \in history : Val(y) \in Nat
    BY VersionParts, BoundsAssumption DEF TypeOK, Values
  <1>2. CASE c = Null
    BY <1>1, <1>2 DEF Null
  <1>3. CASE \E y \in history : c <= Val(y)
    <2>1. PICK y \in history : c <= Val(y)
      BY <1>3
    <2>2. Val(y) < Val(x) /\ Val(y) \in Nat
      BY <1>1
    <2>3. QED
      BY <1>1, <2>1, <2>2
  <1>4. QED
    BY <1>2, <1>3 DEF Covered

\* A row version that was never in the source; if it has a value, the value is
\* above all others.
IsNew(x) ==
  /\ x \in Versions /\ x \notin history
  /\ Val(x) # Null => \A y \in history : Val(y) < Val(x)

\* A run whose answer changes in the regime has gone as far through it as before.
LEMMA ThroughChanged ==
  ASSUME HasPrimaryKey, NullRows => NullsFirst, NullRows \/ NoNulls(history),
         NEW A, NEW B, NEW S, NEW n \in Nat, NEW d,
         A \subseteq history, history \subseteq Versions, d \subseteq history,
         Through(A, S, n, d), NEW x, IsNew(x), B = A \cup {x}
  PROVE  Through(B, S, n, d)
  <1>1. x \in Versions /\ x \notin A /\ x \notin d /\ A \subseteq Versions
    BY DEF IsNew
  <1>2. ASSUME Val(x) # Null, NEW y \in A
        PROVE  ~Before(x, y)
    <2>1. Val(y) < Val(x) /\ Val(y) \in Nat /\ Val(x) \in Nat
      BY <1>1, <1>2, VersionParts DEF IsNew
    <2>2. Val(y) = Null => NullsFirst
      BY DEF NoNulls
    <2>3. QED
      BY <1>2, <2>1, <2>2 DEF Before
  <1>3. QED
    BY <1>1, <1>2, ThroughRowAdded

\* The application's changes disturb no run, in the regime.
LEMMA ChangesKeepRuns ==
  ASSUME TypeOK, SourceInv, NEW w \in Workers, RunInv(w), HasPrimaryKey,
         UNCHANGED <<copies, runVars>>,
         history \subseteq history', source' \subseteq history',
         SnapshotReads \/ (NullRows => NullsFirst),
         SnapshotReads \/ \E x : source' = source \cup {x},
         \A x \in source' \ source : IsNew(x)
  PROVE  RunInv(w)'
  <1> DEFINE new == source' \ source
             CoveredNext(c) ==
               /\ \A x \in source' : Val(x) # Null /\ Val(x) <= c => copies[x] > 0
               /\ c = Null \/ \E x \in history' : c <= Val(x)
             DrainedNext(S) ==
               /\ \A x \in Answer(w)' \ S : Val(x) # Null => Val(x) > top[w]
               /\ due[w] \cap source' \subseteq S
  <1>0. /\ pc' = pc /\ cp' = cp /\ view' = view /\ offset' = offset
        /\ batch' = batch /\ top' = top /\ due' = due /\ seen' = seen
        /\ copies' = copies
    BY DEF runVars
  <1>1. \A c \in Values : Covered(c) => CoveredNext(c)
    <2> SUFFICES ASSUME NEW c \in Values, Covered(c)
                 PROVE  CoveredNext(c)
      OBVIOUS
    <2>1. \A x \in new : Val(x) # Null => c < Val(x)
      BY NewRowAbove DEF IsNew
    <2>2. ASSUME NEW x \in source', Val(x) # Null, Val(x) <= c
          PROVE  copies[x] > 0
      <3>1. x \notin new
        <4> SUFFICES ASSUME x \in new PROVE FALSE
          OBVIOUS
        <4>1. c < Val(x) /\ Val(x) \in Nat /\ c \in Nat
          BY <2>1, <2>2, VersionParts, BoundsAssumption DEF Values, IsNew
        <4>2. QED
          BY <4>1, <2>2
      <3>2. QED
        BY <3>1, <2>2 DEF Covered
    <2>3. QED
      BY <2>2, <1>0 DEF Covered
  <1>2. cp[w] \in Values /\ top[w] \in Values
    BY DEF TypeOK
  <1>3. /\ Visible(w) \subseteq Visible(w)'
        /\ Visible(w)' \subseteq Visible(w) \cup new
        /\ Answer(w) \subseteq Answer(w)'
        /\ Answer(w)' \subseteq Answer(w) \cup new
    <2>1. SnapshotReads \/ source \subseteq source'
      OBVIOUS
    <2>2. QED
      BY <1>0, <2>1 DEF Visible, Answer, Selected
  <1>11. ASSUME ViewInv(w)
         PROVE  ViewInv(w)'
    <2>1. Visible(w)' \subseteq history'
      BY <1>3, <1>11 DEF ViewInv
    <2>2. ASSUME NEW x \in source' \ Visible(w)', NEW y \in Visible(w)', Val(x) # Null
          PROVE  Val(y) < Val(x)
      <3>1. CASE SnapshotReads
        <4>1. Visible(w)' = Visible(w)
          BY <3>1, <1>0 DEF Visible
        <4>2. QED
          BY <4>1, <1>11, <2>2 DEF ViewInv, IsNew
      <3>2. CASE ~SnapshotReads
        BY <3>2, <2>2 DEF Visible
      <3>3. QED
        BY <3>1, <3>2
    <2>3. QED
      BY <2>1, <2>2 DEF ViewInv
  <1>12. ASSUME pc[w] \notin {"idle", "stuck", "connected"}
         PROVE  \A x \in new : x \notin due[w]
    BY <1>12 DEF RunInv, ReadInv, IsNew
  <1>4. ASSUME pc[w] \notin {"idle", "stuck", "connected"}
        PROVE  ReadInv(w)'
    <2>1. ReadInv(w)
      BY <1>4 DEF RunInv
    <2>2. Covered(cp[w])'
      BY <2>1, <1>0, <1>1, <1>2 DEF ReadInv, Covered
    <2>3. ViewInv(w)'
      BY <2>1, <1>11 DEF ReadInv
    <2>4. due[w] \subseteq history' /\ due[w] \cap source' \subseteq Answer(w)'
      BY <1>3, <1>4, <1>12, <2>1 DEF ReadInv
    <2>5. QED
      BY <1>0, <2>2, <2>3, <2>4 DEF ReadInv
  <1>5. ASSUME pc[w] \in {"fetch", "insert", "save"}
        PROVE  /\ PageInv(w)'
               /\ \A S : Drained(w, S) => DrainedNext(S)
               /\ NoNulls(Answer(w)') => NoNulls(Answer(w))
               /\ \A S : \A n \in Nat :
                    Through(Answer(w), S, n, due[w])
                      => Through(Answer(w)', S, n, due[w])
    <2>1. ReadInv(w) /\ PageInv(w)
      BY <1>5 DEF RunInv
    <2>2. PageInv(w)'
      BY <1>0, <1>3, <2>1 DEF PageInv
    <2>3. \A x \in new : Val(x) # Null => top[w] < Val(x)
      <3> SUFFICES ASSUME NEW x \in new, Val(x) # Null PROVE top[w] < Val(x)
        OBVIOUS
      <3>0. IsNew(x)
        OBVIOUS
      <3>1. CASE top[w] = cp[w]
        BY <3>0, <3>1, <2>1, <1>2, NewRowAbove DEF ReadInv, IsNew
      <3>2. CASE \E y \in Visible(w) : top[w] = Val(y)
        BY <3>0, <3>2, <2>1 DEF ReadInv, ViewInv, IsNew
      <3>3. QED
        BY <3>1, <3>2, <2>1 DEF PageInv
    <2>4. ASSUME NEW S, Drained(w, S)
          PROVE  DrainedNext(S)
      <3>1. due[w] \cap source' \subseteq S
        BY <1>5, <1>12, <2>4 DEF Drained
      <3>2. ASSUME NEW x \in Answer(w)' \ S, Val(x) # Null
            PROVE  Val(x) > top[w]
        <4>1. CASE x \in Answer(w)
          BY <3>2, <4>1, <2>4 DEF Drained
        <4>2. CASE x \in new
          <5>1. top[w] < Val(x) /\ top[w] \in Nat /\ Val(x) \in Nat
            BY <3>2, <4>2, <2>3, <1>2, VersionParts, BoundsAssumption
              DEF Values, IsNew
          <5>2. QED
            BY <5>1
        <4>3. QED
          BY <4>1, <4>2, <1>3
      <3>3. QED
        BY <3>1, <3>2
    <2>5. NoNulls(Answer(w)') => NoNulls(Answer(w))
      BY <1>3 DEF NoNulls
    <2>6. ASSUME NEW S, NEW n \in Nat, Through(Answer(w), S, n, due[w])
          PROVE  Through(Answer(w)', S, n, due[w])
      <3>1. CASE Answer(w)' = Answer(w)
        BY <2>6, <3>1
      <3>2. CASE Answer(w)' # Answer(w)
        <4>1. ~SnapshotReads
          BY <1>0, <3>2 DEF Answer, Visible
        <4>2. PICK x : source' = source \cup {x}
          BY <4>1
        <4>3. Answer(w)' = Answer(w) \cup {x} /\ x \in new
          BY <1>3, <3>2, <4>2
        <4>4. IsNew(x)
          BY <4>3
        <4>5. /\ Answer(w) \subseteq history /\ history \subseteq Versions
              /\ due[w] \subseteq history
          BY <2>1, SelectedSubset DEF Answer, ReadInv, ViewInv, TypeOK
        <4>6. (NullRows => NullsFirst) /\ (NullRows \/ NoNulls(history))
          BY <4>1 DEF SourceInv
        <4>7. QED
          BY <2>6, <4>3, <4>4, <4>5, <4>6, ThroughChanged
      <3>3. QED
        BY <3>1, <3>2
    <2>7. QED
      BY <2>2, <2>4, <2>5, <2>6
  <1>13. offset[w] \in Nat /\ Cardinality(batch[w]) \in Nat
    <2>1. IsFiniteSet(batch[w])
      BY VersionsFinite, FS_Subset DEF TypeOK
    <2>2. QED
      BY <2>1, FS_CardinalityType DEF TypeOK
  <1>6. ASSUME pc[w] = "fetch"
        PROVE  Through(Answer(w)', seen[w], offset[w], due[w])
    BY <1>5, <1>6, <1>13 DEF RunInv
  <1>7. ASSUME pc[w] = "insert"
        PROVE  /\ batch[w] \subseteq Answer(w)'
               /\ NoNulls(Answer(w)') => batch[w] \cap seen[w] = {}
               /\ Through(Answer(w)', seen[w] \cup batch[w],
                          offset[w] + Cardinality(batch[w]), due[w])
               /\ LastBatch(batch[w]) => DrainedNext(seen[w] \cup batch[w])
    <2>1. offset[w] + Cardinality(batch[w]) \in Nat
      BY <1>13
    <2>2. QED
      BY <1>3, <1>5, <1>7, <2>1 DEF RunInv
  <1>8. ASSUME pc[w] = "save"
        PROVE  /\ Through(Answer(w)', seen[w], offset[w] + Cardinality(batch[w]),
                          due[w])
               /\ LastBatch(batch[w]) => DrainedNext(seen[w])
    <2>1. offset[w] + Cardinality(batch[w]) \in Nat
      BY <1>13
    <2>2. QED
      BY <1>5, <1>8, <2>1 DEF RunInv
  <1>9. ASSUME pc[w] \in {"checkpoint", "finish"}
        PROVE  /\ Covered(top[w])'
               /\ \A x \in due[w] \cap source' : copies[x] > 0
    <2>1. Covered(top[w])'
      BY <1>9, <1>0, <1>1, <1>2 DEF RunInv, Covered
    <2>2. QED
      BY <1>9, <1>12, <2>1 DEF RunInv
  <1>10. QED
    BY <1>0, <1>4, <1>5, <1>6, <1>7, <1>8, <1>9, <1>11
      DEF RunInv, Drained, LastBatch

\* The rows a run appends to the target take nothing away.
LEMMA CopyInGrows ==
  ASSUME TypeOK, NEW P, CopyIn(P)
  PROVE  \A x \in Versions : /\ copies[x] > 0 => copies'[x] > 0
                             /\ x \in P => copies'[x] > 0
  BY DEF TypeOK, CopyIn, Smaller

\* A step that leaves a run's own state and the source alone, and takes nothing
\* from the target, keeps what is known of the run.
LEMMA OthersKeepRun ==
  ASSUME TypeOK, SourceInv, NEW w \in Workers, RunInv(w),
         source' = source, history' = history,
         \A x \in Versions : copies[x] > 0 => copies'[x] > 0,
         pc'[w] = pc[w], cp'[w] = cp[w], view'[w] = view[w],
         offset'[w] = offset[w], batch'[w] = batch[w], top'[w] = top[w],
         due'[w] = due[w], seen'[w] = seen[w]
  PROVE  RunInv(w)'
  <1>1. Visible(w)' = Visible(w) /\ Answer(w)' = Answer(w)
    BY DEF Visible, Answer
  <1>2. \A x \in source : copies[x] > 0 => copies'[x] > 0
    BY DEF TypeOK
  <1>3. /\ Covered(cp[w]) => Covered(cp[w])'
        /\ Covered(top[w]) => Covered(top[w])'
    BY <1>2 DEF Covered
  <1>4. (ReadInv(w) => ReadInv(w)') /\ (ViewInv(w) => ViewInv(w)')
    BY <1>1, <1>3 DEF ReadInv, ViewInv
  <1>5. ASSUME PageInv(w), ReadInv(w)
        PROVE  PageInv(w)'
    <2>1. seen[w] \subseteq Versions
      BY DEF TypeOK
    <2>2. QED
      BY <1>1, <1>5, <2>1 DEF PageInv
  <1>6. /\ LastBatch(batch[w])' = LastBatch(batch[w])
        /\ Drained(w, seen[w]) => Drained(w, seen[w])'
        /\ Drained(w, seen[w] \cup batch[w])
             => Drained(w, seen[w] \cup batch[w])'
    BY <1>1 DEF LastBatch, Drained
  <1>7. \A x \in due[w] \cap source : copies[x] > 0 => copies'[x] > 0
    BY <1>2
  <1>8. QED
    BY <1>1, <1>3, <1>4, <1>5, <1>6, <1>7 DEF RunInv

\* The application's changes keep the source invariant.
LEMMA ChangesKeepSource ==
  ASSUME TypeOK, SourceInv, UNCHANGED <<copies, checkpoint>>,
         source' \subseteq history', history' \subseteq history \cup source',
         history \subseteq history',
         NullRows \/ NoNulls(history'),
         \A x \in source' \ source : IsNew(x)
  PROVE  SourceInv'
  <1>1. checkpoint \in Values /\ Covered(checkpoint)
    BY DEF TypeOK, SourceInv
  <1>2. ASSUME NEW x \in source', Val(x) # Null, Val(x) <= checkpoint
        PROVE  copies[x] > 0
    <2>1. CASE x \in source
      BY <2>1, <1>1, <1>2 DEF Covered
    <2>2. CASE x \notin source
      <3>1. checkpoint < Val(x)
        BY <2>2, <1>1, <1>2, NewRowAbove DEF IsNew
      <3>2. Val(x) \in Nat /\ checkpoint \in Nat
        BY <2>2, <1>1, VersionParts, BoundsAssumption DEF Values, IsNew
      <3>3. QED
        BY <3>1, <3>2, <1>2
    <2>3. QED
      BY <2>1, <2>2
  <1>3. Covered(checkpoint)'
    BY <1>1, <1>2 DEF Covered
  <1>4. QED
    BY <1>3 DEF SourceInv

\* Every change the application makes keeps the invariant.
LEMMA SourceStepKeeps ==
  ASSUME Regime, IInv, SourceStep
  PROVE  SourceInv' /\ \A w \in Workers : RunInv(w)'
  <1> DEFINE Moves ==
        /\ UNCHANGED <<copies, checkpoint, runVars>>
        /\ history \subseteq history'
        /\ source' \subseteq history'
        /\ history' \subseteq history \cup source'
        /\ NullRows \/ NoNulls(history')
        /\ SnapshotReads \/ \E x : source' = source \cup {x}
        /\ \A x \in source' \ source : IsNew(x)
  <1>1. ASSUME NEW r \in Rows, NEW v \in Values, v # Null, Rising(v)
        PROVE  IsNew(<<r, v>>)
    <2>1. <<r, v>> \in Versions /\ Val(<<r, v>>) = v
      BY DEF Versions, Val
    <2>2. \A y \in history : Val(y) < v
      BY <1>1 DEF Rising, AllValues
    <2>3. <<r, v>> \notin history
      <3>1. v \in Nat
        BY BoundsAssumption DEF Values
      <3>2. ~ (v < v)
        BY <3>1
      <3>3. QED
        BY <2>1, <2>2, <3>2
    <2>4. QED
      BY <2>1, <2>2, <2>3 DEF IsNew
  <1>2. ASSUME NEW r \in Rows, NEW v \in Values, SourceInsert(r, v)
        PROVE  Moves
    <2> DEFINE x == <<r, v>>
    <2>1. \/ v # Null /\ Rising(v)
          \/ NullRows /\ v = Null /\ \A y \in history : Pk(y) # r
      BY <1>2 DEF SourceInsert, Regime
    <2>2. IsNew(x)
      <3>1. CASE v # Null /\ Rising(v)
        BY <1>1, <3>1
      <3>2. CASE v = Null /\ \A y \in history : Pk(y) # r
        <4>1. x \in Versions /\ Val(x) = Null /\ Pk(x) = r
          BY <3>2 DEF Versions, Val, Pk
        <4>2. x \notin history
          BY <3>2, <4>1
        <4>3. QED
          BY <4>1, <4>2 DEF IsNew
      <3>3. QED
        BY <2>1, <3>1, <3>2
    <2>3. Val(x) = v
      BY DEF Val
    <2>4. /\ UNCHANGED <<copies, checkpoint, runVars>>
          /\ source' = source \cup {x} /\ history' = history \cup {x}
      BY <1>2 DEF SourceInsert, AddVersion
    <2>5. NullRows \/ NoNulls(history')
      BY <2>1, <2>3, <2>4 DEF IInv, SourceInv, NoNulls
    <2>6. source \subseteq history
      BY DEF IInv, SourceInv
    <2> HIDE DEF x
    <2>7. QED
      BY <2>2, <2>4, <2>5, <2>6
  <1>3. ASSUME NEW r \in Rows, NEW v \in Values, SourceUpdate(r, v)
        PROVE  Moves
    <2> DEFINE x == <<r, v>>
    <2>1. SnapshotReads /\ v # Null /\ Rising(v)
      BY <1>3 DEF SourceUpdate, Regime
    <2>2. IsNew(x) /\ Val(x) # Null
      BY <1>1, <2>1 DEF Val
    <2>3. /\ UNCHANGED <<copies, checkpoint, runVars>>
          /\ source' \subseteq source \cup {x} /\ x \in source'
          /\ history' = history \cup {x}
      BY <1>3 DEF SourceUpdate, AddVersion
    <2>4. source \subseteq history /\ (NullRows \/ NoNulls(history))
      BY DEF IInv, SourceInv
    <2> HIDE DEF x
    <2>5. QED
      BY <2>1, <2>2, <2>3, <2>4 DEF NoNulls
  <1>4. ASSUME NEW r \in Rows, SourceDelete(r)
        PROVE  Moves
    <2>1. SnapshotReads
      BY <1>4 DEF SourceDelete, Regime
    <2>2. QED
      BY <1>4, <2>1 DEF SourceDelete, IInv, SourceInv, NoNulls
  <1>5. Moves
    BY <1>2, <1>3, <1>4 DEF SourceStep
  <1>6. SourceInv'
    BY <1>5, ChangesKeepSource DEF IInv
  <1>7. ASSUME NEW w \in Workers
        PROVE  RunInv(w)'
    BY <1>5, ChangesKeepRuns DEF IInv, Regime
  <1>8. QED
    BY <1>6, <1>7

\* When nothing is left to fetch, the greatest value fetched can be promised.
LEMMA DrainedCovers ==
  ASSUME TypeOK, NEW w \in Workers,
         ReadInv(w), PageInv(w), Drained(w, seen[w])
  PROVE  /\ Covered(top[w])
         /\ \A x \in due[w] \cap source : copies[x] > 0
  <1>0. /\ \A x \in source \cup Visible(w) : Val(x) \in Nat
        /\ top[w] \in Nat /\ cp[w] \in Nat
    <2>1. source \cup Visible(w) \subseteq Versions
      BY DEF TypeOK, Visible
    <2>2. QED
      BY <2>1, VersionParts, BoundsAssumption DEF TypeOK, Values
  <1>1. ASSUME NEW x \in source, Val(x) # Null, Val(x) <= top[w]
        PROVE  copies[x] > 0
    <2>1. CASE x \notin Visible(w)
      <3>1. CASE top[w] = cp[w]
        BY <3>1, <1>1 DEF ReadInv, Covered
      <3>2. CASE \E y \in Visible(w) : top[w] = Val(y)
        BY <3>2, <2>1, <1>0, <1>1 DEF ReadInv, ViewInv
      <3>3. QED
        BY <3>1, <3>2 DEF PageInv
    <2>2. CASE x \in Visible(w) /\ x \notin Answer(w)
      <3>1. Val(x) <= cp[w]
        BY <2>2, <1>0 DEF Answer, Selected
      <3>2. QED
        BY <1>1, <3>1 DEF ReadInv, ViewInv, Covered
    <2>3. CASE x \in Answer(w)
      <3>1. x \in seen[w]
        <4> SUFFICES ASSUME x \notin seen[w] PROVE FALSE
          OBVIOUS
        <4>1. Val(x) > top[w]
          BY <1>1, <2>3 DEF Drained
        <4>2. QED
          BY <4>1, <1>0, <1>1
      <3>2. QED
        BY <3>1 DEF PageInv
    <2>4. QED
      BY <2>1, <2>2, <2>3
  <1>2. top[w] = Null \/ \E x \in history : top[w] <= Val(x)
    BY <1>0 DEF PageInv, ReadInv, ViewInv, Covered
  <1>3. \A x \in due[w] \cap source : copies[x] > 0
    BY DEF Drained, PageInv
  <1>4. QED
    BY <1>1, <1>2, <1>3 DEF Covered

\* A run that has fetched nothing has not gone through anything.
LEMMA ThroughNothing ==
  ASSUME NEW A, NEW d
  PROVE  Through(A, {}, 0, d)
  <1>1. Cardinality({}) = 0
    BY FS_EmptySet
  <1>2. Ahead({}, A \ {})
    BY DEF Ahead
  <1>3. {} \in SUBSET A
    OBVIOUS
  <1>4. QED
    BY <1>1, <1>2, <1>3 DEF Through

\* Turning to the table: what is seen is the source, all of it or as it was.
LEMMA ConnectKeeps ==
  ASSUME TypeOK, SourceInv, NEW w \in Workers, RunInv(w), Connect(w)
  PROVE  RunInv(w)'
  <1>1. /\ pc'[w] = "connected" /\ seen' = seen /\ offset' = offset
        /\ source' = source /\ history' = history
        /\ pc[w] = "idle"
    BY DEF Connect, TypeOK
  <1>2. Visible(w)' = source
    BY <1>1 DEF Connect, Visible, TypeOK
  <1>3. ViewInv(w)'
    BY <1>1, <1>2 DEF ViewInv, SourceInv
  <1>4. QED
    BY <1>1, <1>3 DEF RunInv

\* A later view, as long as nothing has been fetched from the earlier one.
LEMMA ReopenKeeps ==
  ASSUME TypeOK, SourceInv, NEW w \in Workers, RunInv(w), Reopen(w)
  PROVE  RunInv(w)'
  <1>1. /\ pc' = pc /\ cp' = cp /\ top' = top /\ due' = due
        /\ seen' = seen /\ offset' = offset /\ batch' = batch
        /\ source' = source /\ history' = history /\ copies' = copies
        /\ pc[w] \in {"connected", "fetch"} /\ offset[w] = 0
    BY DEF Reopen
  <1>2. Visible(w)' = source
    BY DEF Reopen, Visible, TypeOK
  <1>3. ViewInv(w)'
    BY <1>1, <1>2 DEF ViewInv, SourceInv
  <1>4. CASE pc[w] = "connected"
    BY <1>1, <1>3, <1>4 DEF RunInv
  <1>5. CASE pc[w] = "fetch"
    <2>1. ReadInv(w) /\ PageInv(w) /\ top[w] = cp[w] /\ seen[w] = {}
      BY <1>1, <1>5 DEF RunInv
    <2>2. Answer(w)' = Selected(source, cp[w])
      BY <1>1, <1>2 DEF Answer
    <2>3. due[w] \cap source \subseteq Selected(source, cp[w])
      BY <2>1 DEF ReadInv, Answer, Selected
    <2>4. ReadInv(w)'
      BY <1>1, <1>3, <2>1, <2>2, <2>3 DEF ReadInv, Covered
    <2>5. PageInv(w)'
      BY <1>1, <2>1 DEF PageInv
    <2>6. Through(Answer(w)', {}, 0, due[w])
      BY ThroughNothing
    <2>7. QED
      BY <1>1, <1>5, <2>1, <2>4, <2>5, <2>6 DEF RunInv
  <1>6. QED
    BY <1>1, <1>4, <1>5

\* Starting a run: everything it will rely on holds of the checkpoint it reads.
LEMMA BeginKeeps ==
  ASSUME TypeOK, SourceInv, NEW w \in Workers, RunInv(w), Begin(w)
  PROVE  RunInv(w)'
  <1>1. /\ pc'[w] = "fetch" /\ cp'[w] = checkpoint /\ top'[w] = checkpoint
        /\ due'[w] = Selected(Visible(w), checkpoint)
        /\ seen'[w] = {} /\ offset'[w] = 0
        /\ source' = source /\ history' = history /\ copies' = copies
        /\ ViewInv(w)
    BY DEF Begin, TypeOK, RunInv
  <1>2. Visible(w)' = Visible(w)
    BY DEF Begin, Visible
  <1>3. Answer(w)' = Selected(Visible(w), checkpoint)
    BY <1>1, <1>2 DEF Answer
  <1>4. Covered(cp[w])'
    BY <1>1 DEF Covered, SourceInv
  <1>5. ReadInv(w)'
    BY <1>1, <1>2, <1>3, <1>4, SelectedSubset DEF ReadInv, ViewInv
  <1>6. PageInv(w)'
    BY <1>1, BoundsAssumption DEF PageInv, TypeOK, Values
  <1>7. Through(Answer(w)', {}, 0, due'[w])
    BY ThroughNothing
  <1>8. QED
    BY <1>1, <1>5, <1>6, <1>7 DEF RunInv

\* A fetched page is the next page, and a short one is the last.
LEMMA FetchKeeps ==
  ASSUME Regime, TypeOK, SourceInv, NEW w \in Workers, RunInv(w), Fetch(w)
  PROVE  RunInv(w)'
  <1>0. pc[w] = "fetch" /\ ReadInv(w) /\ PageInv(w)
    BY DEF Fetch, RunInv
  <1>1. PICK P \in Pages(Answer(w), offset[w]), v \in Values :
          /\ batch' = [batch EXCEPT ![w] = P]
          /\ GreatestOf(v, P, top[w])
          /\ top' = [top EXCEPT ![w] = v]
          /\ pc' = [pc EXCEPT ![w] = IF P = {} THEN "checkpoint"
                                     ELSE "insert"]
    BY DEF Fetch, Answer
  <1>2. /\ source' = source /\ history' = history /\ copies' = copies
        /\ cp' = cp /\ view' = view /\ offset' = offset
        /\ due' = due /\ seen' = seen
        /\ batch'[w] = P /\ top'[w] = v
        /\ Visible(w)' = Visible(w) /\ Answer(w)' = Answer(w)
    BY <1>1 DEF Fetch, TypeOK, Visible, Answer
  <1>3. /\ Answer(w) \subseteq Versions
        /\ Answer(w) \subseteq Visible(w)
    BY SelectedSubset DEF Answer, Visible, TypeOK
  <1>4. /\ P \subseteq Answer(w) /\ Cardinality(P) <= BatchSize
        /\ NoNulls(Answer(w)) => P \cap seen[w] = {}
        /\ Through(Answer(w), seen[w] \cup P, offset[w] + Cardinality(P), due[w])
        /\ LastBatch(P) => \A x \in Answer(w) \ (seen[w] \cup P) :
                             Val(x) = Null /\ x \notin due[w]
    <2>1. /\ seen[w] \in SUBSET Answer(w) /\ offset[w] \in Nat
          /\ Through(Answer(w), seen[w], offset[w], due[w])
          /\ HasPrimaryKey
      BY <1>0 DEF Regime, RunInv, PageInv, TypeOK
    <2>2. QED
      <3> DEFINE A == Answer(w)
                 S == seen[w]
                 n == offset[w]
                 d == due[w]
      <3>1. /\ A \subseteq Versions /\ S \in SUBSET A /\ n \in Nat
            /\ Through(A, S, n, d) /\ P \in Pages(A, n) /\ HasPrimaryKey
        BY <1>3, <2>1
      <3> HIDE DEF A, S, n, d
      <3>2. /\ P \subseteq A /\ Cardinality(P) <= BatchSize
            /\ NoNulls(A) => P \cap S = {}
            /\ Through(A, S \cup P, n + Cardinality(P), d)
            /\ LastBatch(P) => \A x \in A \ (S \cup P) :
                                 Val(x) = Null /\ x \notin d
        <4>1. Through(A, S \cup P, n + Cardinality(P), d)
          BY <3>1, ThroughPage
        <4>2. P \subseteq A /\ Cardinality(P) <= BatchSize
          BY <3>1, <4>1, ThroughPage
        <4>3. NoNulls(A) => P \cap S = {}
          BY <3>1, <4>1, ThroughPage
        <4>4. LastBatch(P) => \A x \in A \ (S \cup P) :
                                 Val(x) = Null /\ x \notin d
          BY <3>1, <4>1, ThroughPage
        <4>5. QED
          BY <4>1, <4>2, <4>3, <4>4
      <3>3. QED
        BY <3>2 DEF A, S, n, d
  <1>5. v = top[w] \/ \E x \in P : v = Val(x)
    BY <1>1 DEF GreatestOf
  <1>6. v >= top[w] /\ v >= cp[w]
    <2>1. v \in Nat /\ top[w] \in Nat /\ cp[w] \in Nat /\ top[w] >= cp[w]
      BY <1>0, BoundsAssumption DEF TypeOK, Values, PageInv
    <2>2. QED
      BY <1>1, <2>1 DEF GreatestOf
  <1>7. ReadInv(w)'
    BY <1>0, <1>2 DEF ReadInv, ViewInv, Covered
  <1>8. PageInv(w)'
    BY <1>0, <1>2, <1>3, <1>4, <1>5, <1>6 DEF PageInv
  <1>9. ASSUME LastBatch(P)
        PROVE  /\ \A x \in Answer(w) \ (seen[w] \cup P) : Val(x) = Null
               /\ due[w] \cap source \subseteq seen[w] \cup P
    <2>1. due[w] \cap source \subseteq Answer(w)
      BY <1>0 DEF ReadInv
    <2>2. QED
      BY <1>4, <1>9, <2>1
  <1>10. CASE P # {}
    <2>1. pc'[w] = "insert"
      BY <1>1, <1>10 DEF TypeOK
    <2>2. LastBatch(batch[w])' => Drained(w, seen[w] \cup batch[w])'
      BY <1>2, <1>9 DEF LastBatch, Drained
    <2>3. Through(Answer(w), seen[w] \cup batch[w],
                  offset[w] + Cardinality(batch[w]), due[w])'
      BY <1>2, <1>4 DEF Through, Ahead, NoNulls
    <2>4. /\ batch'[w] \subseteq Answer(w)'
          /\ Cardinality(batch[w])' <= BatchSize
          /\ NoNulls(Answer(w))' => batch'[w] \cap seen'[w] = {}
      BY <1>2, <1>4 DEF NoNulls
    <2>5. QED
      BY <2>1, <2>2, <2>3, <2>4, <1>7, <1>8 DEF RunInv
  <1>11. CASE P = {}
    <2>1. pc'[w] = "checkpoint"
      BY <1>1, <1>11 DEF TypeOK
    <2>2. LastBatch(P)
      BY <1>11, FS_EmptySet, BoundsAssumption DEF LastBatch
    <2>3. v = top[w]
      BY <1>5, <1>11
    <2>4. Drained(w, seen[w])
      BY <1>9, <1>11, <2>2 DEF Drained
    <2>5. /\ Covered(top[w])
          /\ \A x \in due[w] \cap source : copies[x] > 0
      BY <1>0, <2>4, DrainedCovers
    <2>6. Covered(top[w])' /\ \A x \in (due[w] \cap source)' : copies'[x] > 0
      BY <1>2, <2>3, <2>5 DEF Covered
    <2>7. QED
      BY <2>1, <2>6, <1>7 DEF RunInv
  <1>12. QED
    BY <1>10, <1>11

\* A batch that is committed becomes part of what the run has copied.
LEMMA InsertKeeps ==
  ASSUME TypeOK, NEW w \in Workers, RunInv(w), Insert(w)
  PROVE  RunInv(w)'
  <1>0. pc[w] = "insert" /\ ReadInv(w) /\ PageInv(w)
    BY DEF Insert, RunInv
  <1>1. /\ source' = source /\ history' = history
        /\ cp' = cp /\ view' = view /\ offset' = offset
        /\ due' = due /\ top' = top /\ batch' = batch
        /\ seen'[w] = seen[w] \cup batch[w] /\ pc'[w] = "save"
        /\ Visible(w)' = Visible(w) /\ Answer(w)' = Answer(w)
    BY DEF Insert, TypeOK, Visible, Answer
  <1>2. /\ source \subseteq Versions /\ seen[w] \subseteq Versions
        /\ batch[w] \subseteq Versions
    BY DEF TypeOK
  <1>3. /\ \A x \in source : copies[x] > 0 => copies'[x] > 0
        /\ \A x \in seen[w] \cup batch[w] :
             copies[x] > 0 \/ x \in batch[w] => copies'[x] > 0
    BY <1>2, CopyInGrows DEF Insert
  <1>4. ReadInv(w)'
    BY <1>0, <1>1, <1>3 DEF ReadInv, ViewInv, Covered
  <1>5. /\ batch[w] \subseteq Answer(w)
        /\ Through(Answer(w), seen[w] \cup batch[w],
                   offset[w] + Cardinality(batch[w]), due[w])
        /\ Cardinality(batch[w]) <= BatchSize
        /\ LastBatch(batch[w]) => Drained(w, seen[w] \cup batch[w])
    BY <1>0 DEF RunInv
  <1>6. PageInv(w)'
    <2>1. \A x \in seen'[w] : copies'[x] > 0
      BY <1>0, <1>1, <1>3 DEF PageInv
    <2>2. seen'[w] \subseteq Answer(w)
      BY <1>0, <1>1, <1>5 DEF PageInv
    <2>3. QED
      BY <1>0, <1>1, <2>1, <2>2 DEF PageInv
  <1>7. Through(Answer(w), seen[w], offset[w] + Cardinality(batch[w]), due[w])'
    BY <1>1, <1>5 DEF Through, Ahead, NoNulls
  <1>8. LastBatch(batch[w])' => Drained(w, seen[w])'
    BY <1>1, <1>5 DEF LastBatch, Drained
  <1>9. QED
    BY <1>1, <1>4, <1>5, <1>6, <1>7, <1>8 DEF RunInv

\* Going on after a full batch, or leaving the loop after a short one.
LEMMA SaveProgressKeeps ==
  ASSUME TypeOK, NEW w \in Workers, RunInv(w), SaveProgress(w)
  PROVE  RunInv(w)'
  <1>0. pc[w] = "save" /\ ReadInv(w) /\ PageInv(w)
    BY DEF SaveProgress, RunInv
  <1>1. /\ source' = source /\ history' = history /\ copies' = copies
        /\ cp' = cp /\ view' = view /\ due' = due /\ top' = top
        /\ seen' = seen /\ offset'[w] = offset[w] + BatchSize
        /\ pc'[w] = IF LastBatch(batch[w]) THEN "checkpoint" ELSE "fetch"
        /\ Visible(w)' = Visible(w) /\ Answer(w)' = Answer(w)
    BY DEF SaveProgress, NextOffset, TypeOK, Visible, Answer
  <1>2. ReadInv(w)' /\ PageInv(w)'
    BY <1>0, <1>1 DEF ReadInv, ViewInv, PageInv, Covered
  <1>3. CASE LastBatch(batch[w])
    <2>1. /\ Covered(top[w])
          /\ \A x \in due[w] \cap source : copies[x] > 0
      BY <1>0, <1>3, DrainedCovers DEF RunInv
    <2>2. Covered(top[w])' /\ \A x \in (due[w] \cap source)' : copies'[x] > 0
      BY <1>1, <2>1 DEF Covered
    <2>3. QED
      BY <1>1, <1>2, <1>3, <2>2 DEF RunInv
  <1>4. CASE ~LastBatch(batch[w])
    <2>1. Cardinality(batch[w]) \in Nat
      BY VersionsFinite, FS_Subset, FS_CardinalityType DEF TypeOK
    <2>2. Cardinality(batch[w]) = BatchSize
      BY <1>0, <1>4, <2>1, BoundsAssumption DEF RunInv, LastBatch
    <2>3. Through(Answer(w), seen[w], offset[w] + BatchSize, due[w])
      BY <1>0, <2>2 DEF RunInv
    <2>4. Through(Answer(w), seen[w], offset[w], due[w])'
      BY <1>1, <2>3 DEF Through, Ahead, NoNulls
    <2>5. QED
      <3>1. offset'[w] # 0
        BY <1>1, BoundsAssumption DEF TypeOK
      <3>2. QED
        BY <1>1, <1>2, <1>4, <2>4, <3>1 DEF RunInv
  <1>5. QED
    BY <1>3, <1>4

\* Writing the checkpoint, or failing to, ends the run.
LEMMA CheckpointKeeps ==
  ASSUME TypeOK, NEW w \in Workers, RunInv(w),
         WriteCheckpoint(w) \/ CheckpointError(w)
  PROVE  RunInv(w)'
  <1>0. pc[w] = "checkpoint"
    BY DEF WriteCheckpoint, CheckpointError
  <1>1. /\ source' = source /\ history' = history /\ copies' = copies
        /\ cp' = cp /\ view' = view /\ due' = due /\ top' = top
        /\ pc'[w] = "finish"
        /\ Visible(w)' = Visible(w) /\ Answer(w)' = Answer(w)
    BY DEF WriteCheckpoint, CheckpointError, TypeOK, Visible, Answer
  <1>2. ReadInv(w)'
    BY <1>0, <1>1 DEF RunInv, ReadInv, ViewInv, Covered
  <1>3. Covered(top[w])' /\ \A x \in (due[w] \cap source)' : copies'[x] > 0
    BY <1>0, <1>1 DEF RunInv, Covered
  <1>4. QED
    BY <1>1, <1>2, <1>3 DEF RunInv

\* A run that ends, however it ends, leaves nothing to keep.
LEMMA AbandonKeeps ==
  ASSUME TypeOK, NEW w \in Workers, Abandon(w)
  PROVE  RunInv(w)'
  BY DEF Abandon, TypeOK, RunInv

\* A step of run z concerns the state of run z only.
LEMMA StepIsLocal ==
  ASSUME TypeOK, NEW z \in Workers, Step(z) \/ Reopen(z) \/ FaultStep(z),
         NEW w \in Workers, w # z
  PROVE  /\ source' = source /\ history' = history
         /\ \A x \in Versions : copies[x] > 0 => copies'[x] > 0
         /\ pc'[w] = pc[w] /\ cp'[w] = cp[w] /\ view'[w] = view[w]
         /\ offset'[w] = offset[w] /\ batch'[w] = batch[w]
         /\ top'[w] = top[w] /\ due'[w] = due[w] /\ seen'[w] = seen[w]
  <1>1. CASE Begin(z)
    BY <1>1 DEF Begin, TypeOK
  <1>2. CASE Fetch(z)
    BY <1>2 DEF Fetch, TypeOK
  <1>3. CASE Insert(z)
    BY <1>3, CopyInGrows DEF Insert, TypeOK
  <1>4. CASE InsertRejected(z)
    BY <1>4 DEF InsertRejected, Abandon, TypeOK
  <1>5. CASE SaveProgress(z)
    BY <1>5 DEF SaveProgress, TypeOK
  <1>6. CASE WriteCheckpoint(z)
    BY <1>6 DEF WriteCheckpoint, TypeOK
  <1>7. CASE Finish(z)
    BY <1>7 DEF Finish, Abandon, TypeOK
  <1>8. CASE FetchError(z)
    BY <1>8 DEF FetchError, Retry, Abandon, TypeOK
  <1>9. CASE InsertError(z)
    BY <1>9 DEF InsertError, Retry, Abandon, TypeOK
  <1>10. CASE InsertLost(z)
    BY <1>10, CopyInGrows DEF InsertLost, Abandon, TypeOK
  <1>11. CASE SaveError(z)
    BY <1>11 DEF SaveError, Abandon, TypeOK
  <1>12. CASE CheckpointError(z)
    BY <1>12 DEF CheckpointError, TypeOK
  <1>13. CASE Connect(z) \/ Reopen(z)
    BY <1>13 DEF Connect, Reopen, TypeOK
  <1>14. CASE BeginError(z)
    BY <1>14 DEF BeginError, Abandon, TypeOK
  <1>15. QED
    BY <1>1, <1>2, <1>3, <1>4, <1>5, <1>6, <1>7, <1>8, <1>9, <1>10, <1>11,
       <1>12, <1>13, <1>14 DEF Step, FaultStep

\* A step of a run keeps what is known of that run.
LEMMA StepKeepsOwn ==
  ASSUME Regime, TypeOK, SourceInv, NEW w \in Workers, RunInv(w),
         Step(w) \/ Reopen(w) \/ FaultStep(w)
  PROVE  RunInv(w)'
  <1>1. CASE Begin(w)
    BY <1>1, BeginKeeps
  <1>2. CASE Fetch(w)
    BY <1>2, FetchKeeps
  <1>3. CASE Insert(w)
    BY <1>3, InsertKeeps
  <1>4. CASE SaveProgress(w)
    BY <1>4, SaveProgressKeeps
  <1>5. CASE WriteCheckpoint(w) \/ CheckpointError(w)
    BY <1>5, CheckpointKeeps
  <1>6. CASE Abandon(w)
    BY <1>6, AbandonKeeps
  <1>7. CASE (FetchError(w) \/ InsertError(w)) /\ ~Abandon(w)
    BY <1>7, OthersKeepRun DEF FetchError, InsertError, Retry
  <1>8. CASE Connect(w)
    BY <1>8, ConnectKeeps
  <1>9. CASE Reopen(w)
    BY <1>9, ReopenKeeps
  <1>10. QED
    BY <1>1, <1>2, <1>3, <1>4, <1>5, <1>6, <1>7, <1>8, <1>9
      DEF Step, FaultStep, InsertRejected, Finish, BeginError, InsertLost,
          SaveError, FetchError, InsertError

\* A step of a run keeps what is known of the source and the checkpoint.
LEMMA StepKeepsSource ==
  ASSUME TypeOK, SourceInv, NEW w \in Workers, RunInv(w),
         Step(w) \/ Reopen(w) \/ FaultStep(w)
  PROVE  SourceInv'
  <1>1. /\ source' = source /\ history' = history
        /\ \/ checkpoint' = checkpoint
           \/ checkpoint' = top[w] /\ Covered(top[w])
    <2>1. CASE WriteCheckpoint(w)
      BY <2>1 DEF WriteCheckpoint, RunInv
    <2>2. CASE Connect(w) \/ Reopen(w) \/ Begin(w) \/ Fetch(w)
      BY <2>2 DEF Connect, Reopen, Begin, Fetch
    <2>3. CASE Insert(w) \/ InsertRejected(w) \/ SaveProgress(w) \/ Finish(w)
      BY <2>3 DEF Insert, InsertRejected, SaveProgress, Finish
    <2>4. CASE FaultStep(w)
      BY <2>4 DEF FaultStep, BeginError, FetchError, InsertError, InsertLost,
        SaveError, CheckpointError
    <2>5. QED
      BY <2>1, <2>2, <2>3, <2>4 DEF Step
  <1>2. \A x \in source : copies[x] > 0 => copies'[x] > 0
    <2>1. CASE Insert(w) \/ InsertLost(w)
      BY <2>1, CopyInGrows DEF Insert, InsertLost, TypeOK
    <2>2. CASE (Step(w) \/ Reopen(w)) /\ ~Insert(w)
      BY <2>2 DEF Step, Connect, Reopen, Begin, Fetch, InsertRejected,
        SaveProgress, WriteCheckpoint, Finish
    <2>3. CASE FaultStep(w) /\ ~InsertLost(w)
      BY <2>3 DEF FaultStep, BeginError, FetchError, InsertError, SaveError,
        CheckpointError
    <2>4. QED
      BY <2>1, <2>2, <2>3
  <1>3. QED
    BY <1>1, <1>2 DEF SourceInv, Covered, NoNulls

LEMMA InvInit == Regime /\ Init => IInv
  <1> SUFFICES ASSUME Regime, Init
               PROVE  IInv
    OBVIOUS
  <1>1. TypeOK
    BY TypeInit
  <1>2. NullRows \/ NoNulls(source)
    <2> SUFFICES ASSUME ~NullRows PROVE \A x \in source : Val(x) # Null
      BY DEF NoNulls
    <2> DEFINE V == IF NullRows THEN Values ELSE Values \ {Null}
    <2>0. V = Values \ {Null}
      OBVIOUS
    <2>1. source \in UNION {{{<<r, f[r]>> : r \in D} : f \in [D -> V]} :
                             D \in SUBSET Rows}
      BY DEF Init, Tables
    <2> HIDE DEF V
    <2>4. PICK D \in SUBSET Rows :
            source \in {{<<r, f[r]>> : r \in D} : f \in [D -> V]}
      BY <2>1
    <2>6. PICK f \in [D -> V] : source = {<<r, f[r]>> : r \in D}
      BY <2>4
    <2>2. /\ f \in [D -> Values \ {Null}]
          /\ source = {<<r, f[r]>> : r \in D}
      BY <2>0, <2>6
    <2>3. \A r \in D : Val(<<r, f[r]>>) # Null
      BY <2>2 DEF Val
    <2>5. QED
      BY <2>2, <2>3
  <1>3. SourceInv
    <2>1. \A x \in source : Val(x) # Null => ~(Val(x) <= Null)
      BY <1>1, VersionParts DEF TypeOK, Null
    <2>2. QED
      BY <1>2, <2>1 DEF Init, SourceInv, Covered
  <1>4. \A w \in Workers : RunInv(w)
    BY DEF Init, RunInv
  <1>5. QED
    BY <1>1, <1>3, <1>4 DEF IInv

LEMMA InvStep == Regime /\ IInv /\ [Next]_vars => IInv'
  <1> SUFFICES ASSUME Regime, IInv, [Next]_vars
               PROVE  IInv'
    OBVIOUS
  <1>0. TypeOK /\ SourceInv /\ \A w \in Workers : RunInv(w)
    BY DEF IInv
  <1>1. TypeOK'
    BY <1>0, TypeStep
  <1>2. CASE SourceStep
    BY <1>1, <1>2, SourceStepKeeps DEF IInv
  <1>3. ASSUME NEW z \in Workers, Step(z) \/ Reopen(z) \/ FaultStep(z)
        PROVE  IInv'
    <2>1. SourceInv'
      BY <1>0, <1>3, StepKeepsSource
    <2>2. ASSUME NEW w \in Workers
          PROVE  RunInv(w)'
      <3>1. CASE w = z
        BY <1>0, <1>3, <3>1, StepKeepsOwn
      <3>2. CASE w # z
        BY <1>0, <1>3, <3>2, StepIsLocal, OthersKeepRun
      <3>3. QED
        BY <3>1, <3>2
    <2>3. QED
      BY <1>1, <2>1, <2>2 DEF IInv
  <1>4. CASE ResetCheckpoint
    <2>1. /\ source' = source /\ history' = history /\ copies' = copies
          /\ checkpoint' = Null /\ UNCHANGED runVars
      BY <1>4 DEF ResetCheckpoint
    <2>2. \A x \in source : Val(x) # Null => ~(Val(x) <= Null)
      BY <1>0, VersionParts DEF TypeOK, Null
    <2>3. SourceInv'
      BY <1>0, <2>1, <2>2 DEF SourceInv, Covered, NoNulls
    <2>4. ASSUME NEW w \in Workers
          PROVE  RunInv(w)'
      BY <1>0, <2>1, OthersKeepRun DEF runVars
    <2>5. QED
      BY <1>1, <2>3, <2>4 DEF IInv
  <1>5. CASE Crash
    <2>1. SourceInv'
      BY <1>0, <1>5 DEF Crash, SourceInv, Covered, NoNulls
    <2>2. \A w \in Workers : RunInv(w)'
      BY <1>5 DEF Crash, RunInv
    <2>3. QED
      BY <1>1, <2>1, <2>2 DEF IInv
  <1>8. CASE PutRight
    <2>1. SourceInv'
      BY <1>0, <1>8 DEF PutRight, SourceInv, Covered, NoNulls
    <2>2. ASSUME NEW w \in Workers
          PROVE  RunInv(w)'
      <3>1. RunInv(w) /\ pc[w] = "stuck" /\ pc'[w] = "idle"
        BY <1>0, <1>8 DEF PutRight, Stuck
      <3>2. QED
        BY <1>8, <3>1 DEF PutRight, RunInv
    <2>3. QED
      BY <1>1, <2>1, <2>2 DEF IInv
  <1>6. CASE UNCHANGED vars
    <2>1. SourceInv'
      BY <1>0, <1>6 DEF vars, SourceInv, Covered, NoNulls
    <2>2. ASSUME NEW w \in Workers
          PROVE  RunInv(w)'
      BY <1>0, <1>6, OthersKeepRun DEF vars
    <2>3. QED
      BY <1>1, <2>1, <2>2 DEF IInv
  <1>7. QED
    BY <1>2, <1>3, <1>4, <1>5, <1>6, <1>8 DEF Next

\* IInv is an invariant of the component in the regime.
THEOREM Invariance == Regime => (Spec => []IInv)
  <1>1. Regime /\ Init => IInv
    BY InvInit
  <1>2. Regime /\ IInv /\ [Next]_vars => IInv'
    BY InvStep
  <1> SUFFICES ASSUME Regime
               PROVE  Spec => []IInv
    OBVIOUS
  <1>3. Init => IInv
    BY <1>1
  <1>4. IInv /\ [Next]_vars => IInv'
    BY <1>2
  <1>5. QED
    BY <1>3, <1>4, PTL DEF Spec

\* Whatever fails, is retried, is interrupted or runs at the same time, the
\* checkpoint never passes over a source row that has not been copied.
THEOREM NothingIsSkipped == Regime => (Spec => []NothingSkipped)
  <1>1. IInv => NothingSkipped
    BY DEF IInv, SourceInv, Covered, NothingSkipped
  <1> SUFFICES ASSUME Regime
               PROVE  Spec => []NothingSkipped
    OBVIOUS
  <1>2. Spec => []IInv
    BY Invariance
  <1>3. QED
    BY <1>1, <1>2, PTL

\* A run that is marked completed has copied every row that was due when it
\* began and is still in the source.
THEOREM CompletionIsHonest == Regime => (Spec => []CompletedMeansCopied)
  <1>1. IInv => CompletedMeansCopied
    BY DEF IInv, RunInv, CompletedMeansCopied
  <1> SUFFICES ASSUME Regime
               PROVE  Spec => []CompletedMeansCopied
    OBVIOUS
  <1>2. Spec => []IInv
    BY Invariance
  <1>3. QED
    BY <1>1, <1>2, PTL

----------------------------------------------------------------------------
(* The refinement of TableCopy.                                            *)

LEMMA ImplementsInit == Regime /\ Init => Promise!Init
  <1> SUFFICES ASSUME Regime, Init
               PROVE  Promise!Init
    OBVIOUS
  <1>1. source \subseteq Versions
    BY TypeInit DEF TypeOK
  <1>2. QED
    BY <1>1 DEF Init, Promise!Init

\* A change of the application is a Change of the abstract specification.
LEMMA SourceStepIsChange ==
  ASSUME Regime, IInv, IInv', SourceStep
  PROVE  Promise!Change
  <1>1. source' \subseteq Versions
    BY DEF IInv, TypeOK
  <1>2. UNCHANGED <<copies, checkpoint>>
    BY DEF SourceStep, SourceInsert, SourceUpdate, SourceDelete, AddVersion
  <1>3. checkpoint \in Values /\ Covered(checkpoint)
    BY DEF IInv, TypeOK, SourceInv
  <1>4. ASSUME NEW r \in Rows, NEW v \in Values, v # Null, Rising(v)
        PROVE  checkpoint < Val(<<r, v>>)
    <2>1. /\ <<r, v>> \in Versions /\ Val(<<r, v>>) # Null
          /\ \A y \in history : Val(y) < Val(<<r, v>>)
      BY <1>4 DEF Versions, Val, Rising, AllValues
    <2>2. QED
      BY <1>3, <2>1, NewRowAbove DEF IInv
  <1>5. /\ history' = history \cup source'
        /\ \A x \in source' \ source : Val(x) = Null \/ checkpoint < Val(x)
    <2>1. ASSUME NEW r \in Rows, NEW v \in Values,
                 SourceInsert(r, v) \/ SourceUpdate(r, v)
          PROVE  /\ history' = history \cup source'
                 /\ \A x \in source' \ source : Val(x) = Null \/ checkpoint < Val(x)
      <3>1. Val(<<r, v>>) = Null \/ (v # Null /\ Rising(v))
        BY <2>1 DEF SourceInsert, SourceUpdate, Regime, Val
      <3>2. QED
        BY <1>4, <2>1, <3>1 DEF SourceInsert, SourceUpdate, AddVersion, IInv,
          SourceInv
    <2>2. ASSUME NEW r \in Rows, SourceDelete(r)
          PROVE  history' = history \cup source' /\ source' \subseteq source
      BY <2>2 DEF SourceDelete, IInv, SourceInv
    <2>3. QED
      BY <2>1, <2>2 DEF SourceStep
  <1>6. \A x \in source' \ source : Val(x) = Null \/ Val(x) > checkpoint
    <2>1. \A x \in source' : Val(x) \in Nat
      BY <1>1, VersionParts
    <2>2. checkpoint \in Nat
      BY <1>3, BoundsAssumption DEF Values
    <2>3. QED
      BY <1>5, <2>1, <2>2
  <1>7. QED
    BY <1>1, <1>2, <1>5, <1>6 DEF Promise!Change

\* A committed batch is a Copy.
LEMMA InsertIsCopy ==
  ASSUME IInv, IInv', NEW w \in Workers, pc[w] = "insert", CopyIn(batch[w]),
         UNCHANGED <<source, history, checkpoint>>
  PROVE  Promise!Copy
  <1>1. batch[w] \subseteq history
    BY SelectedSubset DEF IInv, RunInv, ReadInv, ViewInv, Answer
  <1>2. copies' \in [Versions -> 0..2] /\ copies \in [Versions -> 0..2]
    BY DEF IInv, TypeOK
  <1>3. ASSUME NEW x \in Versions
        PROVE  \/ copies'[x] = copies[x]
               \/ x \in history /\ copies'[x] > 0 /\ copies'[x] >= copies[x]
    BY <1>1, <1>2 DEF CopyIn, Smaller
  <1>4. QED
    BY <1>2, <1>3 DEF Promise!Copy

\* Moving the checkpoint is an Advance: what it passes has been copied.
LEMMA CheckpointIsAdvance ==
  ASSUME IInv', UNCHANGED <<source, history, copies>>
  PROVE  Promise!Advance
  BY DEF Promise!Advance, Promise!Kept, IInv, SourceInv, Covered, TypeOK

\* In the regime the runs, with all their faults, keep the promise of
\* TableCopy: at least one copy of every row, and an honest checkpoint.
THEOREM Refinement == Regime => (Spec => Implements)
  <1> SUFFICES ASSUME Regime
               PROVE  Spec => Implements
    OBVIOUS
  <1>1. Init => Promise!Init
    BY ImplementsInit
  <1>2. IInv /\ IInv' /\ [Next]_vars => [Promise!Next]_(Promise!vars)
    <2> SUFFICES ASSUME IInv, IInv', [Next]_vars
                 PROVE  [Promise!Next]_(Promise!vars)
      OBVIOUS
    <2>1. CASE SourceStep
      BY <2>1, SourceStepIsChange DEF Promise!Next
    <2>2. ASSUME NEW w \in Workers, Insert(w) \/ InsertLost(w)
          PROVE  [Promise!Next]_(Promise!vars)
      <3>1. CASE CopyIn(batch[w])
        BY <2>2, <3>1, InsertIsCopy DEF Insert, InsertLost, Promise!Next
      <3>2. CASE UNCHANGED copies
        BY <2>2, <3>2 DEF Insert, InsertLost, Promise!vars
      <3>3. QED
        BY <2>2, <3>1, <3>2 DEF Insert, InsertLost
    <2>3. ASSUME NEW w \in Workers, WriteCheckpoint(w)
          PROVE  [Promise!Next]_(Promise!vars)
      BY <2>3, CheckpointIsAdvance DEF WriteCheckpoint, Promise!Next
    <2>4. ASSUME NEW w \in Workers, Step(w) \/ Reopen(w),
                 ~Insert(w), ~WriteCheckpoint(w)
          PROVE  UNCHANGED Promise!vars
      BY <2>4 DEF Step, Connect, Reopen, Begin, Fetch, InsertRejected,
        SaveProgress, Finish, Promise!vars
    <2>5. ASSUME NEW w \in Workers, FaultStep(w), ~InsertLost(w)
          PROVE  UNCHANGED Promise!vars
      BY <2>5 DEF FaultStep, BeginError, FetchError, InsertError, SaveError,
        CheckpointError, Promise!vars
    <2>6. CASE ResetCheckpoint
      BY <2>6, CheckpointIsAdvance DEF ResetCheckpoint, Promise!Next
    <2>7. CASE Crash \/ PutRight \/ UNCHANGED vars
      BY <2>7 DEF Crash, PutRight, vars, Promise!vars
    <2>8. QED
      BY <2>1, <2>2, <2>3, <2>4, <2>5, <2>6, <2>7 DEF Next
  <1>3. Spec => []IInv
    BY Invariance
  <1>4. QED
    BY <1>1, <1>2, <1>3, PTL DEF Spec, Implements, Promise!Spec

----------------------------------------------------------------------------
(* No row version is copied twice while nothing fails.  A target that has a *)
(* key sees to that by itself; without one, what has been copied lies at or *)
(* below the checkpoint or is what the one run has inserted so far.         *)

Quiet ==
  faults = 0 /\ ~UserResets /\ Cardinality(Workers) = 1 /\ Null \notin AllValues

CopiedUpTo(c, S) == \A x \in Versions : copies[x] > 0 => Val(x) <= c \/ x \in S

Paging == {"fetch", "insert", "save", "checkpoint"}

OwnCopies(w) ==
  /\ pc[w] \notin Paging => CopiedUpTo(checkpoint, {})
  /\ pc[w] \in Paging =>
       /\ cp[w] = checkpoint /\ top[w] >= cp[w]
       /\ CopiedUpTo(cp[w], seen[w])
       /\ \A x \in seen[w] : Val(x) <= top[w]
  /\ pc[w] = "insert" => \A x \in batch[w] : Val(x) <= top[w]

OnceInv ==
  Quiet => /\ \A x \in Versions : copies[x] <= 1
           /\ ~TargetUnique => \A w \in Workers : OwnCopies(w)

LEMMA OneWorker ==
  ASSUME Quiet, NEW w \in Workers, NEW v \in Workers
  PROVE  v = w
  <1>1. \E x : Workers = {x}
    BY FS_Singleton, WorkersAssumption DEF Quiet
  <1>2. QED
    BY <1>1

\* Steps that insert nothing and leave the checkpoint alone.
LEMMA OwnCopiesKept ==
  ASSUME IInv, NEW w \in Workers, OwnCopies(w), UNCHANGED <<copies, checkpoint>>,
         \/ UNCHANGED <<pc, cp, top, seen, batch>>
         \/ Connect(w) \/ Begin(w) \/ SaveProgress(w) \/ Finish(w)
  PROVE  OwnCopies(w)'
  <1>0. /\ pc \in [Workers -> States] /\ checkpoint \in Nat
        /\ cp \in [Workers -> Values] /\ top \in [Workers -> Values]
        /\ seen \in [Workers -> SUBSET Versions]
    BY BoundsAssumption DEF IInv, TypeOK, Values
  <1>1. CASE UNCHANGED <<pc, cp, top, seen, batch>>
    BY <1>1 DEF OwnCopies, CopiedUpTo
  <1>2. CASE Connect(w)
    BY <1>0, <1>2 DEF Connect, OwnCopies, CopiedUpTo, Paging
  <1>3. CASE Begin(w)
    <2>1. /\ pc[w] = "connected" /\ pc'[w] = "fetch" /\ seen' = seen
          /\ cp'[w] = checkpoint /\ top'[w] = checkpoint
      BY <1>0, <1>3 DEF Begin
    <2>2. seen[w] = {}
      BY <2>1 DEF IInv, RunInv
    <2>3. CopiedUpTo(checkpoint, {})
      BY <2>1 DEF OwnCopies, Paging
    <2>4. QED
      BY <1>0, <2>1, <2>2, <2>3 DEF OwnCopies, CopiedUpTo, Paging
  <1>4. CASE SaveProgress(w)
    <2>1. /\ pc[w] = "save" /\ pc'[w] \in {"fetch", "checkpoint"}
          /\ UNCHANGED <<cp, top, seen>>
      BY <1>0, <1>4 DEF SaveProgress
    <2>2. QED
      BY <2>1 DEF OwnCopies, CopiedUpTo, Paging
  <1>5. CASE Finish(w)
    <2>1. pc[w] = "finish" /\ pc'[w] = "idle"
      BY <1>0, <1>5 DEF Finish, Abandon
    <2>2. QED
      BY <2>1 DEF OwnCopies, CopiedUpTo, Paging
  <1>6. QED
    BY <1>1, <1>2, <1>3, <1>4, <1>5

\* A page raises the greatest value to that of its rows.
LEMMA FetchOwn ==
  ASSUME IInv, IInv', NEW w \in Workers, OwnCopies(w), Fetch(w)
  PROVE  OwnCopies(w)'
  <1>0. /\ pc \in [Workers -> States] /\ batch \in [Workers -> SUBSET Versions]
        /\ top \in [Workers -> Values] /\ cp \in [Workers -> Values]
        /\ seen \in [Workers -> SUBSET Versions] /\ Values \subseteq Nat
    BY BoundsAssumption DEF IInv, TypeOK, Values
  <1>1. PICK P \in Pages(Selected(Visible(w), cp[w]), offset[w]), v \in Values :
          /\ batch' = [batch EXCEPT ![w] = P]
          /\ GreatestOf(v, P, top[w])
          /\ top' = [top EXCEPT ![w] = v]
          /\ pc' = [pc EXCEPT ![w] = IF P = {} THEN "checkpoint" ELSE "insert"]
    BY DEF Fetch
  <1>2. /\ pc[w] = "fetch" /\ pc'[w] \in {"insert", "checkpoint"}
        /\ batch'[w] = P /\ top'[w] = v
        /\ UNCHANGED <<copies, checkpoint, cp, seen>>
    BY <1>0, <1>1 DEF Fetch
  <1>3. top[w] <= v /\ \A x \in P : Val(x) <= v
    BY <1>1 DEF GreatestOf
  <1>4. top[w] \in Nat /\ cp[w] \in Nat /\ v \in Nat
    BY <1>0, <1>1
  <1>5. \A x \in seen[w] : Val(x) \in Nat
    BY <1>0, VersionParts
  <1>6. \A x \in seen[w] : Val(x) <= v
    BY <1>2, <1>3, <1>4, <1>5 DEF OwnCopies, Paging
  <1>7. v >= cp[w]
    BY <1>2, <1>3, <1>4 DEF OwnCopies, Paging
  <1>8. QED
    BY <1>2, <1>3, <1>6, <1>7 DEF OwnCopies, CopiedUpTo, Paging

\* A batch holds nothing that has been copied.
LEMMA InsertOwn ==
  ASSUME IInv, Quiet, NEW w \in Workers, OwnCopies(w), Insert(w)
  PROVE  /\ OwnCopies(w)'
         /\ \A x \in batch[w] : x \in Versions /\ copies[x] = 0
  <1>0. /\ pc \in [Workers -> States] /\ batch[w] \subseteq Versions
        /\ seen \in [Workers -> SUBSET Versions] /\ cp[w] \in Nat
        /\ copies \in [Versions -> 0..2]
    BY BoundsAssumption DEF IInv, TypeOK, Values
  <1>1. /\ pc[w] = "insert" /\ pc'[w] = "save"
        /\ seen'[w] = seen[w] \cup batch[w] /\ CopyIn(batch[w])
        /\ UNCHANGED <<checkpoint, cp, top>>
    BY <1>0 DEF Insert
  <1>2. batch[w] \subseteq Answer(w) \ seen[w] /\ Visible(w) \subseteq history
    <2>1. /\ batch[w] \subseteq Answer(w) /\ Visible(w) \subseteq history
          /\ NoNulls(Answer(w)) => batch[w] \cap seen[w] = {}
      BY <1>1 DEF IInv, RunInv, ReadInv, ViewInv
    <2>2. Answer(w) \subseteq history
      BY <2>1, SelectedSubset DEF Answer
    <2>3. NoNulls(Answer(w))
      BY <2>2 DEF Quiet, AllValues, NoNulls
    <2>4. QED
      BY <2>1, <2>3
  <1>3. ASSUME NEW x \in batch[w]
        PROVE  copies[x] = 0
    <2>1. x \in Versions /\ Val(x) \in Nat /\ x \notin seen[w]
      BY <1>0, <1>2, VersionParts
    <2>2. x \in history /\ (cp[w] = Null \/ Val(x) > cp[w])
      BY <1>2 DEF Answer, Selected
    <2>3. Val(x) # Null
      BY <2>2 DEF Quiet, AllValues
    <2>4. Val(x) > cp[w]
      BY <1>0, <2>1, <2>2, <2>3 DEF Null
    <2>5. ~ (Val(x) <= cp[w])
      BY <1>0, <2>1, <2>4
    <2>6. ~ (copies[x] > 0)
      BY <1>1, <2>1, <2>5 DEF OwnCopies, CopiedUpTo, Paging
    <2>7. QED
      BY <1>0, <2>1, <2>6
  <1>4. \A x \in Versions : x \notin batch[w] => copies'[x] = copies[x]
    BY <1>1 DEF CopyIn
  <1>5. OwnCopies(w)'
    <2>1. \A x \in seen[w] \cup batch[w] : Val(x) <= top[w]
      BY <1>1 DEF OwnCopies, Paging
    <2>2. \A x \in Versions : copies'[x] > 0 => Val(x) <= cp[w] \/ x \in seen'[w]
      BY <1>1, <1>4 DEF OwnCopies, CopiedUpTo, Paging
    <2>3. \A x \in seen'[w] : Val(x) <= top'[w]
      BY <1>1, <2>1
    <2>4. cp'[w] = checkpoint' /\ top'[w] >= cp'[w] /\ cp'[w] = cp[w]
      BY <1>1 DEF OwnCopies, Paging
    <2>5. CopiedUpTo(cp[w], seen[w])'
      BY <2>2, <2>4 DEF CopiedUpTo
    <2>6. pc'[w] \in Paging /\ pc'[w] # "insert"
      BY <1>1 DEF Paging
    <2>7. QED
      BY <2>3, <2>4, <2>5, <2>6 DEF OwnCopies
  <1>6. QED
    BY <1>0, <1>3, <1>5

\* The new checkpoint is the greatest value the run has met.
LEMMA WriteOwn ==
  ASSUME IInv, NEW w \in Workers, OwnCopies(w), WriteCheckpoint(w)
  PROVE  OwnCopies(w)'
  <1>0. /\ pc \in [Workers -> States] /\ cp[w] \in Nat /\ top[w] \in Nat
        /\ \A x \in Versions : Val(x) \in Nat
    BY BoundsAssumption, VersionParts DEF IInv, TypeOK, Values
  <1>1. /\ pc[w] = "checkpoint" /\ pc'[w] = "finish"
        /\ checkpoint' = IF NewTop(w) THEN top[w] ELSE checkpoint
        /\ UNCHANGED copies
    BY <1>0 DEF WriteCheckpoint
  <1>2. /\ cp[w] = checkpoint /\ top[w] >= cp[w]
        /\ CopiedUpTo(cp[w], seen[w])
        /\ \A x \in seen[w] : Val(x) <= top[w]
    BY <1>1 DEF OwnCopies, Paging
  <1>3. checkpoint' = top[w]
    BY <1>0, <1>1, <1>2 DEF NewTop, Null
  <1>4. \A x \in Versions : copies[x] > 0 => Val(x) <= top[w]
    <2>1. SUFFICES ASSUME NEW x \in Versions, copies[x] > 0
                   PROVE  Val(x) <= top[w]
      OBVIOUS
    <2>2. Val(x) <= cp[w] \/ x \in seen[w]
      BY <1>2, <2>1 DEF CopiedUpTo
    <2>3. QED
      BY <1>0, <1>2, <2>2
  <1>5. QED
    BY <1>1, <1>3, <1>4 DEF OwnCopies, CopiedUpTo, Paging

LEMMA OnceStep == IInv /\ IInv' /\ OnceInv /\ [Next]_vars => OnceInv'
  <1> SUFFICES ASSUME IInv, IInv', OnceInv, [Next]_vars, Quiet'
               PROVE  /\ \A x \in Versions : copies'[x] <= 1
                      /\ ~TargetUnique => \A w \in Workers : OwnCopies(w)'
    BY DEF OnceInv
  <1>0. faults \in Nat /\ faults' \in Nat /\ copies \in [Versions -> 0..2]
    BY BoundsAssumption DEF IInv, TypeOK
  <1>1. ~ Fault
    BY <1>0 DEF Fault, Quiet
  <1>2. Quiet
    <2>1. faults' = faults
      BY <1>1 DEF Next, SourceStep, SourceInsert, SourceUpdate, SourceDelete, AddVersion,
        Step, Connect, Begin, Fetch, Insert, InsertRejected, SaveProgress, WriteCheckpoint,
        Finish, Reopen, FaultStep, BeginError, FetchError, InsertError, InsertLost,
        SaveError, CheckpointError, ResetCheckpoint, Crash, PutRight, vars
    <2>2. history \subseteq history'
      BY DEF Next, SourceStep, SourceInsert, SourceUpdate, SourceDelete, AddVersion,
        Step, Connect, Begin, Fetch, Insert, InsertRejected, SaveProgress, WriteCheckpoint,
        Finish, Reopen, FaultStep, BeginError, FetchError, InsertError, InsertLost,
        SaveError, CheckpointError, ResetCheckpoint, Crash, PutRight, vars
    <2>3. QED
      BY <2>1, <2>2 DEF Quiet, AllValues
  <1>3. /\ \A x \in Versions : copies[x] <= 1
        /\ ~TargetUnique => \A w \in Workers : OwnCopies(w)
    BY <1>2 DEF OnceInv
  <1>4. CASE SourceStep \/ UNCHANGED vars
    <2>1. UNCHANGED <<copies, checkpoint, pc, cp, top, seen, batch>>
      BY <1>4 DEF SourceStep, SourceInsert, SourceUpdate, SourceDelete, AddVersion,
        runVars, vars
    <2>2. QED
      BY <1>3, <2>1, OwnCopiesKept
  <1>5. ASSUME NEW w \in Workers, Reopen(w) PROVE OnceInv'
    <2>1. UNCHANGED <<copies, checkpoint, pc, cp, top, seen, batch>>
      BY <1>5 DEF Reopen
    <2>2. QED
      BY <1>3, <2>1, OwnCopiesKept DEF OnceInv
  <1>6. ASSUME NEW w \in Workers, Step(w) PROVE OnceInv'
    <2>1. \A v \in Workers : v = w
      BY <1>2, OneWorker
    <2>2. CASE Connect(w) \/ Begin(w) \/ SaveProgress(w) \/ Finish(w)
      <3>1. UNCHANGED <<copies, checkpoint>>
        BY <2>2 DEF Connect, Begin, SaveProgress, Finish
      <3>2. QED
        BY <1>3, <2>1, <2>2, <3>1, OwnCopiesKept DEF OnceInv
    <2>3. CASE Fetch(w)
      <3>1. UNCHANGED copies
        BY <2>3 DEF Fetch
      <3>2. QED
        BY <1>3, <2>1, <2>3, <3>1, FetchOwn DEF OnceInv
    <2>4. CASE WriteCheckpoint(w)
      <3>1. UNCHANGED copies
        BY <2>4 DEF WriteCheckpoint
      <3>2. QED
        BY <1>3, <2>1, <2>4, <3>1, WriteOwn DEF OnceInv
    <2>5. CASE Insert(w)
      <3>1. CopyIn(batch[w]) /\ batch[w] \subseteq Versions
        BY <2>5 DEF Insert, IInv, TypeOK
      <3>2. \A x \in batch[w] : copies[x] = 0
        <4>1. CASE TargetUnique
          <5>1. \A x \in batch[w] : ~ (copies[x] > 0)
            BY <2>5, <3>1, <4>1 DEF Insert, Rejected
          <5>2. QED
            BY <1>0, <3>1, <5>1
        <4>2. CASE ~TargetUnique
          BY <1>2, <1>3, <2>5, <4>2, InsertOwn
        <4>3. QED
          BY <4>1, <4>2
      <3>3. \A x \in Versions : copies'[x] <= 1
        BY <1>0, <1>3, <3>1, <3>2 DEF CopyIn, Smaller
      <3>4. QED
        BY <1>2, <1>3, <2>1, <2>5, <3>3, InsertOwn DEF OnceInv
    <2>6. CASE InsertRejected(w)
      BY <1>3, <2>6 DEF InsertRejected, Rejected, OnceInv
    <2>7. QED
      BY <1>6, <2>2, <2>3, <2>4, <2>5, <2>6 DEF Step
  <1>7. ASSUME NEW w \in Workers, FaultStep(w) PROVE FALSE
    BY <1>1, <1>7 DEF FaultStep, BeginError, FetchError, InsertError, InsertLost,
      SaveError, CheckpointError
  <1>8. CASE ResetCheckpoint \/ Crash
    BY <1>1, <1>2, <1>8 DEF ResetCheckpoint, Crash, Quiet
  <1>10. CASE PutRight
    <2>1. UNCHANGED <<copies, checkpoint, cp, top, seen, batch>>
      BY <1>10 DEF PutRight
    <2>2. \A w \in Workers : pc[w] = "stuck" /\ pc'[w] = "idle"
      BY <1>10 DEF PutRight, Stuck
    <2>3. QED
      BY <1>3, <2>1, <2>2 DEF OwnCopies, CopiedUpTo, Paging
  <1>9. QED
    BY <1>4, <1>5, <1>6, <1>7, <1>8, <1>10 DEF Next, OnceInv

\* In the regime, one run at a time that meets no fault and no reset inserts no
\* row version twice, however many runs there are and whatever is changed.
THEOREM NothingTwice == Regime => (Spec => []NoDoubles)
  <1> SUFFICES ASSUME Regime
               PROVE  Spec => []NoDoubles
    OBVIOUS
  <1>1. Init => OnceInv
    <2> SUFFICES ASSUME Init PROVE OnceInv
      OBVIOUS
    <2>1. \A x \in Versions : copies[x] = 0
      BY DEF Init
    <2>2. \A w \in Workers : OwnCopies(w)
      BY <2>1 DEF Init, OwnCopies, CopiedUpTo, Paging
    <2>3. QED
      BY <2>1, <2>2 DEF OnceInv
  <1>2. OnceInv => NoDoubles
    BY DEF OnceInv, NoDoubles, Quiet
  <1>3. Spec => []IInv
    BY Invariance
  <1>4. QED
    BY <1>1, <1>2, <1>3, OnceStep, PTL DEF Spec

=============================================================================
