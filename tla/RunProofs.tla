----------------------------- MODULE RunProofs -----------------------------
(***************************************************************************)
(* Proofs about SyncRun and ProgressPage, for any number of tables, any    *)
(* sizes, any errors and any number of failures.  They rest on RunInv,     *)
(* which says what a run has done when its control is at a given place.    *)
(***************************************************************************)
EXTENDS ProgressPage, FiniteSetTheorems, TLAPS

\* The control is in sync_table; the loop has been left for good.
TableStages ==
  {"open", "prepare", "batch", "progress", "count", "close", "tablefail"}
Late == {"overwrite", "jobdone", "handler", "jobfail", "done"}

Statuses == {"none", "pending", "running", "completed", "failed"}
Shape(e) ==
  /\ e = [status |-> e.status, tables |-> e.tables, rows |-> e.rows]
  /\ e.status \in Statuses
  /\ e.tables \in Nat
  /\ e.rows \in Nat

RunType ==
  /\ job \in {"pending", "running"} \cup Final
  /\ Shape(row)
  /\ Shape(execution)
  /\ log \in [Tables -> Log]
  /\ enabled \subseteq Tables
  /\ size \in [Tables -> Nat]
  /\ inserted \in [Tables -> Nat]
  /\ left \subseteq enabled
  /\ current \subseteq Tables
  /\ raised \in {"none", "table_sync", "other"}
  /\ faults \in Nat
  /\ pc \in Places

\* The table at hand is the only one, and its log is still open.
AtHand ==
  pc \in TableStages =>
    /\ \A s, t \in current : s = t
    /\ \A t \in current : t \in enabled \ left /\ log[t].status \notin Final

\* Logs are those of enabled tables the loop has come to; while no save has
\* failed, all of them but that of the table at hand have a result, and only an
\* incremental sync leaves a table without one.
LogsOfLoop ==
  /\ \A t \in Tables : log[t] # NoLog => t \in enabled \ left
  /\ faults = 0 =>
       \A t \in enabled \ left :
         \/ log[t].status \in Final
         \/ pc \in TableStages /\ t \in current
         \/ ~full /\ log[t] = NoLog

Emptied == pc = "close" => \A t \in current : inserted[t] = size[t]

TableInv == AtHand /\ LogsOfLoop /\ Emptied /\ CompletedIsWhole

\* Where the status of the execution comes from, and who is to blame.
RowInv ==
  /\ pc \notin Late => row.status \notin Final
  /\ pc \in TableStages \cup {"check", "next"} => execution.status = "running"
  /\ pc = "create" => row.status = "none"
  /\ pc = "jobfail" => row.status \in {"none", "failed"}
  /\ pc = "jobdone" => row.status = "completed"
  /\ pc \in {"handler", "jobfail"} => faults >= 1
  /\ pc = "inner" => raised = "table_sync" \/ faults >= 1

CountInv ==
  /\ row.tables <= Cardinality(Logged("completed"))
  /\ execution.tables <= Cardinality(Logged("completed"))

\* While nothing has failed, the rows in the logs are those that were inserted,
\* but for a batch whose progress is not saved yet, and the execution row, which
\* is the executor's copy of it, counts them all, but for that batch.
BooksInv ==
  faults = 0 =>
    /\ row = execution
    /\ \A t \in Tables :
         log[t].rows = inserted[t] \/ (pc = "progress" /\ t \in current)
    /\ \A t \in left : inserted[t] = 0
    /\ pc = "create" => execution.rows = 0
    /\ pc \notin {"progress", "count"} => execution.rows = SumFunction(inserted)

RunInv ==
  /\ RunType /\ TableInv /\ RowInv /\ CountInv /\ BooksInv
  /\ VerdictIsHonest /\ OutcomesAgree

----------------------------------------------------------------------------
(* The sum of the rows is a fold over the tables, that is a recursive      *)
(* function on the sets of them.                                           *)

\* Induction without a predicate: among some parts of a finite set one has none
\* of the others in it.
LEMMA MinimalPart ==
  ASSUME NEW D, IsFiniteSet(D), NEW B \in SUBSET (SUBSET D), B # {}
  PROVE  \E s \in B : \A u \in B : u \subseteq s => u = s
  <1>1. IsWellFoundedOn(StrictSubsetOrdering(D), SUBSET D)
    BY FS_StrictSubsetOrderingWellFounded, FS_FiniteSubsetsOfFinite
  <1>2. PICK s \in B : \A u \in B : <<u, s>> \notin StrictSubsetOrdering(D)
    BY <1>1, WFMin
  <1>3. \A u \in B : u \subseteq s => u = s
    BY <1>2 DEF StrictSubsetOrdering
  <1>4. QED
    BY <1>3

\* Among some natural numbers one is the least.
LEMMA LeastNatural ==
  ASSUME NEW T \in SUBSET Nat, T # {}
  PROVE  \E n \in T : \A k \in T : n <= k
  <1>1. PICK m \in T : TRUE
    OBVIOUS
  <1> DEFINE D == 0..m
             B == {0..k : k \in T \cap D}
  <1>2. B \in SUBSET (SUBSET D) /\ B # {}
    BY <1>1
  <1>3. IsFiniteSet(D)
    BY FS_Interval
  <1>4. PICK s \in B : \A u \in B : u \subseteq s => u = s
    <2> HIDE DEF B, D
    <2>1. QED
      BY <1>2, <1>3, MinimalPart
  <1>5. PICK n \in T \cap (0..m) : s = 0..n
    BY <1>4
  <1>6. ASSUME NEW k \in T, k < n
        PROVE  FALSE
    <2>1. (0..k) \in B /\ (0..k) \subseteq s /\ n \notin 0..k /\ n \in s
      BY <1>5, <1>6
    <2>2. QED
      BY <1>4, <2>1
  <1>7. QED
    BY <1>5, <1>6

\* The element that Folds takes out of a set first, and what its sum then is: a
\* function on the parts of D that adds it to the sum of the others.
Picked(s) == CHOOSE x \in s : TRUE
Sums(it, f, P) ==
  it = [s \in P |-> IF s = {} THEN 0 ELSE f[Picked(s)] + it[s \ {Picked(s)}]]

\* The sum over the whole of D, as SumFunction has it.
LEMMA SumUnfolds ==
  ASSUME NEW f
  PROVE  SumFunction(f)
           = (CHOOSE it : Sums(it, f, SUBSET DOMAIN f))[DOMAIN f]
  BY DEF SumFunction, SumFunctionOnSet, FoldFunctionOnSet, MapThenFoldSet, Sums, Picked

\* There is such a function, built up from the small parts to the large ones.
LEMMA SumsExist ==
  ASSUME NEW D, IsFiniteSet(D), NEW f
  PROVE  \E it : Sums(it, f, SUBSET D)
  <1> DEFINE Parts(n) == {s \in SUBSET D : Cardinality(s) <= n}
  <1> DEFINE T == {n \in Nat : ~ \E it : Sums(it, f, Parts(n))}
  <1>1. \A s \in SUBSET D : IsFiniteSet(s) /\ Cardinality(s) \in Nat
    BY FS_Subset, FS_CardinalityType
  <1>2. \A s \in SUBSET D : s # {} =>
          /\ Picked(s) \in s
          /\ s \ {Picked(s)} \in SUBSET D
          /\ Cardinality(s \ {Picked(s)}) = Cardinality(s) - 1
    BY <1>1, FS_RemoveElement DEF Picked
  <1>3. 0 \notin T
    <2>1. Parts(0) = {{}}
      BY <1>1, FS_EmptySet
    <2>2. Sums([s \in {{}} |-> 0], f, {{}})
      BY DEF Sums
    <2>3. QED
      BY <2>1, <2>2
  <1>4. ASSUME NEW n \in Nat, n \notin T
        PROVE  n + 1 \notin T
    <2>1. PICK it : Sums(it, f, Parts(n))
      BY <1>4
    <2> DEFINE up == [s \in Parts(n + 1) |->
                        IF s = {} THEN 0 ELSE f[Picked(s)] + it[s \ {Picked(s)}]]
    <2>2. ASSUME NEW s \in Parts(n)
          PROVE  s \in Parts(n + 1) /\ up[s] = it[s]
      <3>1. s \in Parts(n + 1)
        BY <1>1
      <3>2. it[s] = IF s = {} THEN 0 ELSE f[Picked(s)] + it[s \ {Picked(s)}]
        BY <2>1 DEF Sums
      <3>3. QED
        BY <3>1, <3>2
    <2>3. ASSUME NEW s \in Parts(n + 1), s # {}
          PROVE  up[s] = f[Picked(s)] + up[s \ {Picked(s)}]
      <3>1. s \ {Picked(s)} \in Parts(n)
        BY <1>1, <1>2, <2>3
      <3>2. QED
        BY <2>2, <2>3, <3>1
    <2> HIDE DEF Parts
    <2>4. Sums(up, f, Parts(n + 1))
      <3>1. \A s \in Parts(n + 1) :
              up[s] = IF s = {} THEN 0 ELSE f[Picked(s)] + up[s \ {Picked(s)}]
        BY <2>3
      <3>2. DOMAIN up = Parts(n + 1) /\ up = [s \in Parts(n + 1) |-> up[s]]
        OBVIOUS
      <3> HIDE DEF up
      <3>3. QED
        BY <3>1, <3>2, Zenon DEF Sums
    <2>5. QED
      BY <2>4
  <1>5. T = {}
    <2>1. SUFFICES ASSUME T # {} PROVE FALSE
      OBVIOUS
    <2>2. T \in SUBSET Nat
      OBVIOUS
    <2> HIDE DEF T
    <2>3. PICK n \in T : \A k \in T : n <= k
      BY <2>1, <2>2, LeastNatural
    <2>4. n \in Nat /\ n # 0
      BY <1>3, <2>2, <2>3
    <2>5. n - 1 \in Nat /\ n - 1 \notin T
      BY <2>2, <2>3, <2>4
    <2>6. (n - 1) + 1 \notin T
      BY <1>4, <2>5
    <2>7. QED
      BY <2>3, <2>4, <2>6
  <1>6. Cardinality(D) \in Nat /\ Parts(Cardinality(D)) = SUBSET D
    BY FS_Subset, FS_CardinalityType
  <1>7. QED
    BY <1>5, <1>6

\* What the sum adds up: natural numbers give one, and zeros nothing.
LEMMA SumType ==
  ASSUME NEW D, IsFiniteSet(D), NEW f \in [D -> Nat]
  PROVE  /\ SumFunction(f) \in Nat
         /\ (\A x \in D : f[x] = 0) => SumFunction(f) = 0
  <1> DEFINE it == CHOOSE i : Sums(i, f, SUBSET D)
  <1>1. SumFunction(f) = it[D]
    BY SumUnfolds
  <1>2. Sums(it, f, SUBSET D)
    BY SumsExist
  <1> HIDE DEF it
  <1>3. \A s \in SUBSET D :
          it[s] = IF s = {} THEN 0 ELSE f[Picked(s)] + it[s \ {Picked(s)}]
    BY <1>2 DEF Sums
  <1>4. \A s \in SUBSET D : s # {} => Picked(s) \in s
    BY DEF Picked
  <1> DEFINE Good(s) == it[s] \in Nat /\ ((\A x \in D : f[x] = 0) => it[s] = 0)
             B == {s \in SUBSET D : ~Good(s)}
  <1>5. ASSUME NEW s \in B, \A u \in B : u \subseteq s => u = s
        PROVE  FALSE
    <2>1. s # {}
      BY <1>3
    <2>2. Picked(s) \in s /\ s \ {Picked(s)} \in SUBSET D
      BY <1>4, <2>1
    <2>3. Good(s \ {Picked(s)})
      BY <1>5, <2>2
    <2>4. it[s] = f[Picked(s)] + it[s \ {Picked(s)}] /\ f[Picked(s)] \in Nat
      BY <1>3, <2>1, <2>2
    <2>5. Good(s)
      BY <2>2, <2>3, <2>4
    <2>6. QED
      BY <2>5
  <1>6. B = {}
    <2>1. B \in SUBSET (SUBSET D)
      OBVIOUS
    <2> HIDE DEF B
    <2>2. QED
      BY <1>5, <2>1, MinimalPart
  <1>7. QED
    BY <1>1, <1>6

----------------------------------------------------------------------------
(* Types.                                                                  *)

LEMMA SavedShape ==
  ASSUME NEW e, Shape(e), NEW s \in Statuses
  PROVE  /\ Shape([e EXCEPT !.status = s])
         /\ [e EXCEPT !.status = s].status = s
         /\ [e EXCEPT !.status = s].tables = e.tables
         /\ [e EXCEPT !.status = s].rows = e.rows
  BY DEF Shape

LEMMA CountedShape ==
  ASSUME NEW e, Shape(e), NEW n \in Nat, NEW r \in Nat
  PROVE  Shape([e EXCEPT !.tables = n, !.rows = r])
  <1> DEFINE d == [e EXCEPT !.tables = n, !.rows = r]
  <1>1. d.status = e.status /\ d.tables = n /\ d.rows = r
    BY DEF Shape
  <1>2. PICK a, b, c : e = [status |-> a, tables |-> b, rows |-> c]
    BY DEF Shape
  <1>3. [[e EXCEPT !.tables = n] EXCEPT !.rows = r]
          = [status |-> a, tables |-> n, rows |-> r]
    <2>1. [e EXCEPT !.tables = n] = [status |-> a, tables |-> n, rows |-> c]
      BY <1>2
    <2>2. [[status |-> a, tables |-> n, rows |-> c] EXCEPT !.rows = r]
            = [status |-> a, tables |-> n, rows |-> r]
      BY SMTT(60)
    <2>3. QED
      BY <2>1, <2>2
  <1>4. QED
    BY <1>1, <1>3 DEF Shape

LEMMA TypeInit == Init => RunType
  <1> SUFFICES ASSUME Init PROVE RunType
    OBVIOUS
  <1>1. Shape(NoExecution)
    BY DEF Shape, NoExecution, Statuses
  <1>2. log \in [Tables -> Log]
    BY DEF Init, NoLog, Log, Final
  <1>3. size \in [Tables -> Nat] /\ inserted \in [Tables -> Nat]
    BY BoundsAssumption DEF Init
  <1>4. QED
    BY <1>1, <1>2, <1>3 DEF Init, RunType, Places

\* Steps that leave the data of the tables alone.
LEMMA SavesType ==
  ASSUME RunType, NEW s \in Statuses, Save(s) \/ Unsaved(s)
  PROVE  /\ Shape(row') /\ Shape(execution')
         /\ execution'.status = s
         /\ row' = execution' \/ row' = row
         /\ execution'.tables = execution.tables
         /\ execution'.rows = execution.rows
         /\ UNCHANGED <<job, log, inserted, full, enabled, size, left, current>>
  <1>1. Shape(row) /\ Shape(execution)
    BY DEF RunType
  <1>2. execution' = [execution EXCEPT !.status = s]
    BY DEF Save, Unsaved
  <1>3. /\ Shape(execution') /\ execution'.status = s
        /\ execution'.tables = execution.tables
        /\ execution'.rows = execution.rows
    BY <1>1, <1>2, SavedShape
  <1>4. row' = execution' \/ row' = row
    BY DEF Save, Unsaved
  <1>5. Shape(row')
    BY <1>1, <1>3, <1>4
  <1>6. QED
    BY <1>3, <1>4, <1>5 DEF Save, Unsaved, rest

LEMMA ExecutorType ==
  ASSUME RunType,
         CreateExecution \/ MarkRunning \/ Connect \/ Overwrite \/ JobDone
           \/ Handle \/ JobFailed
  PROVE  RunType'
  <1> USE DEF Flow, Fault, Jump, Breaks, Places
  <1>1. CASE CreateExecution
    <2>1. Shape([NoExecution EXCEPT !.status = "pending"])
      BY DEF Shape, NoExecution, Statuses
    <2>2. QED
      BY <1>1, <2>1 DEF CreateExecution, Nothing, rest, RunType
  <1>2. CASE MarkRunning \/ Connect \/ JobDone \/ JobFailed
    BY <1>2
      DEF MarkRunning, Connect, JobDone, JobFailed, Nothing, SaveJob, rest, RunType, Final
  <1>3. CASE Overwrite \/ Handle
    BY <1>3, SavesType DEF Overwrite, Handle, RunType, Statuses
  <1>4. QED
    BY <1>1, <1>2, <1>3

LEMMA LoopType ==
  ASSUME RunType,
         Start \/ NoTables \/ Check \/ Conclude \/ Inner
           \/ TableError \/ Prepare \/ \E t \in Tables : Open(t)
  PROVE  RunType'
  <1> USE DEF Flow, Fault, Jump, Breaks, Places
  <1>1. CASE Start \/ NoTables \/ Inner
    BY <1>1, SavesType DEF Start, NoTables, Inner, RunType, Statuses
  <1>2. CASE Conclude
    <2>1. Verdict \in Statuses
      BY DEF Verdict, Statuses
    <2>2. QED
      BY <1>2, <2>1, SavesType DEF Conclude, RunType
  <1>3. CASE Check \/ TableError \/ Prepare
    BY <1>3 DEF Check, TableError, Prepare, Nothing, rest, RunType
  <1>4. ASSUME NEW t \in Tables, Open(t)
        PROVE  RunType'
    <2>1. [log EXCEPT ![t] = [status |-> "pending", rows |-> 0]] \in [Tables -> Log]
      BY DEF RunType, Log
    <2>2. QED
      BY <1>4, <2>1 DEF Open, RunType
  <1>5. QED
    BY <1>1, <1>2, <1>3, <1>4

LEMMA RowsLoggedType == RunType => RowsLogged \in Nat
  <1> SUFFICES ASSUME RunType PROVE RowsLogged \in Nat
    OBVIOUS
  <1>1. [t \in Tables |-> log[t].rows] \in [Tables -> Nat]
    BY DEF RunType, Log
  <1>2. QED
    BY <1>1, SumType, TablesAssumption DEF RowsLogged

LEMMA SyncTableType ==
  ASSUME RunType, NEW t \in current, SyncTable(t)
  PROVE  RunType'
  <1> USE DEF Flow, Fault, Jump, Breaks, Places
  <1>1. t \in Tables
    BY DEF RunType
  <1>2. ASSUME NEW s \in Statuses, SaveLog(t, s)
        PROVE  log' \in [Tables -> Log]
    BY <1>1, <1>2 DEF SaveLog, RunType, Log, Statuses, Final
  <1>3. CASE LogRunning(t) \/ SaveProgress(t) \/ Close(t) \/ TableFailed(t)
    BY <1>2, <1>3
      DEF LogRunning, SaveProgress, Close, TableFailed, SaveLog, Nothing, rest,
          RunType, Statuses
  <1>4. CASE Batch(t) \/ LastBatch(t)
    BY <1>1, <1>4 DEF Batch, LastBatch, Nothing, rest, RunType
  <1>5. CASE Count(t)
    <2>1. Cardinality(Logged("completed")) \in Nat
      BY TablesAssumption, FS_Subset, FS_CardinalityType DEF Logged
    <2>2. Shape(Counted)
      BY <2>1, RowsLoggedType, CountedShape DEF Counted, RunType
    <2>3. Shape(execution') /\ Shape(row')
      BY <1>5, <2>2 DEF Count, RunType
    <2>4. /\ pc' \in Places /\ raised' \in {"none", "table_sync", "other"}
          /\ faults' \in Nat
      BY <1>5 DEF Count, RunType
    <2>5. UNCHANGED <<job, log, inserted, enabled, size, left, current>>
      BY <1>5 DEF Count, rest
    <2>6. QED
      BY <2>3, <2>4, <2>5 DEF RunType
  <1>6. QED
    BY <1>3, <1>4, <1>5 DEF SyncTable

LEMMA TypeStep == RunType /\ [Next]_vars => RunType'
  <1> SUFFICES ASSUME RunType, [Next]_vars PROVE RunType'
    OBVIOUS
  <1>1. CASE UNCHANGED vars
    BY <1>1 DEF vars, RunType
  <1>2. QED
    BY <1>1, ExecutorType, LoopType, SyncTableType DEF Next

----------------------------------------------------------------------------
(* The tables.                                                             *)

\* Steps that leave the tables and their logs alone: the control stays in the
\* loop or out of it, or something has failed.
LEMMA TablesKept ==
  ASSUME RunType, TableInv,
         UNCHANGED <<full, log, inserted, enabled, size, left, current>>,
         faults' \in Nat, faults <= faults',
         pc' \in TableStages => pc \in TableStages,
         pc' = "close" => pc = "close",
         pc \in TableStages => pc' \in TableStages \/ faults' # 0
  PROVE  TableInv'
  <1>1. AtHand'
    BY DEF TableInv, AtHand
  <1>2. faults' = 0 => faults = 0
    BY DEF RunType
  <1>3. LogsOfLoop'
    BY <1>2 DEF TableInv, LogsOfLoop
  <1>4. Emptied' /\ CompletedIsWhole'
    BY DEF TableInv, Emptied, CompletedIsWhole, Logged
  <1>5. QED
    BY <1>1, <1>3, <1>4 DEF TableInv

LEMMA ExecutorTables ==
  ASSUME RunType, TableInv,
         CreateExecution \/ MarkRunning \/ Connect \/ Overwrite \/ JobDone
           \/ Handle \/ JobFailed
           \/ Start \/ NoTables \/ Check \/ Conclude \/ Inner
  PROVE  TableInv'
  <1> USE DEF Flow, Fault, Jump, Breaks, Places, TableStages
  <1>1. UNCHANGED <<full, log, inserted, enabled, size, left, current>>
    BY DEF CreateExecution, MarkRunning, Connect, Overwrite, JobDone, Handle,
           JobFailed, Start, NoTables, Check, Conclude, Inner,
           Save, Unsaved, SaveJob, Nothing, rest
  <1>2. /\ faults' \in Nat /\ faults <= faults'
        /\ pc \notin TableStages /\ pc' \notin TableStages
    <2>1. CASE CreateExecution \/ MarkRunning \/ Connect \/ Overwrite
                 \/ JobDone \/ Handle \/ JobFailed
      BY <2>1 DEF CreateExecution, MarkRunning, Connect, Overwrite,
                         JobDone, Handle, JobFailed, RunType
    <2>2. CASE Start \/ NoTables \/ Check \/ Conclude \/ Inner
      BY <2>2 DEF Start, NoTables, Check, Conclude, Inner, RunType
    <2>3. QED
      BY <2>1, <2>2
  <1>3. QED
    BY <1>1, <1>2, TablesKept

LEMMA OpenTables ==
  ASSUME RunType, TableInv, NEW t \in Tables, Open(t)
  PROVE  TableInv'
  <1> USE DEF Flow, Fault, Places, TableStages
  <1>1. /\ t \in left /\ left' = left \ {t} /\ t \in enabled
        /\ UNCHANGED <<full, enabled, size, inserted>>
        /\ log[t] = NoLog
    BY DEF Open, TableInv, LogsOfLoop, RunType
  <1>2. CASE Flow("next", "open") /\ current' = {t}
             /\ log' = [log EXCEPT ![t] = [status |-> "pending", rows |-> 0]]
    <2>1. pc = "next" /\ pc' = "open" /\ UNCHANGED faults
      BY <1>2 DEF Jump
    <2>2. /\ log'[t].status = "pending"
          /\ \A u \in Tables \ {t} : log'[u] = log[u]
      BY <1>2 DEF RunType
    <2>3. AtHand'
      BY <1>1, <1>2, <2>1, <2>2 DEF AtHand, Final
    <2>4. LogsOfLoop'
      BY <1>1, <1>2, <2>1, <2>2 DEF TableInv, LogsOfLoop, RunType
    <2>5. Emptied'
      BY <2>1 DEF Emptied
    <2>6. CompletedIsWhole'
      BY <1>1, <2>2 DEF TableInv, CompletedIsWhole, Logged
    <2>7. QED
      BY <2>3, <2>4, <2>5, <2>6 DEF TableInv
  <1>3. CASE Fault("next", "next", raised) /\ UNCHANGED <<current, log>>
    <2>1. /\ pc = "next" /\ pc' = "next"
          /\ faults' = faults + 1 /\ faults' # 0
      BY <1>3 DEF RunType, Breaks, Jump
    <2>2. QED
      BY <1>1, <1>3, <2>1
        DEF TableInv, AtHand, LogsOfLoop, Emptied, CompletedIsWhole, Logged
  <1>4. CASE Flow("next", "next") /\ ~full /\ UNCHANGED <<current, log>>
    <2>1. pc = "next" /\ pc' = "next" /\ UNCHANGED <<faults, full>>
      BY <1>1, <1>4 DEF Jump
    <2>2. QED
      BY <1>1, <1>4, <2>1
        DEF TableInv, AtHand, LogsOfLoop, Emptied, CompletedIsWhole, Logged
  <1>5. QED
    BY <1>2, <1>3, <1>4 DEF Open

LEMMA PlainTables ==
  ASSUME RunType, TableInv, TableError \/ Prepare
  PROVE  TableInv'
  <1> USE DEF Flow, Places, TableStages
  <1>1. /\ UNCHANGED <<full, log, inserted, enabled, size, left, current, faults>>
        /\ pc \in TableStages /\ pc' \in TableStages /\ pc' # "close"
    BY DEF TableError, Prepare, Nothing, rest, Jump
  <1>2. QED
    BY <1>1, TablesKept DEF RunType

\* A log is saved while its table is at hand.
LEMMA SaveLogTables ==
  ASSUME RunType, TableInv, NEW t \in current, NEW s \in Statuses,
         SaveLog(t, s), pc \in TableStages, UNCHANGED faults,
         s = "completed" => pc = "close",
         pc' # "close",
         pc' \in TableStages => s \notin Final,
         pc' \notin TableStages => s \in Final,
         s # "none"
  PROVE  TableInv'
  <1>1. /\ t \in Tables
        /\ \A u \in current : u = t
        /\ UNCHANGED <<full, inserted, enabled, size, left, current>>
    BY DEF RunType, TableInv, AtHand, SaveLog, rest
  <1>2. /\ log'[t].status = s /\ log'[t].rows = inserted[t]
        /\ \A u \in Tables \ {t} : log'[u] = log[u]
    BY <1>1 DEF SaveLog, RunType
  <1>3. AtHand'
    BY <1>1, <1>2 DEF TableInv, AtHand
  <1>4. LogsOfLoop'
    <2>1. t \in enabled \ left
      BY DEF TableInv, AtHand
    <2>2. QED
      BY <1>1, <1>2, <2>1 DEF TableInv, LogsOfLoop, RunType
  <1>5. Emptied'
    BY DEF Emptied
  <1>6. CompletedIsWhole'
    BY <1>1, <1>2 DEF TableInv, CompletedIsWhole, Logged, Emptied
  <1>7. QED
    BY <1>3, <1>4, <1>5, <1>6 DEF TableInv

LEMMA SyncTableTables ==
  ASSUME RunType, TableInv, NEW t \in current, SyncTable(t)
  PROVE  TableInv'
  <1> USE DEF Flow, Fault, Jump, Breaks, TableStages
  <1>1. CASE \/ Flow("open", "prepare") /\ SaveLog(t, "running")
             \/ Flow("progress", "count") /\ SaveLog(t, "running")
             \/ Flow("close", "next") /\ SaveLog(t, "completed")
             \/ Flow("tablefail", "next") /\ SaveLog(t, "failed")
    BY <1>1, SaveLogTables DEF Final, Statuses
  <1>2. CASE /\ pc \in TableStages
             /\ \/ pc' \in TableStages \ {"close"}
                \/ pc' \notin TableStages /\ faults' = faults + 1
             /\ faults' = faults \/ faults' = faults + 1
             /\ UNCHANGED <<full, log, inserted, enabled, size, left, current>>
    BY <1>2, TablesKept DEF RunType
  <1>3. CASE Batch(t)
    <2>1. /\ pc = "batch" /\ pc' = "progress" /\ UNCHANGED faults
          /\ UNCHANGED <<full, log, enabled, size, left, current>>
          /\ inserted' = [inserted EXCEPT ![t] = @ + 1]
      BY <1>3 DEF Batch, rest
    <2>2. log[t].status \notin Final
      BY <2>1 DEF TableInv, AtHand
    <2>3. CompletedIsWhole'
      BY <2>1, <2>2 DEF TableInv, CompletedIsWhole, Logged, RunType, Final
    <2>4. AtHand' /\ LogsOfLoop' /\ Emptied'
      BY <2>1 DEF TableInv, AtHand, LogsOfLoop, Emptied
    <2>5. QED
      BY <2>3, <2>4 DEF TableInv
  <1>4. CASE LastBatch(t)
    <2>1. /\ pc = "batch" /\ pc' = "close" /\ UNCHANGED faults
          /\ UNCHANGED <<full, log, inserted, enabled, size, left, current>>
          /\ inserted[t] = size[t]
      BY <1>4 DEF LastBatch, Nothing, rest
    <2>2. Emptied'
      BY <2>1 DEF TableInv, AtHand, Emptied
    <2>3. QED
      BY <2>1, <2>2
        DEF TableInv, AtHand, LogsOfLoop, CompletedIsWhole, Logged
  <1>5. QED
    <2>1. CASE LogRunning(t) \/ SaveProgress(t)
      BY <1>1, <1>2, <2>1 DEF LogRunning, SaveProgress, Nothing, rest
    <2>2. CASE Close(t) \/ TableFailed(t)
      BY <1>1, <1>2, <2>2 DEF Close, TableFailed, Nothing, rest
    <2>3. CASE Count(t)
      BY <1>2, <2>3 DEF Count, rest
    <2>4. QED
      BY <1>3, <1>4, <2>1, <2>2, <2>3 DEF SyncTable

LEMMA TableStep == RunType /\ TableInv /\ [Next]_vars => TableInv'
  <1> SUFFICES ASSUME RunType, TableInv, [Next]_vars PROVE TableInv'
    OBVIOUS
  <1>1. CASE UNCHANGED vars
    BY <1>1 DEF vars, TableInv, AtHand, LogsOfLoop, Emptied, CompletedIsWhole,
                Logged
  <1>2. QED
    BY <1>1, ExecutorTables, OpenTables, PlainTables, SyncTableTables DEF Next

\* No table that is completed ever ceases to be.
LEMMA CompletedStay ==
  ASSUME RunType, TableInv, [Next]_vars
  PROVE  Logged("completed") \subseteq Logged("completed")'
  <1>1. ASSUME UNCHANGED log
        PROVE  Logged("completed") \subseteq Logged("completed")'
    BY <1>1 DEF Logged
  <1>2. ASSUME NEW t \in Tables, Open(t)
        PROVE  Logged("completed") \subseteq Logged("completed")'
    <2>1. log[t].status = "none"
      BY <1>2 DEF Open, TableInv, LogsOfLoop, NoLog
    <2>2. \A u \in Tables \ {t} : log'[u] = log[u]
      BY <1>2 DEF Open, RunType
    <2>3. QED
      BY <2>1, <2>2 DEF Logged
  <1>3. ASSUME NEW t \in current, NEW s, SaveLog(t, s), pc \in TableStages
        PROVE  Logged("completed") \subseteq Logged("completed")'
    <2>1. log[t].status # "completed"
      BY <1>3 DEF TableInv, AtHand, Final
    <2>2. \A u \in Tables \ {t} : log'[u] = log[u]
      BY <1>3 DEF SaveLog, RunType
    <2>3. QED
      BY <2>1, <2>2 DEF Logged
  <1>4. ASSUME NEW t \in current, SyncTable(t)
        PROVE  Logged("completed") \subseteq Logged("completed")'
    BY <1>1, <1>3, <1>4
      DEF SyncTable, LogRunning, Batch, SaveProgress, Count, LastBatch, Close,
          TableFailed, Nothing, Flow, Jump, TableStages
  <1>5. QED
    BY <1>1, <1>2, <1>4
      DEF Next, vars, CreateExecution, MarkRunning, Connect, Overwrite, JobDone,
          Handle, JobFailed, Start, NoTables, Check, Conclude, Inner,
          TableError, Prepare, Save, Unsaved, SaveJob, Nothing

LEMMA CountUp ==
  ASSUME RunType, TableInv, [Next]_vars
  PROVE  /\ Cardinality(Logged("completed")) \in Nat
         /\ Cardinality(Logged("completed"))' \in Nat
         /\ Cardinality(Logged("completed")) <= Cardinality(Logged("completed"))'
  <1>1. IsFiniteSet(Logged("completed")')
    BY TablesAssumption, FS_Subset DEF Logged
  <1>2. QED
    BY <1>1, CompletedStay, FS_Subset, FS_CardinalityType

----------------------------------------------------------------------------
(* The execution and the job.                                              *)

LEMMA CountedTables ==
  ASSUME RunType
  PROVE  Counted.tables = Cardinality(Logged("completed"))
         /\ Counted.status = execution.status
         /\ Counted.rows = RowsLogged
  BY DEF RunType, Shape, Counted

LEMMA CountStep ==
  ASSUME RunType, TableInv, CountInv, [Next]_vars
  PROVE  CountInv'
  <1> DEFINE n == Cardinality(Logged("completed"))
  <1>1. n \in Nat /\ n' \in Nat /\ n <= n'
    BY CountUp
  <1>2. row.tables \in Nat /\ execution.tables \in Nat
    BY DEF RunType, Shape
  <1>3. \/ execution'.tables \in {0, execution.tables}
             /\ row'.tables \in {0, execution.tables, row.tables}
        \/ execution'.tables = n /\ row'.tables \in {n, row.tables}
    <2>1. CASE CreateExecution
      BY <2>1, SavedShape DEF CreateExecution, NoExecution, Nothing
    <2>2. CASE \E t \in current : Count(t)
      BY <2>2, CountedTables DEF Count
    <2>3. ASSUME NEW s \in Statuses, Save(s) \/ Unsaved(s)
          PROVE  /\ execution'.tables = execution.tables
                 /\ row'.tables \in {execution.tables, row.tables}
      BY <2>3, SavesType
    <2>4. CASE Overwrite \/ Handle \/ Start \/ NoTables \/ Conclude \/ Inner
      BY <2>3, <2>4
        DEF Overwrite, Handle, Start, NoTables, Conclude, Inner, Verdict, Statuses
    <2>5. CASE UNCHANGED <<row, execution>>
      BY <2>5
    <2>6. QED
      BY <2>1, <2>2, <2>4, <2>5
        DEF Next, vars, MarkRunning, Connect, JobDone, JobFailed, Check, Open,
            SyncTable, LogRunning, Batch, SaveProgress, LastBatch, Close,
            TableFailed, TableError, Prepare, SaveLog, SaveJob, Nothing
  <1>4. QED
    BY <1>1, <1>2, <1>3 DEF CountInv

\* A step of the loop or of sync_table does not end the execution.
LEMMA LoopRow ==
  ASSUME RunType, RowInv,
         Check \/ TableError \/ Prepare \/ (\E t \in Tables : Open(t))
           \/ \E t \in current : SyncTable(t)
  PROVE  RowInv' /\ pc \notin Late /\ pc' \notin Late
  <1> USE DEF Flow, Fault, Jump, Breaks, TableStages, Late
  <1>1. CASE Check \/ TableError \/ Prepare \/ \E t \in Tables : Open(t)
    BY <1>1 DEF Check, TableError, Prepare, Open, Nothing, RowInv, RunType
  <1>2. ASSUME NEW t \in current, SyncTable(t)
        PROVE  RowInv' /\ pc \notin Late /\ pc' \notin Late
    <2>1. CASE Count(t)
      <3>1. execution.status = "running" /\ row.status \notin Final
        BY <2>1 DEF Count, RowInv
      <3>2. execution'.status = "running" /\ row'.status \notin Final
        BY <2>1, <3>1, CountedTables DEF Count, Final
      <3>3. QED
        BY <2>1, <3>2 DEF Count, RowInv
    <2>2. CASE LogRunning(t) \/ SaveProgress(t) \/ Close(t) \/ TableFailed(t)
      BY <2>2 DEF LogRunning, SaveProgress, Close, TableFailed, SaveLog,
                  Nothing, RowInv
    <2>3. CASE Batch(t) \/ LastBatch(t)
      BY <2>3 DEF Batch, LastBatch, Nothing, RowInv
    <2>4. QED
      BY <1>2, <2>1, <2>2, <2>3 DEF SyncTable
  <1>3. QED
    BY <1>1, <1>2

LEMMA RowStep ==
  ASSUME RunType, RowInv, [Next]_vars
  PROVE  RowInv'
  <1> USE DEF Flow, Fault, Jump, Breaks, TableStages, Late
  <1>1. ASSUME NEW s \in Statuses, Save(s)
        PROVE  row'.status = s /\ execution'.status = s
    BY <1>1, SavesType DEF Save
  <1>2. ASSUME NEW s \in Statuses, Unsaved(s)
        PROVE  row'.status = row.status
    BY <1>2 DEF Unsaved
  <1>3. CASE CreateExecution
    BY <1>3 DEF CreateExecution, Nothing, NoExecution, RowInv, RunType, Final
  <1>4. CASE MarkRunning \/ Connect \/ JobDone \/ JobFailed
    BY <1>4 DEF MarkRunning, Connect, JobDone, JobFailed, SaveJob, Nothing,
                RowInv, RunType
  <1>5. CASE Overwrite \/ Handle
    BY <1>1, <1>2, <1>5 DEF Overwrite, Handle, RowInv, RunType, Statuses
  <1>6. CASE Start
    BY <1>1, <1>2, <1>6 DEF Start, RowInv, RunType, Statuses, Final
  <1>7. CASE NoTables \/ Conclude \/ Inner
    <2>1. Verdict \in Statuses
      BY DEF Verdict, Statuses
    <2>2. /\ pc \in {"check", "next", "inner"}
          /\ pc' \in {"overwrite", "inner", "done", "handler"}
          /\ pc' = "inner" => row'.status = row.status
          /\ pc' \in {"inner", "handler"} => faults' = faults + 1 \/ faults' = faults
          /\ pc' = "handler" => faults' >= 1
          /\ pc' = "inner" => faults' >= 1
      BY <1>1, <1>2, <1>7, <2>1
        DEF NoTables, Conclude, Inner, RowInv, RunType, Statuses
    <2>3. QED
      BY <2>2 DEF RowInv
  <1>8. CASE UNCHANGED vars
    BY <1>8 DEF vars, RowInv
  <1>9. QED
    BY <1>3, <1>4, <1>5, <1>6, <1>7, <1>8, LoopRow DEF Next

LEMMA OutcomesStep ==
  ASSUME RunType, RowInv, OutcomesAgree, [Next]_vars
  PROVE  OutcomesAgree'
  <1> USE DEF Flow, Fault, Jump, Breaks
  <1>1. CASE JobDone \/ JobFailed
    BY <1>1 DEF JobDone, JobFailed, SaveJob, Nothing, RowInv, RunType,
                OutcomesAgree, Final
  <1>2. CASE Handle
    BY <1>2 DEF Handle, RowInv, RunType, OutcomesAgree
  <1>3. CASE Inner
    BY <1>3 DEF Inner, OutcomesAgree
  <1>4. CASE UNCHANGED vars
    BY <1>4 DEF vars, OutcomesAgree
  <1>5. CASE CreateExecution \/ MarkRunning \/ Connect \/ Overwrite
             \/ Start \/ NoTables \/ Conclude
    BY <1>5 DEF CreateExecution, MarkRunning, Connect, Overwrite, Start,
                NoTables, Conclude, OutcomesAgree
  <1>6. CASE Check \/ TableError \/ Prepare \/ (\E t \in Tables : Open(t))
             \/ \E t \in current : SyncTable(t)
    BY <1>6, LoopRow DEF OutcomesAgree, Late
  <1>7. QED
    BY <1>1, <1>2, <1>3, <1>4, <1>5, <1>6 DEF Next

LEMMA VerdictStep ==
  ASSUME RunType, TableInv, RowInv, VerdictIsHonest, [Next]_vars
  PROVE  VerdictIsHonest'
  <1> USE DEF Flow, Fault, Jump, Breaks, Late
  <1>1. CASE NoTables
    BY <1>1 DEF NoTables, VerdictIsHonest, TableInv, LogsOfLoop, RunType,
                Logged, Save, Unsaved, rest, NoLog
  <1>2. CASE Conclude
    <2>1. UNCHANGED <<log, enabled, full>>
      BY <1>2 DEF Conclude, Save, Unsaved, rest
    <2>2. ASSUME pc' = "overwrite", row'.status = "completed"
          PROVE  UNCHANGED faults /\ pc = "next" /\ Verdict = "completed"
      <3>1. Verdict \in Statuses
        BY DEF Verdict, Statuses
      <3>2. /\ pc = "next" /\ UNCHANGED faults /\ Save(Verdict)
        BY <1>2, <2>2 DEF Conclude
      <3>3. QED
        BY <2>2, <3>1, <3>2, SavesType DEF Save
    <2>3. ASSUME full, faults = 0, left = {}, pc = "next", Logged("failed") = {}
          PROVE  Logged("completed") = enabled
      BY <2>3 DEF TableInv, LogsOfLoop, RunType, Logged, Final, TableStages, NoLog
    <2>4. QED
      BY <1>2, <2>1, <2>2, <2>3
        DEF Conclude, VerdictIsHonest, Verdict, Logged
  <1>3. CASE pc' # "overwrite"
    BY <1>3 DEF VerdictIsHonest
  <1>4. CASE UNCHANGED vars
    BY <1>4 DEF vars, VerdictIsHonest, Logged
  <1>5. CASE Check \/ TableError \/ Prepare \/ (\E t \in Tables : Open(t))
             \/ \E t \in current : SyncTable(t)
    BY <1>5, <1>3, LoopRow
  <1>6. QED
    BY <1>1, <1>2, <1>3, <1>4, <1>5
      DEF Next, CreateExecution, MarkRunning, Connect, Overwrite, JobDone,
          Handle, JobFailed, Start, Inner

----------------------------------------------------------------------------
(* The books.                                                              *)

\* A save of the execution, or of nothing that is counted.
LEMMA BooksKept ==
  ASSUME RunType, BooksInv, faults = 0,
         UNCHANGED <<log, inserted>>, left' \subseteq left,
         pc \notin {"progress", "count"}, pc' \notin {"progress", "create"},
         row' = execution', execution'.rows = execution.rows
  PROVE  BooksInv'
  BY DEF BooksInv, RunType

LEMMA ExecutorBooks ==
  ASSUME RunType, BooksInv, faults' = 0,
         CreateExecution \/ MarkRunning \/ Connect \/ Overwrite \/ JobDone
           \/ Handle \/ JobFailed
           \/ Start \/ NoTables \/ Check \/ Conclude \/ Inner
  PROVE  BooksInv'
  <1> USE DEF Flow, Fault, Jump, Breaks
  <1>1. ASSUME NEW n \in Nat, n + 1 = 0
        PROVE  FALSE
    BY <1>1
  <1>2. faults \in Nat /\ (faults = 0 => row = execution)
    BY DEF RunType, BooksInv
  <1>3. ASSUME NEW s \in Statuses, Save(s), faults = 0,
               pc \notin {"progress", "count"}, pc' \notin {"progress", "create"}
        PROVE  BooksInv'
    <2>1. /\ UNCHANGED <<log, inserted, left>> /\ row' = execution'
          /\ execution'.rows = execution.rows
      BY <1>3, SavesType DEF Save
    <2>2. QED
      BY <1>3, <2>1, BooksKept
  <1>4. ASSUME UNCHANGED <<row, execution, log, inserted, left>>, faults = 0,
               pc \notin {"progress", "count"}, pc' \notin {"progress", "create"}
        PROVE  BooksInv'
    BY <1>2, <1>4, BooksKept
  <1>5. CASE CreateExecution
    <2>1. /\ faults = 0 /\ pc = "create" /\ pc' = "mark"
          /\ execution' = [NoExecution EXCEPT !.status = "pending"]
          /\ row' = execution'
          /\ UNCHANGED <<log, inserted, left>>
      BY <1>1, <1>2, <1>5 DEF CreateExecution, Nothing, rest
    <2>2. execution'.rows = 0 /\ execution.rows = 0
      BY <2>1 DEF NoExecution, BooksInv
    <2>3. QED
      BY <2>1, <2>2, BooksKept
  <1>6. CASE MarkRunning \/ Connect \/ JobDone \/ JobFailed \/ Check
    <2>1. /\ faults = 0 /\ UNCHANGED <<row, execution, log, inserted, left>>
          /\ pc \notin {"progress", "count"} /\ pc' \notin {"progress", "create"}
      BY <1>1, <1>2, <1>6
        DEF MarkRunning, Connect, JobDone, JobFailed, Check, SaveJob, Nothing, rest
    <2>2. QED
      BY <1>4, <2>1
  <1>7. CASE Overwrite \/ Handle \/ Start \/ NoTables \/ Inner
    BY <1>1, <1>2, <1>3, <1>7 DEF Overwrite, Handle, Start, NoTables, Inner, Statuses
  <1>8. CASE Conclude
    <2>1. Verdict \in Statuses
      BY DEF Verdict, Statuses
    <2>2. QED
      BY <1>1, <1>2, <1>3, <1>8, <2>1 DEF Conclude
  <1>9. QED
    BY <1>5, <1>6, <1>7, <1>8

LEMMA LoopBooks ==
  ASSUME RunType, TableInv, BooksInv, faults' = 0,
         TableError \/ Prepare \/ \E t \in Tables : Open(t)
  PROVE  BooksInv'
  <1> USE DEF Flow, Fault, Jump, Breaks
  <1>1. CASE TableError \/ Prepare
    <2>1. /\ faults = 0 /\ UNCHANGED <<row, execution, log, inserted, left>>
          /\ pc \notin {"progress", "count"} /\ pc' \notin {"progress", "create"}
      BY <1>1 DEF TableError, Prepare, Nothing, rest
    <2>2. QED
      BY <2>1, BooksKept DEF BooksInv
  <1>2. ASSUME NEW t \in Tables, Open(t)
        PROVE  BooksInv'
    <2>1. /\ faults = 0 /\ pc = "next" /\ pc' \in {"open", "next"} /\ t \in left
          /\ left' = left \ {t} /\ UNCHANGED <<row, execution, inserted>>
          /\ \/ log' = [log EXCEPT ![t] = [status |-> "pending", rows |-> 0]]
             \/ log' = log
      BY <1>2 DEF Open, RunType
    <2>2. \A u \in Tables : log'[u].rows = inserted[u]
      BY <2>1 DEF BooksInv, RunType
    <2>3. QED
      BY <2>1, <2>2 DEF BooksInv
  <1>3. QED
    BY <1>1, <1>2

LEMMA SyncTableBooks ==
  ASSUME RunType, TableInv, BooksInv, faults' = 0, NEW t \in current, SyncTable(t)
  PROVE  BooksInv'
  <1> USE DEF Flow, Fault, Jump, Breaks
  <1>1. /\ t \in Tables /\ faults \in Nat /\ faults + 1 # 0
        /\ pc \in TableStages => t \notin left /\ \A u \in current : u = t
    BY DEF RunType, TableInv, AtHand
  <1>2. ASSUME NEW s, SaveLog(t, s), faults = 0, pc # "count",
               pc \in TableStages, pc' \notin {"progress", "create"},
               pc = "progress" => pc' = "count"
        PROVE  BooksInv'
    <2>1. /\ \A u \in Tables : log'[u].rows = inserted[u]
          /\ UNCHANGED <<row, execution, inserted, left>>
      BY <1>1, <1>2 DEF SaveLog, rest, RunType, BooksInv
    <2>2. QED
      BY <1>2, <2>1 DEF BooksInv
  <1>3. CASE LogRunning(t) \/ SaveProgress(t) \/ Close(t) \/ TableFailed(t)
    BY <1>1, <1>2, <1>3
      DEF LogRunning, SaveProgress, Close, TableFailed, TableStages
  <1>4. CASE Batch(t)
    <2>1. /\ pc = "batch" /\ pc' = "progress" /\ faults = 0
          /\ inserted' = [inserted EXCEPT ![t] = @ + 1]
          /\ UNCHANGED <<row, execution, log, left, current>>
      BY <1>4 DEF Batch, rest
    <2>2. \A u \in Tables \ {t} : inserted'[u] = inserted[u]
      BY <2>1 DEF RunType
    <2>3. t \notin left
      BY <1>1, <2>1 DEF TableStages
    <2>4. QED
      BY <2>1, <2>2, <2>3 DEF BooksInv, RunType
  <1>5. CASE Count(t)
    <2>1. /\ pc = "count" /\ pc' = "batch" /\ faults = 0
          /\ execution' = Counted /\ row' = execution'
          /\ UNCHANGED <<log, inserted, left>>
      BY <1>1, <1>5 DEF Count, rest
    <2>2. \A u \in Tables : log[u].rows = inserted[u]
      BY <2>1 DEF BooksInv
    <2>3. inserted = [u \in Tables |-> inserted[u]]
      BY DEF RunType
    <2>4. [u \in Tables |-> log[u].rows] = inserted
      BY <2>2, <2>3
    <2>5. Counted.rows = SumFunction(inserted)
      BY <2>4, CountedTables DEF RowsLogged
    <2>6. QED
      BY <2>1, <2>2, <2>5 DEF BooksInv, RunType
  <1>6. CASE LastBatch(t)
    <2>1. /\ faults = 0 /\ UNCHANGED <<row, execution, log, inserted, left>>
          /\ pc = "batch" /\ pc' = "close"
      BY <1>6 DEF LastBatch, Nothing, rest
    <2>2. QED
      BY <2>1, BooksKept DEF BooksInv
  <1>7. QED
    BY <1>3, <1>4, <1>5, <1>6 DEF SyncTable

LEMMA BooksStep ==
  ASSUME RunType, TableInv, BooksInv, [Next]_vars
  PROVE  BooksInv'
  <1>1. CASE UNCHANGED vars
    BY <1>1 DEF vars, BooksInv
  <1>2. CASE faults' # 0
    BY <1>2 DEF BooksInv
  <1>3. QED
    BY <1>1, <1>2, ExecutorBooks, LoopBooks, SyncTableBooks DEF Next

----------------------------------------------------------------------------
(* All of it.                                                              *)

LEMMA RunInit == Init => RunInv
  <1> SUFFICES ASSUME Init PROVE RunInv
    OBVIOUS
  <1>1. RunType
    BY TypeInit
  <1>2. \A t \in Tables : log[t].status = "none"
    BY DEF Init, NoLog
  <1>3. Cardinality(Logged("completed")) = 0
    BY <1>2, FS_EmptySet DEF Logged
  <1>4. row.status = "none" /\ row.tables = 0 /\ execution.tables = 0
    BY DEF Init, NoExecution
  <1>5. BooksInv
    <2>1. \A t \in Tables : log[t].rows = 0 /\ inserted[t] = 0
      BY DEF Init, NoLog
    <2>2. SumFunction(inserted) = 0
      BY <1>1, <2>1, SumType, TablesAssumption DEF RunType
    <2>3. row = execution /\ execution.rows = 0 /\ left \subseteq Tables
      BY DEF Init, NoExecution
    <2>4. QED
      BY <2>1, <2>2, <2>3 DEF BooksInv
  <1>6. QED
    BY <1>1, <1>2, <1>3, <1>4, <1>5
      DEF Init, RunInv, TableInv, AtHand, LogsOfLoop, Emptied,
          CompletedIsWhole, RowInv, CountInv, VerdictIsHonest, OutcomesAgree,
          TableStages, Late, Logged, Final

LEMMA RunStep == RunInv /\ [Next]_vars => RunInv'
  BY TypeStep, TableStep, RowStep, CountStep, BooksStep, VerdictStep, OutcomesStep
    DEF RunInv

\* A run of any size keeps the invariant.
LEMMA RunKept == Spec => []RunInv
  BY RunInit, RunStep, PTL DEF Spec

----------------------------------------------------------------------------
(* What it shows of a run.                                                 *)

\* A log that says 'completed' is that of a table whose rows have all been
\* inserted, and counts them, whatever failed before.
THEOREM CompletedWhole == Spec => []CompletedIsWhole
  BY RunKept, PTL DEF RunInv, TableInv

\* When a sync calls its execution completed, each enabled table is.
THEOREM VerdictHonest == Spec => []VerdictIsHonest
  BY RunKept, PTL DEF RunInv

\* With one failure at most, job and execution end alike and not as running.
THEOREM EndAlike == Spec => []OutcomesAgree
  BY RunKept, PTL DEF RunInv

\* The execution row never counts more tables than are completed.
THEOREM ProgressBehind == Spec => []NeverAhead
  <1>1. RunInv => NeverAhead
    BY DEF RunInv, CountInv, NeverAhead
  <1>2. QED
    BY <1>1, RunKept, PTL

\* At the end of a run in which every save has succeeded, the execution row
\* counts every row that was inserted, and each table the run came to has a
\* result, or else neither a log nor a row, which only an incremental sync does.
THEOREM BooksAreBalanced == Spec => []BooksBalance
  <1>1. ASSUME RunInv
        PROVE  BooksBalance
    <2>1. NeverAhead
      BY <1>1 DEF RunInv, CountInv, NeverAhead
    <2>2. ASSUME pc = "done", faults = 0
          PROVE  /\ \A t \in enabled \ left :
                      log[t].status \in Final \/ (~full /\ Unlogged(t))
                 /\ row.rows = SumFunction(inserted)
      <3>1. /\ \A t \in Tables : log[t].rows = inserted[t]
            /\ row.rows = SumFunction(inserted) /\ enabled \subseteq Tables
        BY <1>1, <2>2 DEF RunInv, RunType, BooksInv
      <3>2. \A t \in enabled \ left :
              log[t].status \in Final \/ (~full /\ log[t] = NoLog)
        BY <1>1, <2>2 DEF RunInv, TableInv, LogsOfLoop, TableStages
      <3>3. QED
        BY <3>1, <3>2 DEF Unlogged, NoLog
    <2>3. QED
      BY <2>1, <2>2 DEF BooksBalance
  <1>2. QED
    BY <1>1, RunKept, PTL

----------------------------------------------------------------------------
(* The run as JobLifecycle knows it.                                        *)

LEMMA StageMoves ==
  ASSUME NEW a, NEW b, Stage = a, Stage' = b
  PROVE  Control!Moves("run", a, b)
  BY DEF Control!Moves, Control!Go

\* Between calls that JobLifecycle does not tell apart nothing happens to it.
LEMMA StageStays ==
  ASSUME Stage' = Stage, job' = job
  PROVE  UNCHANGED Control!vars
  BY DEF Control!vars, Control!rows

\* A step of the thread, or a stutter, or a failure that leaves the job alone.
Controlled ==
  \/ Control!Step("run")
  \/ UNCHANGED Control!vars
  \/ faults' = faults + 1 /\ job' = job

\* execute: each save of the job is one of JobLifecycle's.
LEMMA ExecutorControls ==
  ASSUME RunType,
         \/ CreateExecution \/ MarkRunning \/ Connect \/ Overwrite \/ JobDone
         \/ Handle \/ JobFailed
  PROVE  Controlled
  <1>0. job # "deleted"
    BY DEF RunType, Final
  <1>1. CASE CreateExecution
    <2>1. CASE Flow("create", "mark") /\ job' = job
      <3>1. Stage = "create" /\ Stage' = "mark"
        BY <2>1 DEF Flow, Jump, Stage
      <3>2. Control!Moves("run", "create", "mark")
        BY <3>1, StageMoves
      <3>3. Control!CreateExecution("run")
        BY <1>0, <2>1, <3>2 DEF Control!CreateExecution, Control!rows
      <3>4. QED
        BY <3>3 DEF Controlled, Control!Step
    <2>2. CASE Fault("create", "jobfail", "other") /\ Nothing
      BY <2>2 DEF Fault, Breaks, Nothing, Controlled
    <2>3. QED
      BY <1>1, <2>1, <2>2 DEF CreateExecution
  <1>2. CASE MarkRunning
    <2>1. CASE Flow("mark", "connect") /\ SaveJob("running")
      <3>1. Stage = "mark" /\ Stage' = "sync" /\ job' = "running"
        BY <2>1 DEF Flow, Jump, Stage, SaveJob
      <3>2. Control!Moves("run", "mark", "sync")
        BY <3>1, StageMoves
      <3>3. Control!MarkRunning("run")
        BY <3>1, <3>2 DEF Control!MarkRunning
      <3>4. QED
        BY <3>3 DEF Controlled, Control!Step
    <2>2. CASE Fault("mark", "handler", "other") /\ Nothing
      BY <2>2 DEF Fault, Breaks, Nothing, Controlled
    <2>3. QED
      BY <1>2, <2>1, <2>2 DEF MarkRunning
  <1>3. CASE Connect
    <2>1. CASE Flow("connect", "start") /\ Nothing
      <3>1. Stage' = Stage /\ job' = job
        BY <2>1 DEF Flow, Jump, Stage, Nothing
      <3>2. QED
        BY <3>1, StageStays DEF Controlled
    <2>2. CASE Breaks("connect", "handler", "other") /\ Nothing
      BY <2>2 DEF Breaks, Nothing, Controlled
    <2>3. QED
      BY <1>3, <2>1, <2>2 DEF Connect
  <1>4. CASE Overwrite
    <2>1. CASE Flow("overwrite", "jobdone") /\ Save("completed")
      <3>1. Stage = "sync" /\ Stage' = "completed" /\ job' = job
        BY <2>1 DEF Flow, Jump, Stage, Save
      <3>2. Control!Moves("run", "sync", "completed")
        BY <3>1, StageMoves
      <3>3. Control!SyncOk("run")
        BY <1>0, <3>1, <3>2 DEF Control!SyncOk, Control!rows
      <3>4. QED
        BY <3>3 DEF Controlled, Control!Step
    <2>2. CASE Fault("overwrite", "handler", "other") /\ Unsaved("completed")
      BY <2>2 DEF Fault, Breaks, Unsaved, Controlled
    <2>3. QED
      BY <1>4, <2>1, <2>2 DEF Overwrite
  <1>5. CASE JobDone
    <2>1. CASE Flow("jobdone", "done") /\ SaveJob("completed")
      <3>1. Stage = "completed" /\ Stage' = "idle" /\ job' = "completed"
        BY <2>1 DEF Flow, Jump, Stage, SaveJob
      <3>2. Control!Moves("run", "completed", "idle")
        BY <3>1, StageMoves
      <3>3. Control!SaveResult("run")
        BY <3>1, <3>2 DEF Control!SaveResult
      <3>4. QED
        BY <3>3 DEF Controlled, Control!Step
    <2>2. CASE Fault("jobdone", "handler", "other") /\ Nothing
      BY <2>2 DEF Fault, Breaks, Nothing, Controlled
    <2>3. QED
      BY <1>5, <2>1, <2>2 DEF JobDone
  <1>6. CASE Handle
    <2>1. CASE Flow("handler", "jobfail") /\ Save("failed")
      <3>1. Stage = "sync" /\ Stage' = "failed" /\ job' = job
        BY <2>1 DEF Flow, Jump, Stage, Save
      <3>2. Control!Moves("run", "sync", "failed")
        BY <3>1, StageMoves
      <3>3. Control!SyncFails("run")
        BY <1>0, <3>1, <3>2 DEF Control!SyncFails, Control!rows
      <3>4. QED
        BY <3>3 DEF Controlled, Control!Step
    <2>2. CASE Fault("handler", "done", "other") /\ Unsaved("failed")
      BY <2>2 DEF Fault, Breaks, Unsaved, Controlled
    <2>3. QED
      BY <1>6, <2>1, <2>2 DEF Handle
  <1>7. CASE JobFailed
    <2>1. CASE Flow("jobfail", "done") /\ SaveJob("failed")
      <3>1. Stage = "failed" /\ Stage' = "idle" /\ job' = "failed"
        BY <2>1 DEF Flow, Jump, Stage, SaveJob
      <3>2. Control!Moves("run", "failed", "idle")
        BY <3>1, StageMoves
      <3>3. Control!SaveResult("run")
        BY <3>1, <3>2 DEF Control!SaveResult
      <3>4. QED
        BY <3>3 DEF Controlled, Control!Step
    <2>2. CASE Fault("jobfail", "done", "other") /\ Nothing
      BY <2>2 DEF Fault, Breaks, Nothing, Controlled
    <2>3. QED
      BY <1>7, <2>1, <2>2 DEF JobFailed
  <1>8. QED
    BY <1>1, <1>2, <1>3, <1>4, <1>5, <1>6, <1>7

\* The executors: all of it is one stage, left by an error of a table.
InSync == {"start", "check", "next", "overwrite", "inner", "handler"} \cup TableStages

LEMMA SyncControls ==
  ASSUME RunType,
         \/ Start \/ NoTables \/ Check \/ Conclude \/ Inner \/ TableError \/ Prepare
         \/ \E t \in Tables : Open(t)
         \/ \E t \in current : SyncTable(t)
  PROVE  Controlled
  <1>1. job' = job /\ job # "deleted"
    BY DEF Start, NoTables, Check, Conclude, Inner, TableError, Prepare, Open, SyncTable,
      LogRunning, Batch, SaveProgress, Count, LastBatch, Close, TableFailed, Save, Unsaved,
      Nothing, SaveLog, RunType, Final
  <1>2. pc \in InSync
    BY DEF Start, NoTables, Check, Conclude, Inner, TableError, Prepare, Open, SyncTable,
      LogRunning, Batch, SaveProgress, Count, LastBatch, Close, TableFailed,
      Fault, Breaks, Flow, Jump, InSync, TableStages
  <1>3. pc' \in InSync \/ (pc = "inner" /\ pc' = "done")
    BY DEF Start, NoTables, Check, Conclude, Inner, TableError, Prepare, Open, SyncTable,
      LogRunning, Batch, SaveProgress, Count, LastBatch, Close, TableFailed,
      Fault, Breaks, Flow, Jump, InSync, TableStages
  <1>4. Stage = "sync"
    BY <1>2 DEF InSync, TableStages, Stage
  <1>5. CASE pc' \in InSync
    <2>1. Stage' = "sync"
      BY <1>5 DEF InSync, TableStages, Stage
    <2>2. QED
      BY <1>1, <1>4, <2>1, StageStays DEF Controlled
  <1>6. CASE pc' = "done"
    <2>1. Stage' = "idle"
      BY <1>6 DEF Stage
    <2>2. Control!Moves("run", "sync", "idle")
      BY <1>4, <2>1, StageMoves
    <2>3. Control!SyncTableError("run")
      BY <1>1, <2>2 DEF Control!SyncTableError, Control!rows
    <2>4. QED
      BY <2>3 DEF Controlled, Control!Step
  <1>7. QED
    BY <1>3, <1>5, <1>6

\* Whatever the run does is what JobLifecycle lets a thread do with the job.
THEOREM RunIsControlled == Spec => ControlsJob
  <1>1. ASSUME RunType, [Next]_vars
        PROVE  [Control!Next \/ (faults' = faults + 1 /\ job' = job)]_(Control!vars)
    <2>1. CASE UNCHANGED vars
      <3>1. Stage' = Stage /\ job' = job
        BY <2>1 DEF vars, Stage
      <3>2. QED
        BY <3>1, StageStays
    <2>2. CASE Next
      <3>1. Controlled
        BY <1>1, <2>2, ExecutorControls, SyncControls DEF Next
      <3>2. Control!Step("run") => Control!Next
        BY DEF Control!Next
      <3>3. QED
        BY <3>1, <3>2 DEF Controlled
    <2>3. QED
      BY <1>1, <2>1, <2>2
  <1>2. Spec => []RunType
    BY RunKept, PTL DEF RunInv
  <1>3. QED
    BY <1>1, <1>2, PTL DEF Spec, ControlsJob

----------------------------------------------------------------------------
(* The page.  A status that is final is one the loop has been left with,   *)
(* and after that the logs stay as they are.                               *)

PageType ==
  /\ page \in {"closed", "loading", "open"}
  /\ shown \in View
  /\ visible \in BOOLEAN
  /\ polling \in BOOLEAN
  /\ request \in {"none", "sent", "half"}
  /\ answer \in Seen

PageInv ==
  /\ PageType
  /\ page # "open" => visible /\ ~polling /\ request = "none"
  /\ page = "closed" => shown.status \notin Final
  /\ answer \in Final => pc \in Late
  /\ shown.status \in Final => pc \in Late
  /\ ResultIsWhole

LEMMA PageStart == PageInit => PageInv
  <1> SUFFICES ASSUME PageInit PROVE PageInv
    OBVIOUS
  <1>1. NoView \in View /\ NoView.status = "none"
    BY DEF NoView, View, Seen, NoLog, Log, Final
  <1>2. QED
    BY <1>1 DEF PageInit, PageInv, PageType, ResultIsWhole, Seen, Final

\* Once the loop has been left, the logs stay as they are.
LEMMA LateStays ==
  ASSUME RunInv, [Next]_vars, pc \in Late
  PROVE  pc' \in Late /\ log' = log
  <1> USE DEF Flow, Fault, Jump, Breaks, Late
  <1>1. CASE UNCHANGED vars
    BY <1>1 DEF vars
  <1>2. CASE Check \/ TableError \/ Prepare \/ (\E t \in Tables : Open(t))
             \/ \E t \in current : SyncTable(t)
    BY <1>2, LoopRow DEF RunInv
  <1>3. CASE CreateExecution \/ MarkRunning \/ Connect \/ Start \/ NoTables
             \/ Conclude \/ Inner
    BY <1>3 DEF CreateExecution, MarkRunning, Connect, Start, NoTables,
                Conclude, Inner
  <1>4. CASE Overwrite \/ JobDone \/ Handle \/ JobFailed
    BY <1>4 DEF Overwrite, JobDone, Handle, JobFailed, Save, Unsaved, SaveJob,
                Nothing
  <1>5. QED
    BY <1>1, <1>2, <1>3, <1>4 DEF Next

LEMMA RunUnderPage ==
  ASSUME RunInv, PageInv, [Next]_vars, UNCHANGED pageVars
  PROVE  PageInv'
  <1>1. pc \in Late => pc' \in Late /\ log' = log
    BY LateStays
  <1>2. QED
    BY <1>1 DEF PageInv, PageType, ResultIsWhole, pageVars

LEMMA WatchStep ==
  ASSUME RunInv, PageInv, Watch, UNCHANGED vars
  PROVE  PageInv'
  <1> USE DEF PageInv, PageType
  <1>1. /\ row.status \in Seen /\ log \in [Tables -> Log]
        /\ row.status \in Final => pc \in Late
        /\ UNCHANGED <<row, log, pc>>
    BY DEF RunInv, RunType, RowInv, Shape, Statuses, Seen, Final, vars
  <1>2. CASE Load
    <2>1. shown' \in View /\ shown'.status = row.status
      BY <1>1, <1>2 DEF Load, View
    <2>2. QED
      BY <1>1, <1>2, <2>1 DEF Load, ResultIsWhole
  <1>3. CASE Rendered
    <2>1. /\ shown' \in View /\ shown'.status = shown.status
          /\ shown'.logs = log
      BY <1>1, <1>3 DEF Rendered, View
    <2>2. /\ polling' \in BOOLEAN
          /\ shown.status \in Final => ~polling'
      BY <1>3 DEF Rendered, Final
    <2>3. request' \in {"none", "sent"} /\ (~polling' => request' = "none")
      BY <1>3 DEF Rendered
    <2>4. QED
      BY <1>1, <1>3, <2>1, <2>2, <2>3 DEF Rendered, ResultIsWhole
  <1>4. CASE Tick \/ ReadRow
    BY <1>1, <1>4 DEF Tick, ReadRow, ResultIsWhole
  <1>5. CASE Update
    <2>1. /\ shown' \in View /\ shown'.status = answer /\ shown'.logs = log
      BY <1>1, <1>5 DEF Update, View
    <2>2. polling' \in BOOLEAN /\ (answer \in Final => ~polling')
      BY <1>5 DEF Update
    <2>3. "none" \in Seen /\ "none" \notin Final
      BY DEF Seen, Final
    <2>4. QED
      BY <1>1, <1>5, <2>1, <2>2, <2>3 DEF Update, ResultIsWhole
  <1>6. CASE Lose
    BY <1>1, <1>6 DEF Lose, ResultIsWhole, Seen, Final
  <1>7. CASE Hide
    BY <1>1, <1>7 DEF Hide, ResultIsWhole
  <1>8. CASE Return
    <2>1. polling' \in BOOLEAN /\ (shown.status \in Final => polling' = polling)
      BY <1>8 DEF Return, Final
    <2>2. page = "open"
      BY <1>8 DEF Return
    <2>3. QED
      BY <1>1, <1>8, <2>1, <2>2 DEF Return, ResultIsWhole
  <1>9. QED
    BY <1>2, <1>3, <1>4, <1>5, <1>6, <1>7, <1>8 DEF Watch

\* The run under the page is SyncRun's, and keeps its invariant.
LEMMA PageKept == PageSpec => [](RunInv /\ PageInv)
  <1>1. PageInit => RunInv /\ PageInv
    BY RunInit, PageStart DEF PageInit
  <1>2. RunInv /\ PageInv /\ [PageNext]_<<vars, pageVars>>
          => (RunInv /\ PageInv)'
    <2> SUFFICES ASSUME RunInv, PageInv, [PageNext]_<<vars, pageVars>>
                 PROVE  (RunInv /\ PageInv)'
      OBVIOUS
    <2>1. [Next]_vars
      BY DEF PageNext
    <2>2. RunInv'
      BY <2>1, RunStep
    <2>3. PageInv'
      <3>1. CASE UNCHANGED pageVars
        BY <2>1, <3>1, RunUnderPage
      <3>2. CASE Watch /\ UNCHANGED vars
        BY <3>2, WatchStep
      <3>3. QED
        BY <3>1, <3>2 DEF PageNext
    <2>4. QED
      BY <2>2, <2>3
  <1>3. QED
    BY <1>1, <1>2, PTL DEF PageSpec

\* A page that shows a result has stopped asking, and shows each log as the run
\* has left it.
THEOREM PageShowsResult == PageSpec => []ResultIsWhole
  BY PageKept, PTL DEF PageInv

=============================================================================
