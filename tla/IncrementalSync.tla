-------------------------- MODULE IncrementalSync --------------------------
(***************************************************************************)
(* The incremental sync of ONE table: sync_table in                        *)
(* sync_engine/incremental_sync.py with the checkpoint row it reads and    *)
(* writes (checkpoint_manager.py), the retries around its reads and writes *)
(* (retry.py) and the source and target databases as the connectors use    *)
(* them (connectors/postgres.py, mysql.py, sqlserver.py).                  *)
(*                                                                         *)
(* A run reads the checkpoint once, pages through                          *)
(*     SELECT .. WHERE col > checkpoint ORDER BY col, pk LIMIT n OFFSET k  *)
(* one statement per batch, inserts and commits every batch on its own,    *)
(* and writes the greatest value it has fetched as the new checkpoint only *)
(* after the last batch.  Meanwhile the application that owns the source   *)
(* goes on changing it, any call may fail, and the process may die.        *)
(*                                                                         *)
(* A row version is a pair <<pk, val>>: the row's primary key and the      *)
(* value of its incremental column.  The other columns are not told apart. *)
(***************************************************************************)
EXTENDS Integers, FiniteSets

CONSTANTS
  Rows,           \* primary keys a source row may have
  MaxVal,         \* bound: values of the incremental column are 1..MaxVal
  Workers,        \* threads that may be running this job at the same time
  BatchSize,      \* DEFAULT_BATCH_SIZE
  MaxFaults,      \* bound: failed calls, lost connections and crashes
  Changes,        \* what the application does to the source, see below
  NullRows,       \* may the incremental column be NULL?
  NullsFirst,     \* where ORDER BY puts NULL: MySQL, SQL Server; not Postgres
  HasPrimaryKey,  \* does the source table have one (ORDER BY col, pk)?
  UserResets,     \* does the user reset the checkpoint now and then?
  SnapshotReads,  \* MySQL, REPEATABLE READ: a run's statements share a view
  TargetUnique    \* was the target created beforehand, with that primary key?

\* "append": inserts a row whose value exceeds every value so far.
\* "tie":    inserts a row whose value equals the greatest so far.
\* "update": gives a row a new value that exceeds every value so far.
\* "delete": deletes a row.
ChangeKinds == {"append", "tie", "update", "delete"}

ASSUME RowsAssumption == Rows \subseteq Nat /\ IsFiniteSet(Rows)
ASSUME WorkersAssumption == IsFiniteSet(Workers)
ASSUME BoundsAssumption == /\ MaxVal \in Nat
                           /\ BatchSize \in Nat \ {0}
                           /\ MaxFaults \in Nat
ASSUME ChangesAssumption == Changes \subseteq ChangeKinds
ASSUME FlagsAssumption ==
  {NullRows, NullsFirst, HasPrimaryKey, UserResets, SnapshotReads,
   TargetUnique}
    \subseteq BOOLEAN

Null == 0                        \* no checkpoint; a NULL incremental column
Values == 0 .. MaxVal
Versions == Rows \X Values
MaxAttempts == 3                 \* retry_on_error(max_retries=3)

Pk(x) == x[1]
Val(x) == x[2]

VARIABLES
  source,      \* the row versions now in the source table
  history,     \* every row version the source has ever held
  copies,      \* copies[x]: rows x of the target table, 2 = more than one
  checkpoint,  \* SyncCheckpoint.last_value of the job and table
  faults,      \* faults so far
  pc,          \* where each worker is in sync_table
  cp,          \* checkpoint_value, as the run read it
  view,        \* the source as the run's transaction sees it (SnapshotReads)
  offset,      \* offset
  batch,       \* batch
  top,         \* max_incremental_value
  attempt,     \* failed attempts of the call in progress
  due,         \* history: the versions to be synced when the run began
  seen         \* history: the versions the run has fetched and inserted

runVars == <<pc, cp, view, offset, batch, top, attempt, due, seen>>
vars == <<source, history, copies, checkpoint, faults,
          pc, cp, view, offset, batch, top, attempt, due, seen>>

\* "stuck": the job was left with the status 'running', and is not started.
States == {"idle", "connected", "fetch", "insert", "save", "checkpoint",
           "finish", "stuck"}

TypeOK ==
  /\ source \subseteq Versions
  /\ history \subseteq Versions
  /\ copies \in [Versions -> 0..2]
  /\ checkpoint \in Values
  /\ faults \in 0..MaxFaults
  /\ pc \in [Workers -> States]
  /\ cp \in [Workers -> Values]
  /\ view \in [Workers -> SUBSET Versions]
  /\ offset \in [Workers -> Nat]
  /\ batch \in [Workers -> SUBSET Versions]
  /\ top \in [Workers -> Values]
  /\ attempt \in [Workers -> 0..(MaxAttempts - 1)]
  /\ due \in [Workers -> SUBSET Versions]
  /\ seen \in [Workers -> SUBSET Versions]

----------------------------------------------------------------------------
(* What a SELECT returns.                                                  *)

\* x comes before y in every answer to ORDER BY col, pk (or ORDER BY col).
Before(x, y) ==
  \/ Val(x) # Val(y) /\ Val(x) # Null /\ Val(y) # Null /\ Val(x) < Val(y)
  \/ Val(x) # Val(y) /\ Val(x) = Null /\ NullsFirst
  \/ Val(x) # Val(y) /\ Val(y) = Null /\ ~NullsFirst
  \/ Val(x) = Val(y) /\ HasPrimaryKey /\ Pk(x) < Pk(y)

\* No row of T comes before a row of S: S can be answered ahead of T.
Ahead(S, T) == \A x \in S, y \in T : ~Before(y, x)

\* Mutants: WHERE col >= checkpoint; a checkpoint rounded up to the next value.
SelectedFrom(S, c) == IF c = Null THEN S ELSE {x \in S : Val(x) >= c}
SelectedBeyond(S, c) == IF c = Null THEN S ELSE {x \in S : Val(x) > c + 1}

\* WHERE col > checkpoint; WHERE 1=1 when there is no checkpoint.
Selected(S, c) == IF c = Null THEN S ELSE {x \in S : Val(x) > c}

\* Mutant: the next page starts one row too late.
OffsetTooFar(k) == k + BatchSize + 1

\* offset += batch_size
NextOffset(k) == k + BatchSize

\* if len(batch) < batch_size: break
LastBatch(P) == Cardinality(P) < BatchSize

Smaller(m, n) == IF m <= n THEN m ELSE n

\* The answers the database may give to LIMIT BatchSize OFFSET k over S: some
\* k rows are skipped, the batch follows, the rest comes after.
Pages(S, k) ==
  {P \in SUBSET S :
    \E K \in SUBSET (S \ P) :
      /\ Cardinality(K) = Smaller(k, Cardinality(S))
      /\ Cardinality(P) = Smaller(BatchSize, Cardinality(S) - Cardinality(K))
      /\ Ahead(K, S \ K)
      /\ Ahead(P, S \ (K \cup P))}

Visible(w) == IF SnapshotReads THEN view[w] ELSE source

\* v is the greatest of m and the values of P; NULL is below every value.
GreatestOf(v, P, m) ==
  /\ v \in {Val(x) : x \in P} \cup {m}
  /\ \A u \in {Val(x) : x \in P} \cup {m} : u <= v

----------------------------------------------------------------------------
(* The application that owns the source database.                          *)

AllValues == {Val(x) : x \in history}
Rising(v) == \A u \in AllValues : u < v
Present(r) == \E x \in source : Pk(x) = r

AddVersion(kept, x) ==
  /\ source' = kept \cup {x}
  /\ history' = history \cup {x}
  /\ UNCHANGED <<copies, checkpoint, faults, runVars>>

\* A new row is committed.
SourceInsert(r, v) ==
  /\ ~Present(r)
  /\ \A x \in history : Pk(x) # r
  /\ \/ "append" \in Changes /\ v # Null /\ Rising(v)
     \/ "tie" \in Changes /\ v \in AllValues /\ \A u \in AllValues : u <= v
     \/ NullRows /\ v = Null
  /\ AddVersion(source, <<r, v>>)

\* A row is changed; its incremental column (updated_at) moves forward.
SourceUpdate(r, v) ==
  /\ "update" \in Changes
  /\ Present(r)
  /\ v # Null /\ Rising(v)
  /\ AddVersion({x \in source : Pk(x) # r}, <<r, v>>)

\* A row is deleted.
SourceDelete(r) ==
  /\ "delete" \in Changes
  /\ Present(r)
  /\ source' = {x \in source : Pk(x) # r}
  /\ UNCHANGED <<history, copies, checkpoint, faults, runVars>>

----------------------------------------------------------------------------
(* sync_table.                                                             *)

Fault == faults < MaxFaults /\ faults' = faults + 1

\* The except branch: the log is marked failed, the checkpoint is not touched.
Abandon(w) ==
  /\ pc' = [pc EXCEPT ![w] = "idle"]
  /\ cp' = [cp EXCEPT ![w] = Null]
  /\ view' = [view EXCEPT ![w] = {}]
  /\ offset' = [offset EXCEPT ![w] = 0]
  /\ batch' = [batch EXCEPT ![w] = {}]
  /\ top' = [top EXCEPT ![w] = Null]
  /\ attempt' = [attempt EXCEPT ![w] = 0]
  /\ due' = [due EXCEPT ![w] = {}]
  /\ seen' = [seen EXCEPT ![w] = {}]

\* retry_on_error: call again, or give up after the third failure.
Retry(w) ==
  \/ /\ attempt[w] + 1 < MaxAttempts
     /\ attempt' = [attempt EXCEPT ![w] = @ + 1]
     /\ UNCHANGED <<pc, cp, view, offset, batch, top, due, seen>>
  \/ /\ attempt[w] + 1 = MaxAttempts
     /\ Abandon(w)

\* The execution is connected and turns to this table.  A MySQL transaction may
\* have been opened by then, for an earlier table of the job.
Connect(w) ==
  /\ pc[w] = "idle"
  /\ pc' = [pc EXCEPT ![w] = "connected"]
  /\ view' = [view EXCEPT ![w] = IF SnapshotReads THEN source ELSE {}]
  /\ UNCHANGED <<source, history, copies, checkpoint, faults,
                 cp, offset, batch, top, attempt, due, seen>>

\* Or it has not: the view is that of the first row read, at the latest.
Reopen(w) ==
  /\ SnapshotReads
  /\ pc[w] \in {"connected", "fetch"}
  /\ offset[w] = 0
  /\ view' = [view EXCEPT ![w] = source]
  /\ UNCHANGED <<source, history, copies, checkpoint, faults,
                 pc, cp, offset, batch, top, attempt, due, seen>>

\* The column, the target table or the checkpoint cannot be had.
BeginError(w) ==
  /\ pc[w] = "connected"
  /\ Fault
  /\ Abandon(w)
  /\ UNCHANGED <<source, history, copies, checkpoint>>

\* The target table exists; the checkpoint is read, the query built.
Begin(w) ==
  /\ pc[w] = "connected"
  /\ pc' = [pc EXCEPT ![w] = "fetch"]
  /\ cp' = [cp EXCEPT ![w] = checkpoint]
  /\ top' = [top EXCEPT ![w] = checkpoint]
  /\ due' = [due EXCEPT ![w] = Selected(Visible(w), checkpoint)]
  /\ UNCHANGED <<source, history, copies, checkpoint, faults,
                 view, offset, batch, attempt, seen>>

\* A statement returns the next batch, or no rows: leave the loop.
Fetch(w) ==
  /\ pc[w] = "fetch"
  /\ \E P \in Pages(Selected(Visible(w), cp[w]), offset[w]) :
       /\ batch' = [batch EXCEPT ![w] = P]
       /\ \E v \in Values : /\ GreatestOf(v, P, top[w])
                            /\ top' = [top EXCEPT ![w] = v]
       /\ pc' = [pc EXCEPT ![w] = IF P = {} THEN "checkpoint" ELSE "insert"]
  /\ attempt' = [attempt EXCEPT ![w] = 0]
  /\ UNCHANGED <<source, history, copies, checkpoint, faults,
                 cp, view, offset, due, seen>>

FetchError(w) ==
  /\ pc[w] = "fetch"
  /\ Fault
  /\ Retry(w)
  /\ UNCHANGED <<source, history, copies, checkpoint>>

\* The rows of P are appended to the target; counts saturate at 2.
CopyIn(P) ==
  copies' = [x \in Versions |->
               IF x \in P THEN Smaller(2, copies[x] + 1) ELSE copies[x]]

\* The target's primary key, if it has one, rejects a row it already has.
Rejected(P) ==
  /\ TargetUnique
  /\ \E x \in P, y \in Versions : Pk(x) = Pk(y) /\ copies[y] > 0

\* INSERT and COMMIT of the batch, acknowledged.
Insert(w) ==
  /\ pc[w] = "insert"
  /\ ~Rejected(batch[w])
  /\ CopyIn(batch[w])
  /\ seen' = [seen EXCEPT ![w] = @ \cup batch[w]]
  /\ pc' = [pc EXCEPT ![w] = "save"]
  /\ attempt' = [attempt EXCEPT ![w] = 0]
  /\ UNCHANGED <<source, history, checkpoint, faults,
                 cp, view, offset, batch, top, due>>

\* Mutant: a batch that cannot be inserted is skipped once it was retried.
SkipBatch(w) ==
  /\ pc[w] = "insert"
  /\ ~Rejected(batch[w])
  /\ Fault
  /\ pc' = [pc EXCEPT ![w] = "save"]
  /\ UNCHANGED <<source, history, copies, checkpoint,
                 cp, view, offset, batch, top, attempt, due, seen>>

\* The database refuses the batch, is rolled back, and is asked again.
InsertError(w) ==
  /\ pc[w] = "insert"
  /\ ~Rejected(batch[w])
  /\ Fault
  /\ Retry(w)
  /\ UNCHANGED <<source, history, copies, checkpoint>>

\* A duplicate key: every attempt is refused for the same reason.
InsertRejected(w) ==
  /\ pc[w] = "insert"
  /\ Rejected(batch[w])
  /\ Abandon(w)
  /\ UNCHANGED <<source, history, copies, checkpoint, faults>>

\* The connection is lost during COMMIT, which may have taken effect; the
\* connector keeps the dead connection, so the other attempts fail too.
InsertLost(w) ==
  /\ pc[w] = "insert"
  /\ ~Rejected(batch[w])
  /\ Fault
  /\ CopyIn(batch[w]) \/ UNCHANGED copies
  /\ Abandon(w)
  /\ UNCHANGED <<source, history, checkpoint>>

\* Mutant: an error while the progress is saved leaves the loop.
LeaveLoop(w) ==
  /\ pc[w] = "save"
  /\ Fault
  /\ pc' = [pc EXCEPT ![w] = "checkpoint"]
  /\ UNCHANGED <<source, history, copies, checkpoint,
                 cp, view, offset, batch, top, attempt, due, seen>>

\* Log and execution are saved; a short batch was the last one.
SaveProgress(w) ==
  /\ pc[w] = "save"
  /\ offset' = [offset EXCEPT ![w] = NextOffset(@)]
  /\ pc' = [pc EXCEPT ![w] = IF LastBatch(batch[w]) THEN "checkpoint"
                             ELSE "fetch"]
  /\ batch' = [batch EXCEPT ![w] = {}]
  /\ UNCHANGED <<source, history, copies, checkpoint, faults,
                 cp, view, top, attempt, due, seen>>

\* Saving the log or the execution raises.
SaveError(w) ==
  /\ pc[w] = "save"
  /\ Fault
  /\ Abandon(w)
  /\ UNCHANGED <<source, history, copies, checkpoint>>

NewTop(w) == top[w] # Null /\ top[w] # cp[w]

\* update_or_create of the checkpoint, when the run has met a new value.
WriteCheckpoint(w) ==
  /\ pc[w] = "checkpoint"
  /\ checkpoint' = IF NewTop(w) THEN top[w] ELSE checkpoint
  /\ pc' = [pc EXCEPT ![w] = "finish"]
  /\ UNCHANGED <<source, history, copies, faults,
                 cp, view, offset, batch, top, attempt, due, seen>>

\* The write fails: logged, and the sync is completed all the same.
CheckpointError(w) ==
  /\ pc[w] = "checkpoint"
  /\ NewTop(w)
  /\ Fault
  /\ pc' = [pc EXCEPT ![w] = "finish"]
  /\ UNCHANGED <<source, history, copies, checkpoint,
                 cp, view, offset, batch, top, attempt, due, seen>>

\* The log is marked completed.
Finish(w) ==
  /\ pc[w] = "finish"
  /\ Abandon(w)
  /\ UNCHANGED <<source, history, copies, checkpoint, faults>>

----------------------------------------------------------------------------
\* The user's reset_checkpoint view: the row is deleted, whoever is running.
ResetCheckpoint ==
  /\ UserResets
  /\ checkpoint # Null
  /\ checkpoint' = Null
  /\ UNCHANGED <<source, history, copies, faults, runVars>>

Stuck == \A w \in Workers : pc[w] = "stuck"

\* The process dies: the runs are gone, the databases keep what they committed.
\* The job is left 'running', as it is by a run that cannot connect (a
\* TableSyncError) or cannot save its result; triggers and users are refused.
Crash ==
  /\ ~Stuck
  /\ Fault
  /\ pc' = [w \in Workers |-> "stuck"]
  /\ cp' = [w \in Workers |-> Null]
  /\ view' = [w \in Workers |-> {}]
  /\ offset' = [w \in Workers |-> 0]
  /\ batch' = [w \in Workers |-> {}]
  /\ top' = [w \in Workers |-> Null]
  /\ attempt' = [w \in Workers |-> 0]
  /\ due' = [w \in Workers |-> {}]
  /\ seen' = [w \in Workers |-> {}]
  /\ UNCHANGED <<source, history, copies, checkpoint>>

\* An administrator gives the job another status, which no handler does.
PutRight ==
  /\ Stuck
  /\ pc' = [w \in Workers |-> "idle"]
  /\ UNCHANGED <<source, history, copies, checkpoint, faults,
                 cp, view, offset, batch, top, attempt, due, seen>>

\* The contents the table may have had before the job was created.
Tables ==
  UNION {{{<<r, f[r]>> : r \in D} :
            f \in [D -> IF NullRows THEN Values ELSE Values \ {Null}]} :
         D \in SUBSET Rows}

Init ==
  /\ source \in Tables
  /\ history = source
  /\ copies = [x \in Versions |-> 0]
  /\ checkpoint = Null
  /\ faults = 0
  /\ pc = [w \in Workers |-> "idle"]
  /\ cp = [w \in Workers |-> Null]
  /\ view = [w \in Workers |-> {}]
  /\ offset = [w \in Workers |-> 0]
  /\ batch = [w \in Workers |-> {}]
  /\ top = [w \in Workers |-> Null]
  /\ attempt = [w \in Workers |-> 0]
  /\ due = [w \in Workers |-> {}]
  /\ seen = [w \in Workers |-> {}]

SourceStep ==
  \E r \in Rows :
    \/ \E v \in Values : SourceInsert(r, v) \/ SourceUpdate(r, v)
    \/ SourceDelete(r)

\* What a run does when nothing goes wrong.
Step(w) ==
  \/ Connect(w) \/ Begin(w) \/ Fetch(w)
  \/ Insert(w) \/ InsertRejected(w) \/ SaveProgress(w)
  \/ WriteCheckpoint(w) \/ Finish(w)

FaultStep(w) ==
  \/ BeginError(w) \/ FetchError(w) \/ InsertError(w)
  \/ InsertLost(w) \/ SaveError(w) \/ CheckpointError(w)

Next ==
  \/ SourceStep
  \/ \E w \in Workers : Step(w) \/ Reopen(w) \/ FaultStep(w)
  \/ ResetCheckpoint
  \/ Crash \/ PutRight

Spec == Init /\ [][Next]_vars

\* A scheduled job is started again and again, unless it is stuck, and a started
\* thread goes on.  Nobody has to put the job right.
FairSpec == Spec /\ \A w \in Workers : WF_vars(Step(w))

----------------------------------------------------------------------------
(* Properties.                                                             *)

\* The checkpoint is a promise: every source row whose incremental value is at
\* or below it, which no later query will select again, has been copied.
NothingSkipped ==
  \A x \in source :
    Val(x) # Null /\ Val(x) <= checkpoint => copies[x] > 0

\* A run about to be marked completed has copied every row it had to sync when
\* it began, unless the row has changed since: log.status 'completed' means
\* that the table was synced.
CompletedMeansCopied ==
  \A w \in Workers : pc[w] = "finish" =>
    \A x \in due[w] \cap source : copies[x] > 0

\* Without a fault, a reset, a second run or a NULL, no row version is inserted
\* twice: batches do not overlap and the next run starts after the last one.
NoDoubles ==
  /\ faults = 0
  /\ ~UserResets
  /\ Cardinality(Workers) = 1
  /\ Null \notin AllValues
  => \A x \in Versions : copies[x] <= 1

\* With faults that stop and an application that comes to rest, every source
\* row that has an incremental value is in the target in the end, and stays;
\* or the job is stuck.  Every other failure is made good by a later run.
Synced == \A x \in source : Val(x) # Null => copies[x] > 0
EventuallySynced == <>[](Synced \/ Stuck)

----------------------------------------------------------------------------
(* The inductive invariant.  It holds where NothingSkipped does: the rows  *)
(* of an answer are totally ordered (a primary key), new values rise, and  *)
(* the rows under a run's offset do not move - because the run reads from  *)
(* a snapshot, or because rows are only ever appended to them, or inserted *)
(* before them, which is what a NULL does where NULLs come first: a page   *)
(* then repeats rows, and leaves none out.                                 *)

Regime ==
  /\ HasPrimaryKey
  /\ "tie" \notin Changes
  /\ \/ SnapshotReads
     \/ Changes \subseteq {"append"} /\ (NullRows => NullsFirst)

NoNulls(S) == \A x \in S : Val(x) # Null

\* Every value at or below c has been copied, and c is no greater than a value
\* that has been in the source.
Covered(c) ==
  /\ \A x \in source : Val(x) # Null /\ Val(x) <= c => copies[x] > 0
  /\ c = Null \/ \E x \in history : c <= Val(x)

Answer(w) == Selected(Visible(w), cp[w])

SourceInv ==
  /\ source \subseteq history
  /\ NullRows \/ NoNulls(history)
  /\ Covered(checkpoint)

\* What a run can see: the values it cannot see are newer than all it can.
ViewInv(w) ==
  /\ Visible(w) \subseteq history
  /\ \A x \in source \ Visible(w), y \in Visible(w) :
       Val(x) # Null => Val(y) < Val(x)

\* What it has read: its checkpoint, which may be newer than its view.
ReadInv(w) ==
  /\ ViewInv(w)
  /\ Covered(cp[w])
  /\ due[w] \subseteq history
  /\ due[w] \cap source \subseteq Answer(w)

\* What it has copied.
PageInv(w) ==
  /\ seen[w] \subseteq Answer(w)
  /\ \A x \in seen[w] : copies[x] > 0
  /\ top[w] = cp[w] \/ \E x \in Visible(w) : top[w] = Val(x)
  /\ top[w] >= cp[w]

\* The first n rows of the answer A are in S, which the pages have brought,
\* or are NULLs that have come in front of them since and are not yet due.
Through(A, S, n, d) ==
  \E D \in SUBSET A :
    /\ S \subseteq D
    /\ Ahead(D, A \ D)
    /\ n <= Cardinality(D)
    /\ \A x \in D \ S : Val(x) = Null /\ x \notin d
    /\ NoNulls(A) => Cardinality(D) = n

\* Nothing at or below the greatest value fetched is left outside S.
Drained(w, S) ==
  /\ \A x \in Answer(w) \ S : Val(x) # Null => Val(x) > top[w]
  /\ due[w] \cap source \subseteq S

RunInv(w) ==
  /\ pc[w] \in {"idle", "stuck", "connected"} => offset[w] = 0 /\ seen[w] = {}
  /\ pc[w] = "connected" => ViewInv(w)
  /\ pc[w] \notin {"idle", "stuck", "connected"} => ReadInv(w)
  /\ pc[w] \in {"fetch", "insert", "save"} => PageInv(w)
  /\ pc[w] = "fetch" =>
       /\ Through(Answer(w), seen[w], offset[w], due[w])
       /\ offset[w] = 0 => top[w] = cp[w] /\ seen[w] = {}
  /\ pc[w] = "insert" =>
       /\ batch[w] \subseteq Answer(w)
       /\ NoNulls(Answer(w)) => batch[w] \cap seen[w] = {}
       /\ Through(Answer(w), seen[w] \cup batch[w],
                  offset[w] + Cardinality(batch[w]), due[w])
       /\ Cardinality(batch[w]) <= BatchSize
       /\ LastBatch(batch[w]) => Drained(w, seen[w] \cup batch[w])
  /\ pc[w] = "save" =>
       /\ Through(Answer(w), seen[w], offset[w] + Cardinality(batch[w]), due[w])
       /\ Cardinality(batch[w]) <= BatchSize
       /\ LastBatch(batch[w]) => Drained(w, seen[w])
  /\ pc[w] \in {"checkpoint", "finish"} =>
       /\ Covered(top[w])
       /\ \A x \in due[w] \cap source : copies[x] > 0

IInv == TypeOK /\ SourceInv /\ \A w \in Workers : RunInv(w)

----------------------------------------------------------------------------
\* The promise of TableCopy, kept by this module.
Promise == INSTANCE TableCopy
Implements == Promise!Spec
=============================================================================
