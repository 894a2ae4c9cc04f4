------------------------------ MODULE FullSync ------------------------------
(***************************************************************************)
(* The full sync of ONE table: sync_table in sync_engine/full_sync.py with *)
(* the source and target databases as the connectors use them              *)
(* (connectors/postgres.py, mysql.py, sqlserver.py).                       *)
(*                                                                         *)
(* A run empties the target and pages through                              *)
(*     SELECT .. ORDER BY key LIMIT n OFFSET k                             *)
(* one statement per batch; every batch is inserted and committed on its   *)
(* own, and any error ends the run where it is.  The key is the primary    *)
(* key, the first column of a table that has none, or nothing at all.      *)
(***************************************************************************)
EXTENDS Naturals, FiniteSets

CONSTANTS
  Rows,          \* the rows the source may hold
  Rank,          \* Rank[r]: the value of row r that ORDER BY compares
  Workers,       \* threads that may be running this job at the same time
  BatchSize,     \* _optimize_batch_size
  MaxFaults      \* bound: failed calls, lost connections and crashes

ASSUME RowsAssumption == IsFiniteSet(Rows) /\ Rank \in [Rows -> Nat]
ASSUME BoundsAssumption == BatchSize \in Nat \ {0} /\ MaxFaults \in Nat

VARIABLES
  snapshot, \* is the source MySQL, where a run's statements share a view?
  source,   \* the rows now in the source table
  copies,   \* copies[r]: how often the target holds row r, 2 = more than once
  faults,   \* faults so far
  pc,       \* where each worker is in sync_table
  view,     \* the source as the run's transaction sees it (snapshot)
  offset,   \* offset
  batch,    \* batch
  start,    \* history: what the run saw when it began, and is still there
  live,     \* history: the rows it could have seen since
  shifted   \* history: did rows change places under its offset?

vars == <<snapshot, source, copies, faults, pc, view, offset, batch,
          start, live, shifted>>

\* "stuck": the job was left with the status 'running', and is not started.
States == {"idle", "connected", "fetch", "insert", "save", "finish", "stuck"}

TypeOK ==
  /\ snapshot \in BOOLEAN
  /\ source \subseteq Rows
  /\ copies \in [Rows -> 0..2]
  /\ faults \in 0..MaxFaults
  /\ pc \in [Workers -> States]
  /\ view \in [Workers -> SUBSET Rows]
  /\ offset \in [Workers -> Nat]
  /\ batch \in [Workers -> SUBSET Rows]
  /\ start \in [Workers -> SUBSET Rows]
  /\ live \in [Workers -> SUBSET Rows]
  /\ shifted \in [Workers -> BOOLEAN]

----------------------------------------------------------------------------
(* What a SELECT returns.                                                  *)

\* No row of T comes before a row of S.
Ahead(S, T) == \A r \in S, s \in T : Rank[r] <= Rank[s]

Smaller(m, n) == IF m <= n THEN m ELSE n

\* The answers the database may give to LIMIT BatchSize OFFSET k over S.
Pages(S, k) ==
  {P \in SUBSET S :
    \E K \in SUBSET (S \ P) :
      /\ Cardinality(K) = Smaller(k, Cardinality(S))
      /\ Cardinality(P) = Smaller(BatchSize, Cardinality(S) - Cardinality(K))
      /\ Ahead(K, S \ K)
      /\ Ahead(P, S \ (K \cup P))}

\* Mutant: autocommit, every statement sees what is committed by then.
VisibleNow(w) == source

Visible(w) == IF snapshot THEN view[w] ELSE source

\* Mutant: the next page starts one row too early.
OffsetTooNear(k) == k + BatchSize - 1

\* offset += self.batch_size
NextOffset(k) == k + BatchSize

\* Mutant: a full page is taken for the last one.
LastIfFull(P) == Cardinality(P) <= BatchSize

\* if len(batch) < self.batch_size: break
LastBatch(P) == Cardinality(P) < BatchSize

----------------------------------------------------------------------------
(* The application that owns the source database.                          *)

Running(w) == pc[w] \notin {"idle", "stuck"}

\* What a running sync has read of the order no longer holds.
Shift == shifted' = [w \in Workers |-> shifted[w] \/ Running(w)]

\* A row is inserted: behind all others, or somewhere before.
Appear(r) ==
  /\ r \notin source
  /\ source' = source \cup {r}
  /\ live' = [w \in Workers |->
                IF Running(w) THEN live[w] \cup {r} ELSE live[w]]
  /\ IF \A s \in source : Rank[s] < Rank[r] THEN UNCHANGED shifted ELSE Shift
  /\ UNCHANGED <<snapshot, copies, faults, pc, view, offset, batch, start>>

\* A row is deleted.
Disappear(r) ==
  /\ r \in source
  /\ source' = source \ {r}
  /\ start' = [w \in Workers |-> start[w] \ {r}]
  /\ Shift
  /\ UNCHANGED <<snapshot, copies, faults, pc, view, offset, batch, live>>

----------------------------------------------------------------------------
(* sync_table.                                                             *)

Fault == faults < MaxFaults /\ faults' = faults + 1

\* The log is marked completed or failed, and the run turns to other tables.
Leave(w) ==
  /\ pc' = [pc EXCEPT ![w] = "idle"]
  /\ view' = [view EXCEPT ![w] = {}]
  /\ offset' = [offset EXCEPT ![w] = 0]
  /\ batch' = [batch EXCEPT ![w] = {}]
  /\ start' = [start EXCEPT ![w] = {}]
  /\ live' = [live EXCEPT ![w] = {}]
  /\ shifted' = [shifted EXCEPT ![w] = FALSE]

\* The execution is connected and turns to this table.  A MySQL transaction may
\* have been opened by then, for an earlier table of the job.
Connect(w) ==
  /\ pc[w] = "idle"
  /\ pc' = [pc EXCEPT ![w] = "connected"]
  /\ view' = [view EXCEPT ![w] = IF snapshot THEN source ELSE {}]
  /\ live' = [live EXCEPT ![w] = source]
  /\ UNCHANGED <<snapshot, source, copies, faults, offset, batch,
                 start, shifted>>

\* Or it has not: the view is that of the first row read, at the latest.
Reopen(w) ==
  /\ snapshot
  /\ pc[w] \in {"connected", "fetch"}
  /\ offset[w] = 0
  /\ view' = [view EXCEPT ![w] = source]
  /\ UNCHANGED <<snapshot, source, copies, faults, pc, offset, batch,
                 start, live, shifted>>

Emptied == copies' = [r \in Rows |-> 0]

\* Mutant: a table that exists already is not emptied.
KeepRows(w) ==
  /\ pc[w] = "connected"
  /\ pc' = [pc EXCEPT ![w] = "fetch"]
  /\ start' = [start EXCEPT ![w] = Visible(w) \cap source]
  /\ UNCHANGED <<snapshot, source, copies, faults, view, offset, batch,
                 live, shifted>>

\* The target table exists, and is emptied and committed; the columns are read
\* and the query is built.
Truncate(w) ==
  /\ pc[w] = "connected"
  /\ Emptied
  /\ pc' = [pc EXCEPT ![w] = "fetch"]
  /\ start' = [start EXCEPT ![w] = Visible(w) \cap source]
  /\ UNCHANGED <<snapshot, source, faults, view, offset, batch,
                 live, shifted>>

\* Some of that fails, before or after the table is emptied.
TruncateError(w) ==
  /\ pc[w] = "connected"
  /\ Fault
  /\ Emptied \/ UNCHANGED copies
  /\ Leave(w)
  /\ UNCHANGED <<snapshot, source>>

\* A statement returns the next batch, or no rows: leave the loop.
Fetch(w) ==
  /\ pc[w] = "fetch"
  /\ \E P \in Pages(Visible(w), offset[w]) :
       /\ batch' = [batch EXCEPT ![w] = P]
       /\ pc' = [pc EXCEPT ![w] = IF P = {} THEN "finish" ELSE "insert"]
  /\ UNCHANGED <<snapshot, source, copies, faults, view, offset,
                 start, live, shifted>>

\* There are no retries here: the table has failed, and stays as it is.
FetchError(w) ==
  /\ pc[w] = "fetch"
  /\ Fault
  /\ Leave(w)
  /\ UNCHANGED <<snapshot, source, copies>>

CopyIn(P) ==
  copies' = [r \in Rows |->
               IF r \in P THEN Smaller(2, copies[r] + 1) ELSE copies[r]]

\* bulk_insert: INSERT and COMMIT.
Insert(w) ==
  /\ pc[w] = "insert"
  /\ CopyIn(batch[w])
  /\ pc' = [pc EXCEPT ![w] = "save"]
  /\ UNCHANGED <<snapshot, source, faults, view, offset, batch,
                 start, live, shifted>>

\* It fails, before or (a lost acknowledgement) after it took effect.
InsertError(w) ==
  /\ pc[w] = "insert"
  /\ Fault
  /\ CopyIn(batch[w]) \/ UNCHANGED copies
  /\ Leave(w)
  /\ UNCHANGED <<snapshot, source>>

\* Log and execution are saved; a short batch was the last one.
SaveProgress(w) ==
  /\ pc[w] = "save"
  /\ offset' = [offset EXCEPT ![w] = NextOffset(@)]
  /\ pc' = [pc EXCEPT ![w] = IF LastBatch(batch[w]) THEN "finish" ELSE "fetch"]
  /\ batch' = [batch EXCEPT ![w] = {}]
  /\ UNCHANGED <<snapshot, source, copies, faults, view,
                 start, live, shifted>>

SaveError(w) ==
  /\ pc[w] = "save"
  /\ Fault
  /\ Leave(w)
  /\ UNCHANGED <<snapshot, source, copies>>

\* The log is marked completed.
Finish(w) ==
  /\ pc[w] = "finish"
  /\ Leave(w)
  /\ UNCHANGED <<snapshot, source, copies, faults>>

Stuck == \A w \in Workers : pc[w] = "stuck"

\* The process dies: the runs are gone, the target stays as it is.  The job is
\* left 'running', as it is by a run whose result cannot be saved; triggers
\* and users are refused.
Crash ==
  /\ ~Stuck
  /\ Fault
  /\ pc' = [w \in Workers |-> "stuck"]
  /\ view' = [w \in Workers |-> {}]
  /\ offset' = [w \in Workers |-> 0]
  /\ batch' = [w \in Workers |-> {}]
  /\ start' = [w \in Workers |-> {}]
  /\ live' = [w \in Workers |-> {}]
  /\ shifted' = [w \in Workers |-> FALSE]
  /\ UNCHANGED <<snapshot, source, copies>>

\* An administrator gives the job another status, which no handler does.
PutRight ==
  /\ Stuck
  /\ pc' = [w \in Workers |-> "idle"]
  /\ UNCHANGED <<snapshot, source, copies, faults, view, offset, batch,
                 start, live, shifted>>

----------------------------------------------------------------------------
\* The target may hold anything from an earlier time.
Init ==
  /\ snapshot \in BOOLEAN
  /\ source \in SUBSET Rows
  /\ copies \in [Rows -> 0..1]
  /\ faults = 0
  /\ pc = [w \in Workers |-> "idle"]
  /\ view = [w \in Workers |-> {}]
  /\ offset = [w \in Workers |-> 0]
  /\ batch = [w \in Workers |-> {}]
  /\ start = [w \in Workers |-> {}]
  /\ live = [w \in Workers |-> {}]
  /\ shifted = [w \in Workers |-> FALSE]

Step(w) ==
  \/ Connect(w) \/ Truncate(w) \/ Fetch(w) \/ Insert(w)
  \/ SaveProgress(w) \/ Finish(w)

FaultStep(w) ==
  \/ TruncateError(w) \/ FetchError(w) \/ InsertError(w) \/ SaveError(w)

Next ==
  \/ \E r \in Rows : Appear(r) \/ Disappear(r)
  \/ \E w \in Workers : Step(w) \/ Reopen(w) \/ FaultStep(w)
  \/ Crash \/ PutRight

Spec == Init /\ [][Next]_vars

\* A scheduled job is started again and again, unless it is stuck, and a started
\* thread goes on.  Nobody has to put the job right.
FairSpec == Spec /\ \A w \in Workers : WF_vars(Step(w))

----------------------------------------------------------------------------
(* Properties.                                                             *)

\* When a run is about to be marked completed the target has been replaced:
\* every row that was in the source all the while is there, unless rows have
\* changed places between two statements that each saw the latest state.
NothingMissing ==
  \A w \in Workers : pc[w] = "finish" /\ (shifted[w] => snapshot) =>
    \A r \in start[w] : copies[r] > 0

\* And, under the same condition, no row is there twice, and nothing that was
\* not in the source meanwhile, whatever an earlier run, or a run that failed
\* or died, had left behind.
NothingElse ==
  \A w \in Workers : pc[w] = "finish" /\ (shifted[w] => snapshot) =>
    \A r \in Rows : copies[r] > 0 => copies[r] = 1 /\ r \in live[w]

\* The target is exactly the source, again and again, once the faults are over
\* and the application comes to rest, whatever failed runs have left of it;
\* unless the job is stuck.
Exact == \A r \in Rows : copies[r] = (IF r \in source THEN 1 ELSE 0)
AtRest == <>[][FALSE]_source
ExactAgain == AtRest => []<>(Exact \/ Stuck)

----------------------------------------------------------------------------
(* The abstract specification, for a job that one worker runs.             *)

Copied == {r \in Rows : copies[r] > 0}

Worker == CHOOSE w \in Workers : TRUE

\* Rows have changed places under a run that does not keep one view.
Torn == shifted[Worker] /\ ~snapshot

Phase ==
  CASE ~Running(Worker)                  -> "idle"
    [] Running(Worker) /\ Torn           -> "torn"
    [] pc[Worker] = "finish" /\ ~Torn    -> "replaced"
    [] OTHER                             -> "running"

\* A run without a view of its own copies the source as it was when its last
\* page was read: until then it may still see what is added.
LastRead ==
  \/ pc[Worker] \in {"insert", "save"} /\ LastBatch(batch[Worker])
  \/ pc[Worker] = "finish"

Taken == IF Phase \in {"idle", "torn"} THEN {}
         ELSE IF snapshot THEN view[Worker]
         ELSE IF LastRead THEN Copied \cup batch[Worker]
         ELSE source

Replace == INSTANCE TableReplace WITH
  isolated <- snapshot, target <- copies, taken <- Taken, phase <- Phase

\* A completed run has made the target a copy of the source as it was at one
\* moment of the run, whatever was appended meanwhile, and in MySQL whatever
\* happened to the source; a run that fails has written nothing else either.
Implements == Replace!Spec
=============================================================================
