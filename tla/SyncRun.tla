------------------------------ MODULE SyncRun ------------------------------
(***************************************************************************)
(* One run of a job over its tables: SyncExecutor.execute                  *)
(* (sync_engine/executor.py) around FullSyncExecutor.execute or            *)
(* IncrementalSyncExecutor.execute, and what their sync_table leaves in    *)
(* the execution row and in the log row of each table.                     *)
(*                                                                         *)
(* Every save of a row is an action and may fail; the databases that are   *)
(* synced fail on their own.  What a table holds is counted in batches:    *)
(* IncrementalSync tells the rows of a batch apart.                        *)
(***************************************************************************)
EXTENDS Naturals, FiniteSets, Functions

CONSTANTS
  Tables,      \* the tables of the job
  MaxBatches,  \* bound: batches a source table may fill
  Errors,      \* what may go wrong with the databases, see below
  MaxFaults    \* bound: saves that fail, connections that cannot be made

\* "table":   reading or writing a table fails for good.
\* "column":  a table of an incremental job, or of its source, has no
\*            incremental column.
\* "connect": a database cannot be reached.
\* "save":    a row of the tool's own database cannot be saved.
ErrorKinds == {"table", "column", "connect", "save"}

ASSUME TablesAssumption == IsFiniteSet(Tables)
ASSUME ErrorsAssumption == Errors \subseteq ErrorKinds
ASSUME BoundsAssumption == MaxBatches \in Nat /\ MaxFaults \in Nat

VARIABLES
  full,       \* SyncJob.sync_type is 'full', else 'incremental'
  job,        \* SyncJob.status
  row,        \* the SyncExecution row
  execution,  \* the executor's own copy of it, saved as a whole
  log,        \* the SyncExecutionLog row of each table
  enabled,    \* the tables that are enabled
  size,       \* batches in each source table
  inserted,   \* total_rows_inserted of each table, in batches
  left,       \* the tables the loop has not come to
  current,    \* the table the loop is at, as a set
  raised,     \* the exception in flight
  faults,     \* faults so far
  pc          \* what comes next

vars == <<full, job, row, execution, log, enabled, size, inserted, left,
          current, raised, faults, pc>>

Final == {"completed", "failed"}
Execution == [status : {"none", "pending", "running"} \cup Final,
              tables : Nat, rows : Nat]
Log == [status : {"none", "pending", "running"} \cup Final, rows : Nat]
NoExecution == [status |-> "none", tables |-> 0, rows |-> 0]
NoLog == [status |-> "none", rows |-> 0]

Places == {"create", "mark", "connect", "start", "check", "next", "open",
           "prepare", "batch", "progress", "count", "close", "tablefail",
           "overwrite", "jobdone", "inner", "handler", "jobfail", "done"}

TypeOK ==
  /\ full \in BOOLEAN
  /\ job \in {"pending", "running"} \cup Final
  /\ row \in Execution
  /\ execution \in Execution
  /\ log \in [Tables -> Log]
  /\ enabled \subseteq Tables
  /\ size \in [Tables -> 0..MaxBatches]
  /\ inserted \in [Tables -> Nat]
  /\ left \subseteq Tables
  /\ current \subseteq Tables
  /\ raised \in {"none", "table_sync", "other"}
  /\ faults \in 0..MaxFaults
  /\ pc \in Places

Logged(s) == {t \in Tables : log[t].status = s}

----------------------------------------------------------------------------
(* Steps.                                                                  *)

rest == <<full, enabled, size, left, current>>

\* What the control does: from a to b, with x in flight.
Jump(a, b, x) == pc = a /\ pc' = b /\ raised' = x
Flow(a, b) == Jump(a, b, raised) /\ UNCHANGED faults
Breaks(a, b, x) ==
  Jump(a, b, x) /\ faults < MaxFaults /\ faults' = faults + 1
Fault(a, b, x) == "save" \in Errors /\ Breaks(a, b, x)

\* execution.status = s; execution.save()
Save(s) ==
  /\ execution' = [execution EXCEPT !.status = s]
  /\ row' = execution'
  /\ UNCHANGED <<job, log, inserted, rest>>

\* The same, but the database refuses: only the executor's copy has changed.
Unsaved(s) ==
  /\ execution' = [execution EXCEPT !.status = s]
  /\ UNCHANGED <<job, row, log, inserted, rest>>

\* self.job.status = s; self.job.save()
SaveJob(s) ==
  /\ job' = s
  /\ UNCHANGED <<row, execution, log, inserted, rest>>

Nothing == UNCHANGED <<job, row, execution, log, inserted, rest>>

----------------------------------------------------------------------------
(* SyncExecutor.execute.                                                   *)

\* create_execution; if that fails there is only the job to mark as failed.
CreateExecution ==
  \/ /\ Flow("create", "mark")
     /\ execution' = [NoExecution EXCEPT !.status = "pending"]
     /\ row' = execution'
     /\ UNCHANGED <<job, log, inserted, rest>>
  \/ Fault("create", "jobfail", "other") /\ Nothing

MarkRunning ==
  \/ Flow("mark", "connect") /\ SaveJob("running")
  \/ Fault("mark", "handler", "other") /\ Nothing

\* Mutant: the job is marked at once, before its execution.
ConnectOrFail ==
  \/ Flow("connect", "start") /\ Nothing
  \/ "connect" \in Errors /\ Breaks("connect", "handler", "other")
     /\ SaveJob("failed")

\* _get_connector_with_retry, for both databases.
Connect ==
  \/ Flow("connect", "start") /\ Nothing
  \/ "connect" \in Errors /\ Breaks("connect", "handler", "other") /\ Nothing

\* Mutant: the result of the sync is not saved again, but not kept either.
RunAgain == Flow("overwrite", "jobdone") /\ Save("running")

\* execution.status = 'completed', whatever the sync has made of it.
Overwrite ==
  \/ Flow("overwrite", "jobdone") /\ Save("completed")
  \/ Fault("overwrite", "handler", "other") /\ Unsaved("completed")

\* Mutant: an error while the job is saved is only logged.
JobDoneOrNot ==
  \/ Flow("jobdone", "done") /\ SaveJob("completed")
  \/ Fault("jobdone", "done", "none") /\ Nothing

JobDone ==
  \/ Flow("jobdone", "done") /\ SaveJob("completed")
  \/ Fault("jobdone", "handler", "other") /\ Nothing

\* _handle_connection_error and except Exception: the execution, then the job.
\* An error in here leaves execute at once.
Handle ==
  \/ Flow("handler", "jobfail") /\ Save("failed")
  \/ Fault("handler", "done", "other") /\ Unsaved("failed")

JobFailed ==
  \/ Flow("jobfail", "done") /\ SaveJob("failed")
  \/ Fault("jobfail", "done", "other") /\ Nothing

----------------------------------------------------------------------------
(* execute of FullSyncExecutor and of IncrementalSyncExecutor.             *)

Start ==
  \/ Flow("start", "check") /\ Save("running")
  \/ Fault("start", "inner", "other") /\ Unsaved("running")

\* No enabled tables: completed, and back.
NoTables ==
  /\ enabled = {}
  /\ \/ Flow("check", "overwrite") /\ Save("completed")
     \/ Fault("check", "inner", "other") /\ Unsaved("completed")

\* The tables of an incremental job, and the two connections.
Check ==
  /\ enabled # {}
  /\ Nothing
  /\ \/ Flow("check", "next")
     \/ /\ ~full /\ "column" \in Errors
        /\ Jump("check", "inner", "table_sync") /\ UNCHANGED faults
     \/ /\ "connect" \in Errors
        /\ Breaks("check", "inner", IF full THEN "other" ELSE "table_sync")

\* Mutant: only tables that have failed count.
NoneFailed ==
  IF Logged("failed") = {} THEN "completed" ELSE "failed"

\* Any failed table fails the execution.  A full sync looks at the tables that
\* have a log with a result, an incremental one at all of them.
Verdict ==
  IF Logged("failed") = {}
       /\ (IF full THEN Logged("completed") # {}
                   ELSE Logged("completed") = enabled)
    THEN "completed" ELSE "failed"

Conclude ==
  /\ left = {}
  /\ \/ Flow("next", "overwrite") /\ Save(Verdict)
     \/ Fault("next", "inner", "other") /\ Unsaved(Verdict)

\* except Exception: mark the execution as failed, and raise.
Inner ==
  \/ /\ Jump("inner", IF raised = "table_sync" THEN "done" ELSE "handler",
             raised)
     /\ UNCHANGED faults
     /\ Save("failed")
  \/ Fault("inner", "handler", "other") /\ Unsaved("failed")

----------------------------------------------------------------------------
(* sync_table.  Whatever it raises, the loop continues.                    *)

SaveLog(t, s) ==
  /\ log' = [log EXCEPT ![t] = [status |-> s, rows |-> inserted[t]]]
  /\ UNCHANGED <<job, row, execution, inserted, rest>>

\* The log of the next table is created.  An incremental sync looks at the
\* columns of the table first; if they, or its own, cannot be read or are not
\* there, it has raised before there is a log to mark as failed.
Open(t) ==
  /\ t \in left
  /\ left' = left \ {t}
  /\ UNCHANGED <<full, job, row, execution, enabled, size, inserted>>
  /\ \/ /\ Flow("next", "open")
        /\ current' = {t}
        /\ log' = [log EXCEPT ![t] = [status |-> "pending", rows |-> 0]]
     \/ Fault("next", "next", raised) /\ UNCHANGED <<current, log>>
     \/ /\ ~full /\ Errors \cap {"table", "column"} # {}
        /\ Flow("next", "next") /\ UNCHANGED <<current, log>>

LogRunning(t) ==
  \/ Flow("open", "prepare") /\ SaveLog(t, "running")
  \/ Fault("open", "tablefail", raised) /\ Nothing

\* The table cannot be created, emptied, read or written.
TableError ==
  /\ "table" \in Errors
  /\ \E a \in {"prepare", "batch"} : Flow(a, "tablefail")
  /\ Nothing

Prepare == Flow("prepare", "batch") /\ Nothing

\* A batch is fetched, inserted and committed.
Batch(t) ==
  /\ inserted[t] < size[t]
  /\ Flow("batch", "progress")
  /\ inserted' = [inserted EXCEPT ![t] = @ + 1]
  /\ UNCHANGED <<job, row, execution, log, rest>>

\* log.rows_inserted = total_rows_inserted; log.save()
SaveProgress(t) ==
  \/ Flow("progress", "count") /\ SaveLog(t, "running")
  \/ Fault("progress", "tablefail", raised) /\ Nothing

RowsLogged == SumFunction([t \in Tables |-> log[t].rows])
Counted == [execution EXCEPT !.tables = Cardinality(Logged("completed")),
                             !.rows = RowsLogged]

\* Mutant: the rows of this table only.
CountOne(t) ==
  /\ Flow("count", "batch")
  /\ execution' = [execution EXCEPT !.rows = log[t].rows]
  /\ row' = execution'
  /\ UNCHANGED <<job, log, inserted, rest>>

\* completed_tables and total_rows_synced are counted anew and saved.
Count(t) ==
  /\ execution' = Counted
  /\ UNCHANGED <<job, log, inserted, rest>>
  /\ \/ Flow("count", "batch") /\ row' = execution'
     \/ Fault("count", "tablefail", raised) /\ UNCHANGED row

\* No more rows.
LastBatch(t) ==
  /\ inserted[t] = size[t]
  /\ Flow("batch", "close")
  /\ Nothing

Close(t) ==
  \/ Flow("close", "next") /\ SaveLog(t, "completed")
  \/ Fault("close", "tablefail", raised) /\ Nothing

\* Mutant: an error is logged, and the table is closed like any other.
CloseAnyway(t) == Flow("tablefail", "next") /\ SaveLog(t, "completed")

\* except Exception: the log is marked as failed, which may fail as well.
TableFailed(t) ==
  \/ Flow("tablefail", "next") /\ SaveLog(t, "failed")
  \/ Fault("tablefail", "next", raised) /\ Nothing

SyncTable(t) ==
  \/ LogRunning(t) \/ Batch(t) \/ SaveProgress(t) \/ Count(t)
  \/ LastBatch(t) \/ Close(t) \/ TableFailed(t)

----------------------------------------------------------------------------
Init ==
  /\ full \in BOOLEAN
  /\ job \in {"pending", "running"} \cup Final
  /\ row = NoExecution
  /\ execution = NoExecution
  /\ log = [t \in Tables |-> NoLog]
  /\ enabled \in SUBSET Tables
  /\ size \in [Tables -> 0..MaxBatches]
  /\ inserted = [t \in Tables |-> 0]
  /\ left = enabled
  /\ current = {}
  /\ raised = "none"
  /\ faults = 0
  /\ pc = "create"

Next ==
  \/ CreateExecution \/ MarkRunning \/ Connect
  \/ Start \/ NoTables \/ Check
  \/ \E t \in Tables : Open(t)
  \/ \E t \in current : SyncTable(t)
  \/ TableError \/ Prepare
  \/ Conclude \/ Overwrite \/ JobDone
  \/ Inner \/ Handle \/ JobFailed

Spec == Init /\ [][Next]_vars

\* The thread goes on: every call returns or raises.
FairSpec == Spec /\ WF_vars(Next)

----------------------------------------------------------------------------
(* Properties.                                                             *)

\* A log that says 'completed' tells the truth about its table, whatever
\* failed before, and counts what the target has got.
CompletedIsWhole ==
  \A t \in Logged("completed") :
    inserted[t] = size[t] /\ log[t].rows = size[t]

\* The sync finds out how it went: when it calls the execution completed, each
\* enabled table has been synced.  A full sync overlooks a table whose log could
\* not be created, an incremental one does not.
VerdictIsHonest ==
  pc = "overwrite" /\ row.status = "completed" /\ (full => faults = 0) =>
    Logged("completed") = enabled

\* One thing may fail, anywhere: job and execution end alike, and neither is
\* left as running.  (The exception is an incremental sync that ends in a
\* TableSyncError: the job stays running, see JobLifecycle.)
OutcomesAgree ==
  pc = "done" /\ faults <= 1 /\ raised # "table_sync" =>
    /\ job \in Final
    /\ row.status \in {"none", job}

\* The progress bar never runs ahead: the execution row counts no table as done
\* that is not.  (It is counted while the log of the table at hand still says
\* running, and lags behind.)
NeverAhead == row.tables <= Cardinality(Logged("completed"))

\* And while every save succeeds, the execution row counts every row that was
\* inserted - those of failed tables too - and each table the run came to ends
\* up with a result, or with neither a log nor a row: a table whose columns an
\* incremental sync has refused.
Unlogged(t) == log[t] = NoLog /\ inserted[t] = 0
BooksBalance ==
  /\ NeverAhead
  /\ pc = "done" /\ faults = 0 =>
       /\ \A t \in enabled \ left : log[t].status \in Final \/ (~full /\ Unlogged(t))
       /\ row.rows = SumFunction(inserted)

\* What executor.py says of a TableSyncError, "execution status is already
\* updated", and full_sync.py of a partial failure: the execution is failed.
RunIsHonest ==
  pc = "done" /\ row.status = "completed" => Logged("failed") = {}

\* The run comes to its end whatever fails, and with one failure at most its
\* execution is not left as pending or running.
RunEnds ==
  <>[](pc = "done" /\ (faults <= 1 => row.status \in {"none"} \cup Final))

----------------------------------------------------------------------------
(* JobLifecycle knows a run only by its effect on the row of the job.      *)

Stage == CASE pc \in {"create", "mark"} -> pc
           [] pc = "jobdone" -> "completed"
           [] pc = "jobfail" -> "failed"
           [] pc = "done" -> "idle"
           [] OTHER -> "sync"

Control == INSTANCE JobLifecycle WITH
  Servers <- {"server"}, Threads <- {"run"},
  MaxRequests <- 0, MaxCrashes <- 0, Created <- {"once"}, Requests <- {},
  Outcomes <- {"ok", "table_error", "connection_error", "exception"},
  status <- job, enabled <- TRUE, kind <- "once", up <- {"server"},
  trigger <- [p \in {"server"} |-> "none"],
  pc <- [t \in {"run"} |-> Stage],
  home <- [t \in {"run"} |-> "server"],
  form <- [t \in {"run"} |->
             [status |-> "deleted", enabled |-> FALSE, once |-> FALSE]],
  requests <- 0, crashes <- 0

\* Every step of the run is a step JobLifecycle takes with that thread, or
\* nothing to it - unless a call fails, which leaves the row of the job alone.
ControlsJob ==
  [][Control!Next \/ (faults' = faults + 1 /\ job' = job)]_(Control!vars)
=============================================================================
