# Verification of dbsync_tool

`dbsync_tool` is a Django application that copies tables between PostgreSQL,
MySQL and SQL Server databases. A user creates a *job*: two connections, a list
of tables, a sync type (*full* or *incremental*) and a schedule. An APScheduler
inside every server process, or the user, starts the job; an executor then
copies the tables in batches, keeps an execution row and one log row per table,
and, for incremental jobs, a checkpoint per table.

All paths below are relative to `src/dbsync_tool/`.

## 1. Inventory

| Component | Source | State | Operations |
|---|---|---|---|
| Incremental table sync | `sync_engine/incremental_sync.py`, `checkpoint_manager.py`, `retry.py`, `query_builder.py` | `SyncCheckpoint` row; checkpoint, offset, batch, greatest value and retries of a run | validate, create table, read checkpoint, fetch, insert, save progress, write checkpoint, reset |
| Full table sync | `sync_engine/full_sync.py` | target table; offset and batch of a run | create, truncate, fetch, insert, save progress |
| Execution of a run | `sync_engine/executor.py`, `execute` of both table executors | `SyncExecution`, `SyncExecutionLog`, `SyncJob.status` | create, mark, connect, loop over tables, verdict, overwrite, handlers |
| Job lifecycle | `sync_jobs/views.py`, `api_views.py`, `models.py` | `SyncJob`, `SyncSchedule` | run now, pause, resume, update schedule, edit, delete, bulk forms |
| Scheduler service | `scheduler/service.py`, `utils.py`, `apps.py` | registry of triggers in each process | start, load all, add, remove, fire |
| Next run, cron | `scheduler/utils.py`, `cron_parser.py`, `service.py`, `sync_jobs/views.py` | `next_run_at` of the job and of the schedule, fire time of the trigger | calculate, round, reschedule, make a trigger |
| Checkpoint values | `sync_engine/timezone_utils.py`, `incremental_sync.py`, `query_builder.py` | text of the checkpoint | compare, write, parse, put into a query |
| Connectors | `connections/connectors/` | one connection per run and database, with its transaction | connect, fetch, insert, truncate, introspection, roll back, try again |
| Tables and types | `sync_engine/table_handler.py`, `core/type_mapping.py`, connectors | schemas, tables and columns of the target | map schema, check, create schema and table, map types and defaults, truncate, insert |
| Connections, encryption | `connections/models.py`, `forms.py`, `views.py`, `core/encryption.py`, `management/commands/fix_passwords.py` | `DatabaseConnection` row, the server's key | create, edit, delete, encrypt on save, decrypt, look for unreadable passwords |
| Wizard | `sync_jobs/views.py` (`create_job_step1_view` .. `create_job_step3_submit`), `static/js/create_job_step2.js` | session; pages in tabs; a copy of the session in each request | three pages and submits; create job, tables and schedule |
| Progress page | `static/js/execution_detail.js`, `execution_detail`, `execution_status_api` | what the page shows, browser timer, a request | load, poll until the first final status, hide, return |
| Notifications, reports, metadata, accounts, monitoring, cleanup | see `PROJECT.json` | read-only or best effort | |

How they interact. A trigger (`execute_sync_job_direct`) locks the job row,
checks and marks it, and starts a thread; a request (`job_run_now`, a wizard or
edit that says *once*) runs `SyncExecutor.execute` in the request's thread after
a check without a lock. The executor saves the whole job row, builds connectors,
calls `FullSyncExecutor` or `IncrementalSyncExecutor`, which call `sync_table`
per table, and saves the result. Pause, edit and delete write the same two rows
meanwhile. The registry of the scheduler lives in memory and is told of some
changes of the schedule only. The wizard collects names of connections and tables in
the session, and its last request creates the rows of a job in separate
statements; deleting a connection deletes its jobs. A run opens one connection
to either database for all of its tables. The progress page asks for the
status of an execution every few seconds, without any lock on what it reads.

What is hard here:

* pages of one query are separate statements over a table that changes;
* each batch is committed on its own, the checkpoint comes last, and either may
  fail, be repeated, or be the last thing a process does;
* requests and runs hold stale copies of the job and write all of it back;
* the scheduler's registry, the schedule row and the job row are three states
  that are changed one at a time, per process, and lost on restart;
* the outcome of a run is recorded in four places by nested handlers, each of
  which may fail;
* the next run is calculated in five places, by UTC and by the zone of the
  server, and kept in two rows and a trigger;
* where a table is, is decided anew by each statement that names it, with
  fallbacks that depend on the database and the rights of the account;
* a value passes through the driver's class, text and a parser before it is
  compared with itself;
* a session is read whole and written back whole by requests that overlap, and
  shared by pages that are stale;
* one connection serves all tables of a run, and what a failing statement leaves of
  it depends on the database and on which call it was;
* a password is encrypted or not according to what it looks like, under a key that
  may change with a restart;
* a page reads a status and the logs at two moments of a run that goes on.

`PROJECT.json` lists every hazard at its line with the properties that cover it.

What makes each component correct: the checkpoint never rules out a row that was
not copied, and a completed table was copied (incremental); a completed target
equals the source (full); logs, execution and job agree, and a run ends
(execution); runs of a job do not overlap, a running job says so and stops, an
enabled schedule runs and a disabled, paused or deleted job does not (lifecycle,
scheduler); the next run that is shown lies ahead and is when the job runs (next
run); a value that was copied is not selected again, one that was not is
(checkpoint values); a source table has a target table of its own, which is the one
that was created, and values arrive as they are or are refused (tables and types); the
failure of a table stays its own (connectors); a job is what one form said, with all
of its tables (wizard); a connection is opened with the password entered last or
not at all (connections); a page that shows a result shows all of it (progress page).

## 2. Modules

| Module | Models | Composition |
|---|---|---|
| `TableCopy` | what an incremental sync promises | abstract specification |
| `IncrementalSync` | `sync_table` of the incremental executor, source, target, checkpoint, several runs, faults | implements `TableCopy` (`Implements`) |
| `IncrementalSyncProofs` | proofs | extends `IncrementalSync` |
| `TableReplace` | what a full sync promises | abstract specification |
| `FullSync` | `sync_table` of the full executor | implements `TableReplace` (`Implements`) |
| `FullSyncProofs` | proofs | extends `FullSync` |
| `SyncRun` | `SyncExecutor.execute` around either executor, rows and handlers | implements the run of `JobLifecycle` (`ControlsJob`) |
| `ProgressPage` | the page, its script and the status API | extends `SyncRun`, the run it watches |
| `RunProofs` | proofs about both | extends `ProgressPage` |
| `ConnectorCalls` | the calls of a run on its two connections | the connections under `SyncRun`, `FullSync`, `IncrementalSync` and `TargetTable` |
| `ConnectorCallsProofs` | proofs | extends `ConnectorCalls` |
| `Connections` | connections, their passwords, the keys, `fix_passwords` | |
| `JobWizard` | session, pages and requests of the wizard, the rows they create | extends `Connections` |
| `JobWizardProofs` | proofs about both | extends `JobWizard` |
| `JobLifecycle` | job row, schedule row, registries, requests, runs | |
| `JobLifecycleProofs` | proofs | extends `JobLifecycle` |
| `NextRun` | the times of one job: rows, triggers, forms, runs, clock | the saves of a run as in `JobLifecycle`, its other handlers as single steps |
| `NextRunProofs` | proofs | extends `NextRun` |
| `IncrementalValues` | an incremental value as class, number and text | replaces the numbers of `IncrementalSync` |
| `TargetTable` | one column each of two tables of one name, in two schemas of the source, and where the target has them | creation and writes of `FullSync` and `IncrementalSync`, told apart |
| `ColumnProofs` | proofs about both, what becomes of the values of a column | extends `TargetTable` and `IncrementalValues` |
| `MC...` | values of the constants for TLC | extend the module they are named after |

### IncrementalSync

A row version is a pair of primary key and incremental value; an update makes a
new version with a greater value. `source` is the live table, `history` what it
has ever held, `copies` how many rows of the target are a given version (0, 1,
more). Per worker, the variables are the locals of `sync_table`: `cp`
(`checkpoint_value`), `offset`, `batch`, `top` (`max_incremental_value`),
`attempt` (the retry decorator), and the point in the code as `pc`. One action
is one database statement with the assignments around it:

| Action | Lines of `incremental_sync.py` |
|---|---|
| `Connect`, `Begin`, `BeginError` | 110-132, 222-338 |
| `Fetch`, `FetchError` | 340-366, 654-662 with `retry.py` |
| `Insert`, `InsertError`, `InsertLost`, `InsertRejected` | 368-381, 664-678 with the connectors' `bulk_insert` |
| `SaveProgress`, `SaveError` | 383-403 |
| `WriteCheckpoint`, `CheckpointError` | 405-425 |
| `Finish`, `Abandon` | 427-447 |
| `ResetCheckpoint` | `views.py` 1331-1358 |
| `Crash`, `PutRight` | `executor.py` 116-123, `scheduler/utils.py` 127-133, `sync_jobs/admin.py` |

`Pages(S, k)` is the set of answers a database may give to `ORDER BY .. LIMIT ..
OFFSET k`: any that respects the order, so that rows the order does not tell
apart may come out differently from page to page. `Visible` is the live table
where statements read what is committed (PostgreSQL and SQL Server with their
default isolation), and a view fixed by the transaction's first read where the
connection is MySQL with `autocommit` off (`SnapshotReads`). `Connect` and
`Reopen` between them allow for a transaction opened for an earlier table as
well as by the first read of this one. A lost connection (`InsertLost`) may or
may not have committed; the connector keeps the dead connection, so the
remaining attempts fail. On PostgreSQL a failed `fetch_batch` leaves an aborted
transaction and its retries fail too; the model also lets them succeed, which
only adds behaviours.

A `Crash` leaves the job *running*: the process has died, or the run could not connect or
could not save its result. Triggers and requests then refuse the job, and a start of the
scheduler does not load it (`service.py:215`), so the workers are `Stuck` until an
administrator gives the job another status by hand (`PutRight`), which the program does not
see to. `FullSync` and `TargetTable` have the same two actions.

### TableCopy

Three actions: the source changes, with new rows above the checkpoint; rows the
source has held are copied, never taken back; the checkpoint moves, and leaves
nothing behind. `IncrementalSync` implements it with the identity on the four
variables both have.

### FullSync

As `IncrementalSync`, without a checkpoint and without retries: truncate, then
pages by the primary key (`Rank` injective), by the first column of a table that
has none (`Rank` with ties), or by nothing (`Rank` constant). `snapshot` says whether
the source is MySQL; it is chosen at the start and never changes. `start`, `live`
and `shifted` are history variables: what the run saw at its beginning and is
still there, what it could have seen since, and whether rows have changed places
under its offset (a deletion, or an insertion ahead of other rows). The promises
are made for runs to which that has not happened, or which read a snapshot.

### TableReplace

The source, the target, and of the run its phase and what it will have copied
(`taken`). When a run completes, the target is a copy of the source as it was at one
moment of that run: of its view, if it has one, else of any moment as long as rows are
only added behind the others (`Append`). Until then the target is emptied and
gets rows it does not have; a run under which rows changed places is `torn`, and
nothing is promised of it but that it takes no row away again. `FullSync` with one
worker implements it: `Taken` is the source until the last page is read, and from
then on what that page completes (`LastRead`); a failure or a crash is the `End` of a
run that was not `replaced`.

### SyncRun

`execution` is the executor's Python object, `row` the row in the database:
`execution.save()` writes the whole object, so that a field that was set before a failed
save reaches the database with a later one. The two `execute` methods of the table
executors differ in their checks, the exception they raise and the verdict, selected by
`full`, the job's type, which is chosen at the start and never changes. `Open` creates the
log of a table; an incremental sync validates the columns before (`incremental_sync.py`
222-229), and a table it refuses there has no log at all (`Unlogged`). What a table
holds is counted in batches. `raised` carries the exception through `Inner` (the
executor's `except`) to `Handle` and `JobFailed` (`executor.py` 125-161).

### JobLifecycle

One job. `Threads` are requests and runs in progress; each has the process
(`home`) it dies with. `status`, `enabled` and `kind` are the two rows;
`trigger[p]` is what the registry of process `p` holds. Every database statement
is an action: `Pause` is the check, `PauseSave` the `job.save()`,
`PauseDisable` the `schedule.save()`. A `job.save()` of a job that is gone
inserts it again, as Django does; a save of a row that refers to it fails. The
two saves of an edit (979 and 1025) write the same status and are one action.

### NextRun

Time is an integer. The calendar is a set of constants (`Hour`, `Day`, `Week`,
`Zone`, `Cron`), so that the small one which TLC uses keeps what matters: hours
divide days, days divide weeks, and `Zone` (Asia/Kolkata in `settings.py`) is not
whole hours. `Down` is Python's `replace(minute=0, ..)` of a UTC time,
`LocalDown` of a local one; `CalculateNextRun` is the function of that name with
its five branches, `FormTime` the calculation the wizard and the edit form have of
their own, `FirstFire` the trigger of `add_job_schedule`. The variables are the two
`next_run_at` (`next`, `shown`), the trigger (`trigger`, `fireAt`), and per run where
it is (`pc`) and what it has loaded of the job (`loaded`, `byForm`). `job.save()` writes
the whole row (`SavesJob`), hence the next run as it was loaded, over whatever has been
calculated since: `overwritten` remembers that until the next calculation. The ends of a
run differ in what comes then:

| Action | Lines of `executor.py` |
|---|---|
| `Mark` | 61-62: saved as running |
| `End`, `Recalculate` | 93-105 and 149-159: saved as completed or failed, then the next run is calculated anew, if the schedule is enabled |
| `ConnectionFails` | 125-128, 206-227: saved as failed, and no next run is calculated |
| `TableError` | 116-123: nothing is saved, the job stays running |

A run that a form starts has the schedule of the form in hand, *once*, and calculates
nothing. Everything else may come between these steps; the other handlers are one step
each, and `JobLifecycle` tells their statements apart. A scheduler that is running fires on
time. A `custom` schedule has a cron expression that stands for a period.

### IncrementalValues

A value is a record of its Python class, its number or instant, and the form
`str()` gives it. `ParsedAs` is `parse_checkpoint_value` by column type, `Above`
is `_compare_incremental_values`: two datetimes, two numbers, else two texts.
`TextAbove` compares texts as `str` does, from the digits of the numbers. `Float`
is the rounding that `float()` does beyond the integers a double can hold, with
`Exact` in the place of 2^53. `MaxValue` is the loop of `_get_max_incremental_value` over
the rows of a query, a recursive function on their number. A run is one step (`Sync`),
since failures and interleavings are in `IncrementalSync`; the specification is
`ValuesSpec`.

### TargetTable

`src` and `dst` are chosen at the start, so that one run is about all nine pairs of
databases; so are the rights of the target account (`mayCreate`) and whether
the schemas exist (`prepared`). `Place(s)` is where `table_exists`,
`truncate_table` and `bulk_insert` look, evaluated anew by each action:
the mapped schema, and for MySQL the connected database when `USE` fails.
`CreatePlace(s)` is where `create_table` puts the table. They are different code
and may differ; `at` remembers where the sync found or made its table.

A column is a kind, a size and a default. The size is what its values may need:
characters, digits after the point, fractions of a second, the unsigned half of an
integer. `MaxLength` is what `get_columns` reports of it (a length, and nothing of
digits or signs), and `Room` what the type that `map_data_type` writes from that
holds: `VARCHAR` without a length, `DECIMAL` without digits, `NVARCHAR(-1)`.
`TYPE_MAPPING` is represented by its five kinds; the entries of one kind map to
types of the same size. The source's row uses all of its column, so that a column
that is too small always shows.

| Action | Code |
|---|---|
| `Begin`, `Truncate`, `KeepRows`, `TruncateRefused` | `full_sync.py` 186-234, `incremental_sync.py` 257-266, the connectors' `truncate_table` |
| `Check`, `CheckError` | `table_handler.py` 99-106, `table_exists` |
| `Create`, `CreateRefused`, `CreateError` | `table_handler.py` 108-165, `ensure_schema_exists`, `create_table`, `_format_default_value` |
| `Insert`, `InsertRefused` | `full_sync.py` 301-313, `bulk_insert` |

MySQL is taken to be in its default strict mode, where a string or integer that
does not fit is an error. Columns of different kinds stand for tables with
different columns.

### ProgressPage

`shown` is what the page shows: the status of the badge and the logs. `Load` is the
view's read of the execution, `Rendered` the template's of the logs; only the page
of a running execution has a script. `request` is `isUpdating`: sent, or half
answered when the status is read (`ReadRow`) and the logs are not yet (`Update`).
`polling` is the timer, which `Hide` clears and `Return` sets again where the badge
says running. The run is `SyncRun`, unchanged, and its steps come between any two of
the page's. A page that is loaded again is a new page.

### ConnectorCalls

`at` is the next call and `link` the state of either connection: ready, aborted (a
PostgreSQL transaction in which a statement has failed), or dead. A `Statement` on a
connection that is ready succeeds, fails, or loses the connection; on any other it
fails for that reason. `Results` adds what the method does about it:
`get_columns` and `table_exists` try again (`TriesAgain`), `bulk_insert` and
`create_table` roll back (`RollsBack`). `NextCalls` and `Recovery` are the control
of the two `sync_table`s after a call that has succeeded or failed. `cause` is a
history variable: the calls of a table that have failed for no earlier reason. The
kinds of both databases and the mode are chosen at the start, so that one run is
about all eighteen combinations.

### Connections

A password column is blank, the marker of `fix_passwords`, a text, or a token that
holds what it was made from and the key it was made with. `Stored` is
`DatabaseConnection.save`, which encrypts what does not look encrypted, and
`Decrypted` fails for a token of another key. `Restart` takes the key from the
settings; one of the wrong length is replaced by a new one (`KeyFrom`). The command
lists all rows (`FixStart`) and works on its copies one by one (`FixMark`, `FixRead`).
`outdated` remembers over which rows it has saved an older copy.

### JobWizard

`session` is the row; a request (`req[r]`) starts with a copy (`Loads`), and where it
has changed it `Save` writes the copy back whole. `page[t]` is what a tab shows, which
may be older than the session: a second step posts its own source's tables and
what it had posted before, a third one columns for the tables it was made with.
`Create`, `AddTable`, `AddSchedule`, `RunOnce` and `Save` are the statements of
`create_job_step3_submit` in order; `Fail` is an error or the end of the process
between any two. `ConnStep` is a step of `Connections`, with the jobs a deletion takes
along.

### Plan

1. Done: the incremental and full sync, the run around them and the page that
   watches it, the calls on the connections, the life of a job, its times, its checkpoint
   values, the creation of target tables, connections, and the wizard.
2. To be modelled next: what two opposite full syncs lock in one database;
   notifications; the test logs of connections; metadata browsing for the wizard.
3. Proved: the type invariants, every safety property of the runs that pass, and the
   three refinements (section 4). To be proved next: an abstract specification of
   the wizard (a form is submitted, a job appears whole), implemented by `JobWizard`.

## 3. What TLC checks

Bounds are constants: rows, values, batch size, faults, requests, crashes,
workers. They are chosen so that a run has at least two full pages and a short or
empty one, retries run out (three failures), a second run follows or overlaps the
first, and two threads of two processes may be anywhere in their code.

### Runs that pass

| Run | Instance | Shows |
|---|---|---|
| `IncrOneRun` | 3 rows with NULLs first, batches of 2, 3 faults, a source that grows | `NothingSkipped`, `NoDoubles` (exactly one copy while nothing fails), refinement of `TableCopy`, and, with fairness, `EventuallySynced` after faults and changes stop, unless the job is stuck |
| `IncrTwoRuns` | 2 overlapping runs, 2 rows, batches of 1, snapshot, unique target, updates, deletes, resets, 1 fault | `CompletedMeansCopied` under any change, although the checkpoint may go back, and the inductive invariant (`IInv`), which implies `NothingSkipped` |
| `JobCalm` | 2 processes, 3 threads, 3 requests of any kind, 1 crash, any outcome | until something begins within the window of an unlocked check (`Calm`), runs do not overlap (`AtMostOneRun`) and are visible (`RunIsVisible`); why (`CalmInv`) |
| `JobEnds` | 3 threads, 3 requests of any kind, no table error, no crash, fair | `RunningEnds` |
| `RunAll` | 2 tables of 1 batch, full and incremental, any error, 1 failed save anywhere, 1 lost answer, a page that may be hidden at any time, fair | logs, execution and job agree (`OutcomesAgree`), a completed log is true (`CompletedIsWhole`), the verdict is honest when it is made (`VerdictIsHonest`), counters match and no table is left without a result, but for those refused before they have a log (`BooksBalance`), the run ends (`RunEnds`), it is a run of `JobLifecycle` (`ControlsJob`), and the page that watches it comes to its result (`PageSettles`) and shows it whole (`ResultIsWhole`) |
| `CallsMade` | 3 tables, all pairs of databases, both modes, with and without keys and target tables, 2 failures | a failing table does not take the next one along (`FailsAlone`), retries get over what they are for (`RetriesHeal`), pages come in the order of the key (`KeyOrdered`) |
| `JobsCreated` | 2 connections, 2 tables, 1 tab, 2 requests at once, 5 deeds, 2 first steps, 2 jobs, 1 failure, 2 passwords, a proper and any number of improper keys | a job is what one form said (`JobIsOneForm`) with all its tables (`JobIsWhole`), twins come only of requests that raced (`TwinsRaced`), and no wrong password is ever used (`NeverWrong`) |
| `ScheduleTimes` | 34 ticks: hours of 4, days of 2 hours, weeks of 2 days, zone of 1.5 hours, cron period of a day; one possible start; all requests, one run at a time with any end | what is calculated as next run lies ahead (`NextRunAhead`), stays less than a period from the clock (`NextRunIsCurrent`), and is when a cron trigger fires (`CustomRunIsKept`), each until a run writes an older one back; why (`TimesInv`) |
| `ValuesCompared` | 8 numbers of 1 to 3 digits, 8 column types, floats exact up to 100, 1 reset | no row is skipped (`NothingSkipped`), and a row is copied once per reset and once more (`OnlyNewRows`); the types (`ValuesTypeOK`) |
| `TablesCreated` | 2 schemas, 3 databases on either side, all rights, all kinds of columns, 1 failed call, 1 column that is widened, fair | each source table has a target table of its own (`OwnTable`), is written where it was found or made (`WrittenWhereCreated`), with its values or not at all (`ExactValues`), and is copied again and again if that is possible (`Arrives`) and the job is not stuck |
| `FullReplace` | 4 rows, batches of 2, 2 faults, live reads and snapshots, fair | a completed target is the source, nothing missing (`NothingMissing`), doubled or left over (`NothingElse`), and is so again and again unless the job is stuck (`ExactAgain`); refinement of `TableReplace` (`Implements`) |

Why the bounds are enough: three rows in batches of two, and two rows in batches of one,
give full pages, a short page and an empty page; three faults are what a call needs to
run out of attempts, and one more run then follows; two overlapping runs with values 1
to 3 let an update happen between any two statements of either. The calendar of
`ScheduleTimes` begins in its second week and stops in the middle of the third, so that
every trigger fires and every boundary is crossed; the clock's stop is why the runs of `NextRun` do
not check deadlock. The numbers of `ValuesCompared` have one digit more on both sides of
10 and 100, and lie on both sides of `Exact`. In `RunAll` two tables are an earlier and
a later one, and a batch is enough to insert, count and close; one lost answer leaves
the page between two requests in any state of the run. In `CallsMade` the third table
shows what the second has passed on of the first, and two failures are one in each of
two tables, or two of the three attempts of one call. In `JobsCreated` five deeds are
enough for both steps and a third one in a second request while the first is under way,
or for an edit and a restart within the command. `IncrTwoRuns` uses the symmetry of its
two threads, `JobsCreated` that of connections, tables and requests; neither has a
liveness property. `ScheduleTimes` has one run at a time, between whose steps requests and
restarts may come; of two at once speak the theorems, which prove all four of its properties
for any number.

### The run that finds a disagreement with the program's own words

It checks one property and TLC finds a counterexample; `PROJECT.json`
quotes the line of code and the sentence it contradicts.

* `RunPartial`: an execution with failed tables is shown as completed.

### Disagreements without a run of their own

The modules show these as well; each line names the instance to look at. They are
not among the standing runs, which keep one run for each question.

* `NothingSkipped` of `IncrementalSync` fails without a snapshot and with updates: an
  update of a copied row moves the rows behind it under the `OFFSET`
  (`incremental_sync.py:399`), and one of them is never synced. `create_step3.html:106`
  says "Sync only new or updated records…".
* `RunningEnds` fails with table errors in `JobLifecycle`: where an incremental sync
  ends in a `TableSyncError`, `executor.py:116` leaves the job running, for ever.
  `views.py:773` answers every later start with "Please wait for it to complete".
* `NothingSkipped` fails with `Changes = {"tie"}` (a row with the checkpoint's
  value arrives late) and with `HasPrimaryKey = FALSE` (pages of equal values have
  no order).
* `NothingSkipped` fails with NULLs where the database puts them last and reads are not
  from a snapshot (PostgreSQL). Of two values that are inserted while the first run is
  paging through the NULLs, the lower may come to lie before the offset and the higher
  behind it: the checkpoint goes to the higher, and the lower is never synced (4 rows,
  batches of 1).
* `EventuallySynced` fails with `TargetUnique = TRUE` and updates: each updated row
  is rejected, with all rows behind it.
* A reset (`ResetCheckpoint`) during a run is undone by that run's
  `WriteCheckpoint`, so that the next sync does not start over.
* `NothingMissing` fails without its condition on `shifted`, and with a `Rank`
  that has ties (a table without a primary key); `NothingElse` fails with two
  workers, which both empty the target before either fills it.
* `AtMostOneRun` fails in `Spec`, without `Calm`, with two `run_now` requests: both pass
  the check of `job_run_now`, which takes no lock, before either run has marked the job.
* A schedule that the request `update_schedule` disables stays registered:
  `UpdateSchedule` leaves `trigger` alone, and `Claim` does not look at `enabled`,
  so that it goes on starting the job.
* A job that is paused when its process restarts is not registered by `Start`, and
  `ResumeEnable` does not register it, so that it is enabled and never runs.
* `RunningEnds` fails with `MaxCrashes = 1`: no start-up corrects a status of
  running. So do `EventuallySynced`, `ExactAgain` and `Arrives` without `Stuck`: after a
  crash nothing is synced again until somebody changes the status by hand.
* `CustomRunIsKept` and `NextRunIsCurrent` fail without `overwritten`. `executor.py:152` says
  "Recalculate next_run_at even on failure"; after a failed connection that does not happen
  (`ConnectionFails`), and the job is shown with a next run that has passed until someone
  looks at it or another run calculates it; while its source is down it falls periods behind.
  A run that a form has started, and any run until it recalculates, also writes an older
  next run over what an edit or a view has calculated since.
* `BooksBalance` fails without `Unlogged`. An incremental sync validates the columns of a
  table before it creates the log, so that a table whose columns cannot be read, or whose
  incremental column is gone, leaves none. If no other table fails the executor comes to the
  branch of `incremental_sync.py:175`, "No logs created (shouldn't happen, but handle
  gracefully)", and tells of a run which has synced other tables that "No tables were
  processed".
* `RunIsVisible` fails in `Spec` with pause requests (`PauseSave` writes back a stale
  row); a pause and a resume that interleave leave `status` and `enabled` at odds;
  `EditRegister` runs a paused job that is edited to run once; `SaveResult` inserts a
  job again that was deleted during its run.
* `row.tables`, the number of completed tables, is one short at the end of a
  completed run: `Count` comes before `Close`.
* The next run of an hourly, daily or weekly job is rounded in UTC and its trigger
  fires in the server's zone: `shown = fireAt` (`CustomRunIsKept`) fails without
  `kind = "custom"`, although `service.py:176` says "Update next_run_at in database
  to match scheduler".
* `UpdateSchedule` with a start: the request stores a time without a zone,
  comparing it with the clock raises, the error is logged, and the job keeps the
  next run of its former schedule (except for cron expressions, which do not look
  at it).
* A job runs before the start its user entered: `FirstFire` and `Fire` of `NextRun`
  do not look at `start`. `create_step3.html:194` asks "When should the scheduled
  sync start?".
* `OwnTable` fails without `Apart`. All schemas of PostgreSQL or SQL Server are
  mapped to the one MySQL database, and tables of one name meet there: each full
  sync empties the other's. From MySQL to MySQL, a database that does not exist yet
  is looked up in the connected one (`mysql.py:357`); if a table of that name is
  there, it is taken as it is, emptied, and filled with the rows of another.
* `WrittenWhereCreated` fails without `Routed`. From the schema `public`,
  PostgreSQL's default, to SQL Server: the table is created in `dbo`
  (`sqlserver.py:370`, "Use the actual schema name (might be 'dbo' instead of
  'public')"), looked for, truncated and filled in `public`, and so fails every
  time. To MySQL with an account that may use a database and not create one: created
  in the connected database, filled in the other.
* `ExactValues` fails for decimals outside PostgreSQL, which are created without
  digits after the point and rounded, and for fractions of a second in MySQL.
  `TEST_DATA_ACCURACY_README.md:120` says "Every single column value matches
  exactly".
* `Definable` fails, so that no table is ever created, for strings without a length
  from PostgreSQL to MySQL, `nvarchar(max)` from SQL Server to any database,
  `TEXT` from MySQL to SQL Server (its length, 65535, is out of range),
  `getdate()` as a default from SQL Server to the others, and a serial column from
  PostgreSQL to PostgreSQL.
* `get_primary_key` of the SQL Server connector passes an object's id to
  `SCHEMA_NAME`, finds no key, and a full sync orders by the first column.
* `NextRunAhead` says nothing of `once` jobs: the next run shown of one that has
  run stays in the past.
* `OnlyNewRows` fails for `smallint`, `numeric` and `double precision` columns,
  which `_validate_incremental_column` accepts: their checkpoints are kept or read
  as another class than their rows, 9 is above 10 as text, and rows are copied at
  every run. `NothingSkipped` fails for `numeric` values beyond 2^53.
* The page that edits a connection says "Leave blank to keep existing password"
  (`connections/forms.py:45`), but a form that is posted has a `db_type`, takes the branch
  of line 32, and refuses a blank password (`Enter` always has one).
* `NeverWrong` fails without `outdated`: `fix_passwords --force` writes back the row as
  it was listed, an older password included, and creates a row that was deleted
  meanwhile again. The marker it writes replaces a password that was entered meanwhile.
* A first step that is submitted again keeps the tables that were selected for another
  source, so that a job may name tables its source does not have (`Submit1`).
* `TwinsRaced` says what remains possible: two submits at once, or a session
  written back by an older request, make two jobs of one form. A process that dies
  during the run of a *once* job has not saved the session, and a retry
  makes a second job, as after any error past `Create`, whose rows stay.
* A second step that is posted twice from one page posts its hidden inputs twice; the
  second row of a table is refused by a unique key and the job stays half made
  (`AddTable`). Errors of the schedule are logged and dropped (`AddSchedule`).
* A page opened while its execution is *pending* has no script and never moves. One
  that has stopped at *failed* keeps saying so when the executor overwrites the
  row with *completed* (`RunPartial`). After a crash it polls for ever.
* In a full sync from PostgreSQL a fetch that fails leaves the transaction aborted, and
  `get_primary_key` of the next table fails in silence: its pages are in no order
  (`KeyOrdered` excepts it). Retries of such a fetch cannot succeed (`GotOver`).
* A connection that is lost is never opened again: all tables that are left fail
  (`Lost` in `FailsAlone`). From SQL Server, a table whose first column cannot be read
  either is asked for with OFFSET and without ORDER BY, which is an error (`Refused`).
* croniter counts the days of the week from Sunday, APScheduler's `CronTrigger`
  from Monday. Expressions with a day of the week are not modelled.

### Fairness

`FairSpec` of `IncrementalSync`, `FullSync` and `TargetTable` has weak fairness of a
worker's own next step: a started thread goes on, and an idle worker stands for a job
whose recurring trigger fires again. A job that a crash has left *running* is not started
again: its workers are stuck, and `PutRight` is not fair. `Fault`s are not fair and are
bounded. In
`JobLifecycle` threads go on, triggers fire when due (a cron trigger that stays
registered is due again and again) and dead processes are restarted; requests and
crashes are not fair. In `SyncRun` the one thread goes on: every call of it returns or
raises. `FairPageSpec` adds that a page which is rendered, a timer that is set, and a
request that was sent go on; that a page is hidden or an answer lost is not fair.
`NextRun`, `IncrementalValues`, `ConnectorCalls` and `JobWizard` have safety properties
only.

Deadlock is checked where a component goes on for ever; a run ends, with its page and
its calls, a job may be deleted, and the deeds of users are bounded, so `SyncRun`,
`ProgressPage`, `ConnectorCalls`, `JobLifecycle` and `JobWizard` are run with
`CHECK_DEADLOCK FALSE`.

## 4. What is proved

For every value of the constants, by TLAPS:

* `IncrementalSyncProofs`: `TypeCorrect`; and, in the `Regime` where paging is
  sound, `Invariance`, `NothingIsSkipped`, `CompletionIsHonest`, `Refinement` and
  `NothingTwice`.
* `JobLifecycleProofs`: `TypeCorrect`; for a job that is calm (`CalmSpec`), with all
  requests, `CalmInvariance`, `RunsNeverOverlap` and `RunsAreVisible`; and `LockedIsCalm`,
  that it is calm where every run comes from a trigger and no request writes its status.
* `NextRunProofs`: `TimesInvariance`, `TypeCorrect`, `NextRunsAreAhead`,
  `CustomRunsAreKept` and `NextRunsAreCurrent`, for any number of runs at once.
* `ColumnProofs`: of target tables `TypeCorrect`, `WritesAreRouted`, `TablesAreOwn` and
  `ValuesAreExact`, for any sets of sources, targets and kinds of columns; of
  checkpoint values `ValuesTypeCorrect`, `NoRowSkipped` and `RowsCopiedOnce`, for any set
  of numbers and column types and any number of rows.
* `FullSyncProofs`: `FullTypes`; and, for a job that runs once at a time (`OnlyRun`)
  on a table with a total order (`TotalOrder`), `FullLeavesNoGap`,
  `FullLeavesNoRest`, and the refinement of `TableReplace`, `FullRefines`.
* `RunProofs`: `CompletedWhole`, `VerdictHonest`, `EndAlike`, `ProgressBehind`,
  `BooksAreBalanced`, `RunIsControlled`, and of the page `PageShowsResult`, without any
  condition.
* `ConnectorCallsProofs`: `TablesFailAlone`, `FailuresHealed` and `PagesKeyOrdered`,
  without any condition.
* `JobWizardProofs`: `PasswordRight`, `JobOneForm`, `JobWhole` and `TwinsOnlyRace`,
  without any condition.

**Regime.** A primary key, new values above all earlier ones, and rows under the
offset that do not move forward: the run reads from a snapshot; or the source only grows,
and if rows may have no value, the database puts those first, as MySQL and SQL
Server do. The instances listed in section 3 show that dropping the respective condition
breaks the property; NULLs, resets, any number of workers, faults, crashes and a unique
target are all inside the regime.

**The inductive invariant.** `NothingSkipped` speaks of the checkpoint and the
target; it is kept only because of what a run carries in its locals. `IInv` adds,
for each run: what it cannot see is newer than what it can (`ViewInv`); its
checkpoint is covered, even if another run has moved the stored one (`ReadInv`); the
rows under its offset are first in the order, and it has copied them, but for NULLs
that have come in front of them since (`Through`), so that the next page of
the database leaves nothing out; and after a short page nothing at or below the greatest
value is left (`Drained`). The heart of the proof is `FirstRowsNest`: in a total
order, of two sets of first rows the smaller lies in the larger, hence the `OFFSET`
rows the database skips *are* among those the run is through with (`NextPage`,
`ThroughPage`). A NULL that is inserted meanwhile pushes a copied row past the
offset, where it is read again: a double, never a gap (`ThroughRowAdded`).
Then each action keeps its own run's part (`..Keeps`), other runs' parts
(`OthersKeepRun`) and the source's (`SourceStepKeeps`).

`NothingTwice` adds `OnceInv` for the one run that nothing disturbs (`Quiet`, which
excludes NULLs): what has been copied lies at or below the checkpoint, or the run itself
has copied it (`CopiedUpTo`, `OwnCopies`). The next batch is neither: the query asks for
what lies above the checkpoint, and without NULLs `Through` says that the run has copied
exactly `offset` rows, so that the page continues after them.

**The lock.** A request checks the status, and writes it or starts a run later, without
a lock. From the one to the other it is `InWindow`; so is a run that was started without
a lock until it has marked the job. `Calm` says that in such a window nothing else
begins, but for deletions and changes of the schedule, which may come at any time. It is
tight: leave out any of the windows, or let any request begin in one, and TLC shows a
run that overlaps another or is not visible. `CalmInv` says that at most one thread is
`Busy`, running the job or in its window, and that the status belongs to it. An action
of that thread leaves no other busy (`BusyGoesOn`), what begins finds none
(`BeginsAlone`), and all else makes nobody busy (`NobodyBusier`). What the trigger
claims under its row lock has no window: it is marked in the same transaction. Hence a
job with nothing but triggers, deletions and changes of its schedule (`Locked`) is calm
for ever (`LockedIsCalm`), which `LockInv` shows: a run owns the status.

**The times.** A custom trigger waits for the first boundary of its period after
some earlier reading of the clock, and the row for the first boundary after
another. `SameBoundary` says that two readings without a boundary between them
have the same next one, whatever the zone; `NextLocalStays` that the clock's tick
keeps it until the trigger is due. Whatever a run has loaded may be out of date, and nothing
is proved of it; `TimesInv` holds because the run says so when it writes it back
(`overwritten`), and because only a calculation, by the schedule as it is in the row, takes
that back (`RescheduledNow`). A step that does neither keeps the times (`SavedTimes`).
`NextRunAhead` is then a property of each handler: all of them store what
`CalculateNextRun` returns, which is either nothing or later than the clock
(`CalculateType`), or, in a form, what it has corrected; `SavesJob` is the exception it
names. `NextRunIsCurrent` needs both ends: nothing that is calculated lies more than a
period ahead (`TimesNear`), and neither does what a trigger waits for (`FireNear`); and,
while a trigger waits, what is shown is less than a period before it (`ShownFresh`), so
that it is not left behind before the trigger is due.

**The tables.** `WrittenWhereCreated` is inductive with the types: a schema that
another sync creates does not move the place of this one (`PlaceStays`), and a table
that exists is never changed (`Frame`). `TablesAreOwn` needs `OwnInv`, that every row is
where its schema leads, and that no two schemas lead to one place (`Injective`).
`ValuesAreExact` needs `ShapeInv`: the columns that would round are as large as any
value of their kind wherever the type mapping says so, whenever they were made.

**The full sync.** `FullInv` says that what has been copied are the first rows of the
order the run sees, as many as the offset says and each once (`FirstRows`), and that the
batch in hand is the next of them, the last if it is short (`Due`); `OneBeginning` and
`NextPage` are the same argument as for the incremental sync. Two workers break it, as
they empty one target (section 3). For `FullRefines` `TakenInv` adds what the run has
copied by the time of its last page: the whole of its view. `AppearMaps`,
`DisappearMaps`, `ReadMaps`, `WriteMaps` and `EndMaps` are the steps of `TableReplace`
that the actions of `FullSync` are; a fetch that brings the last page of a live table is
the `Look` at which the moment it will have copied is settled.

**The values.** `ValuesInv` says that every row with a number up to the checkpoint's has
been copied (`CopiedInv`), and is copied once more than there were resets (`OnceInv`).
It rests on what the loop over the rows of a query returns, for any number of rows: one
of them (`MaxIsRow`), and, where values compare as their numbers do, the greatest
(`MaxIsGreatest`, `ComparedByNumber`). A loop is a recursive function; `FoundExists`
takes the place of induction, by the least number at which there would be no such value
(`LeastNatural`). Types that compare as text are in `NoRowSkipped`, since their queries
select too much rather than too little.

**The run.** `RunInv` says what has been done when the control is at a given place: the
table at hand is the only one without a result (`AtHand`, `LogsOfLoop`), its rows are
inserted before its log is closed, the counters lag behind the logs (`CountInv`), and a
final status of the row comes from late places or from a failure (`RowInv`). `BooksInv`
says that while nothing has failed the executor's copy of the row counts what was
inserted, but for a batch that is not saved yet. That is a sum over the tables, defined
by a fold: `SumUnfolds` is its equation, `SumsExist` that the recursion defines it for
every finite set of tables, from the smallest part for which it would not
(`MinimalPart`), and `SumType` that it is natural. The page needs that the logs no
longer change once the row says it has ended: every log is saved before.
`RunIsControlled` maps the control of the run to the three places it has in
`JobLifecycle` (`Stage`): a step that stays at one of them saves nothing of the job
(`StageStays`), the others are steps of that thread (`StageMoves`).

**The calls.** `CallInv` says which states the connections may be in when a call comes:
the first call of a table on either side puts an aborted transaction right
(`Prepared`, `CleanInv`), but for a full sync's key; while only retried calls have
failed, attempts do not outnumber failures (`HealInv`), so that fewer than three
failures never use up the attempts. `KeyOrdered` follows from when asking for a key fails
without having been made to fail: on a lost connection, where no table is completed, or
in a transaction that an earlier table has left aborted (`AbortInv`, `OrderInv`).

**The wizard.** `WizardInv` says that every copy of the session, in whatever request,
has the connections of the form it has the name of (`OneForm`), that what a job wants is
what it has and what its request has left to create (`AtWork`), and that no two requests
are at work on one job. `TwinInv` adds that a name which has not been raced for is used
by one request at a time, the first step that brings it included, and by none and no
longer by the session once a job of it is answered (`Alone`). `TokensInv` says of
passwords that a token holds what was entered, whichever key it was made with.

Assumptions are the named `ASSUME`s of the modules: finite sets of rows, of tables and
of workers, natural bounds, a positive batch size, Boolean flags, a calendar whose
periods divide each other.

Only model-checked: liveness (`EventuallySynced`, `RunningEnds`, `RunEnds`,
`PageSettles`, `ExactAgain`, `Arrives`), which needs fairness and `ENABLED`. Every other
property of the runs that pass is stated by a theorem.

## 5. Not modelled

* Values of strings, and times with different zones in one column.
  `IncrementalSync` takes values to be ordered alike in both databases and in
  Python; `IncrementalValues` says for which types they are.
* Types without a kind in `TargetTable`: binary, Boolean, JSON, UUID, floats and
  small integers; NOT NULL; the rows and columns of a table beyond one; the
  conversions of `_normalize_row`; schemas of PostgreSQL that are named `dbo`.
* Misfires: a trigger that is late by more than five minutes is dropped. In
  `JobLifecycle` a trigger is registered or not, and fires any number of times.
* Summer time, cron expressions that are not a period, months.
* Failure to start a thread after the job was marked, failure to register a job,
  jobs created through the API without a schedule, and saves that fail in
  requests.
* A unique key of a target in `FullSync`: the target was truncated, so it matters
  only to overlapping runs.
* `trigger_due_jobs`, `_prevent_concurrent_sync` and `cleanup_old_executions`:
  nothing calls them.
* Locks of the databases, and that the source's PostgreSQL transaction stays open to
  the end of a run: two full syncs in opposite directions may wait for each other.
  That two connections may be of one database, where a full sync empties its own
  source.
* Of connections, the tests, which leave a log, and the fields beside the password; of
  the wizard, names with dots in them, which its keys cut short; of the progress page,
  the export of logs and the rows of its table beyond status and result.
* Metadata pages, dashboards, reports, accounts, monitoring: no state that the above
  depends on, beyond failing to connect.
