--------------------------- MODULE JobLifecycle ---------------------------
(***************************************************************************)
(* The control plane of ONE job: the SyncJob row and its SyncSchedule row, *)
(* the APScheduler registry of every server process (scheduler/service.py),*)
(* the trigger it fires (scheduler/utils.py), the executor that runs the   *)
(* job (sync_engine/executor.py) and the requests of the user              *)
(* (sync_jobs/views.py, api_views.py).                                     *)
(*                                                                         *)
(* Every request and every run is a thread of some server process.  It     *)
(* works on its own copy of the job and writes the whole row back with     *)
(* job.save(), so that each database statement is an action of its own and *)
(* anything may happen in between.  Only the trigger takes a row lock.     *)
(***************************************************************************)
EXTENDS Naturals, FiniteSets

CONSTANTS
  Servers,      \* processes: each has a scheduler and serves requests
  Threads,      \* bound: requests and runs that are under way at a time
  MaxRequests,  \* bound: requests the user makes
  MaxCrashes,   \* bound: processes that die
  Created,      \* the schedule the wizard gave the job: "recurring", "once"
  Requests,     \* which requests the user makes, see below
  Outcomes      \* how the sync of a run may end, see below

RequestKinds == {"run_now", "pause", "resume", "schedule", "edit", "delete",
                 "bulk_delete"}

\* "ok", a TableSyncError, a ConnectionError or any other exception.
OutcomeKinds == {"ok", "table_error", "connection_error", "exception"}

ASSUME CreatedAssumption == Created \subseteq {"recurring", "once"}
ASSUME RequestsAssumption == Requests \subseteq RequestKinds
ASSUME OutcomesAssumption == Outcomes \subseteq OutcomeKinds
ASSUME LimitsAssumption == MaxRequests \in Nat /\ MaxCrashes \in Nat

VARIABLES
  status,    \* SyncJob.status, "deleted" when there is no row
  enabled,   \* SyncSchedule.is_enabled
  kind,      \* SyncSchedule.schedule_type, "none" when there is no row
  up,        \* the processes that are running
  trigger,   \* trigger[p]: what the scheduler of p holds for the job
  pc,        \* where each thread is
  home,      \* the process a thread belongs to
  form,      \* what an edit has loaded and is going to write back
  requests,  \* requests so far
  crashes    \* crashes so far

rows == <<status, enabled, kind>>
vars == <<rows, up, trigger, pc, home, form, requests, crashes>>

\* Any schedule that repeats; 'once' in the past or at no time; 'once' later.
Kinds == {"recurring", "once", "dated"}
Idle == {"pending", "completed", "failed"}
Statuses == Idle \cup {"running", "paused", "deleted"}

\* A run: create the execution, mark the job, sync, then save its result.
RunStates == {"create", "mark", "sync", "completed", "failed"}
RequestStates == {"pause", "disable", "resume", "enable",
                  "edit", "schedule", "register", "delete"}

Forms == [status : Statuses \ {"running"}, enabled : BOOLEAN, once : BOOLEAN]
NoForm == [status |-> "deleted", enabled |-> FALSE, once |-> FALSE]

TypeOK ==
  /\ status \in Statuses
  /\ enabled \in BOOLEAN
  /\ kind \in Kinds \cup {"none"}
  /\ up \subseteq Servers
  /\ trigger \in [Servers -> {"none", "cron", "date"}]
  /\ pc \in [Threads -> {"idle"} \cup RunStates \cup RequestStates]
  /\ home \in [Threads -> Servers]
  /\ form \in [Threads -> Forms]
  /\ requests \in 0..MaxRequests
  /\ crashes \in 0..MaxCrashes

Go(t, s) == pc' = [pc EXCEPT ![t] = s]

\* Thread t goes from s to n, touching nothing but the rows.
Moves(t, s, n) ==
  /\ pc[t] = s
  /\ Go(t, n)
  /\ UNCHANGED <<up, trigger, home, form, requests, crashes>>

----------------------------------------------------------------------------
(* The scheduler.                                                          *)

\* add_job_schedule: what the registry holds afterwards for a schedule of
\* kind k, which it removes when it is disabled, past or absent.
Registered(k, on) ==
  IF ~on THEN {"none"}
  ELSE CASE k = "recurring" -> {"cron"}
         [] k = "dated" -> {"date", "none"}
         [] OTHER -> {"none"}

\* Mutant: a running job is not left alone.
ClaimAnyway(t, p) ==
  /\ status \notin {"paused", "deleted"}
  /\ status' = "running"
  /\ Go(t, "create")
  /\ home' = [home EXCEPT ![t] = p]

\* execute_sync_job_direct, its locked part: a job that is running, paused or
\* gone is left alone, any other is marked and given to a new thread.
Claim(t, p) ==
  /\ status \in Idle
  /\ status' = "running"
  /\ Go(t, "create")
  /\ home' = [home EXCEPT ![t] = p]

\* The trigger of process p is due.
Fire(p) ==
  /\ p \in up
  /\ trigger[p] # "none"
  /\ trigger' = [trigger EXCEPT ![p] = IF @ = "date" THEN "none" ELSE @]
  /\ \/ \E t \in Threads : pc[t] = "idle" /\ Claim(t, p)
     \/ status \notin Idle /\ UNCHANGED <<status, pc, home>>
  /\ UNCHANGED <<enabled, kind, up, form, requests, crashes>>

\* A process starts, and load_all_jobs fills its registry.
Start(p) ==
  /\ p \notin up
  /\ up' = up \cup {p}
  /\ \E r \in Registered(kind, enabled /\ status \in Idle) :
       trigger' = [trigger EXCEPT ![p] = r]
  /\ UNCHANGED <<rows, pc, home, form, requests, crashes>>

\* A process dies with its threads and its registry; the rows stay.
Crash(p) ==
  /\ p \in up
  /\ crashes < MaxCrashes
  /\ crashes' = crashes + 1
  /\ up' = up \ {p}
  /\ trigger' = [trigger EXCEPT ![p] = "none"]
  /\ pc' = [t \in Threads |-> IF home[t] = p THEN "idle" ELSE pc[t]]
  /\ form' = [t \in Threads |-> IF home[t] = p THEN NoForm ELSE form[t]]
  /\ UNCHANGED <<rows, home, requests>>

----------------------------------------------------------------------------
(* SyncExecutor.execute.  job.save() of a deleted job inserts it again.    *)

\* create_execution; without its job there is nothing to refer to.
CreateExecution(t) ==
  /\ Moves(t, "create", IF status = "deleted" THEN "failed" ELSE "mark")
  /\ UNCHANGED rows

\* Mutant: the run starts as a job that has yet to be run.
MarkPending(t) ==
  /\ Moves(t, "mark", "sync")
  /\ status' = "pending"
  /\ UNCHANGED <<enabled, kind>>

\* self.job.status = 'running'; self.job.save()
MarkRunning(t) ==
  /\ Moves(t, "mark", "sync")
  /\ status' = "running"
  /\ UNCHANGED <<enabled, kind>>

\* Connectors and tables; the execution is saved with what came of it.
SyncOk(t) ==
  /\ "ok" \in Outcomes
  /\ status # "deleted"
  /\ Moves(t, "sync", "completed")
  /\ UNCHANGED rows

SyncFails(t) ==
  /\ Outcomes \cap {"connection_error", "exception"} # {}
  /\ status # "deleted"
  /\ Moves(t, "sync", "failed")
  /\ UNCHANGED rows

\* except TableSyncError: the execution is failed, the job is not touched.
SyncTableError(t) ==
  /\ "table_error" \in Outcomes
  /\ status # "deleted"
  /\ Moves(t, "sync", "idle")
  /\ UNCHANGED rows

\* The job is gone: saving the execution fails, in the handler too.
SyncOfNothing(t) ==
  /\ status = "deleted"
  /\ Moves(t, "sync", "idle")
  /\ UNCHANGED rows

\* Mutant: the run ends without saving the status of the job.
ForgetResult(t) ==
  /\ \/ Moves(t, "completed", "idle")
     \/ Moves(t, "failed", "idle")
  /\ UNCHANGED rows

\* self.job.status = 'completed' or 'failed'; self.job.save()
SaveResult(t) ==
  /\ \/ Moves(t, "completed", "idle") /\ status' = "completed"
     \/ Moves(t, "failed", "idle") /\ status' = "failed"
  /\ UNCHANGED <<enabled, kind>>

----------------------------------------------------------------------------
(* The user's requests.                                                    *)

\* A request of kind r arrives at a process and is given to a thread.
Request(r, t, s) ==
  /\ r \in Requests
  /\ requests < MaxRequests
  /\ requests' = requests + 1
  /\ pc[t] = "idle"
  /\ Go(t, s)
  /\ \E p \in up : home' = [home EXCEPT ![t] = p]
  /\ UNCHANGED <<up, crashes>>

\* job_run_now, api run_now: the check, without a lock; then the executor.
RunNow(t) ==
  /\ Request("run_now", t, "create")
  /\ status \in Idle
  /\ UNCHANGED <<rows, trigger, form>>

\* job_pause, bulk_pause, api pause: the check, the job, then the schedule.
Pause(t) ==
  /\ Request("pause", t, "pause")
  /\ status \in Idle
  /\ UNCHANGED <<rows, trigger, form>>

PauseSave(t) ==
  /\ Moves(t, "pause", "disable")
  /\ status' = "paused"
  /\ UNCHANGED <<enabled, kind>>

PauseDisable(t) ==
  /\ Moves(t, "disable", "idle")
  /\ enabled' = FALSE
  /\ UNCHANGED <<status, kind>>

\* job_resume, bulk_resume, api resume: the same way back; the scheduler is
\* not told.
Resume(t) ==
  /\ Request("resume", t, "resume")
  /\ status = "paused"
  /\ UNCHANGED <<rows, trigger, form>>

ResumeSave(t) ==
  /\ Moves(t, "resume", "enable")
  /\ status' = "pending"
  /\ UNCHANGED <<enabled, kind>>

ResumeEnable(t) ==
  /\ Moves(t, "enable", "idle")
  /\ enabled' = (kind # "none")
  /\ UNCHANGED <<status, kind>>

\* update_schedule: the schedule row only, whatever the job is doing.
UpdateSchedule(t) ==
  /\ Request("schedule", t, "idle")
  /\ status # "deleted" /\ kind # "none"
  /\ kind' \in Kinds
  /\ enabled' \in BOOLEAN
  /\ UNCHANGED <<status, trigger, form>>

\* Mutant: a job that is running is edited as well.
EditAnyway(t) ==
  /\ Request("edit", t, "edit")
  /\ status # "deleted"
  /\ \E b \in BOOLEAN :
       form' = [form EXCEPT ![t] =
                  [status |-> "pending", once |-> b, enabled |-> enabled]]
  /\ UNCHANGED <<rows, trigger>>

\* job_edit loads the job with its schedule, or makes a schedule.
Edit(t) ==
  /\ Request("edit", t, "edit")
  /\ status \in Idle \cup {"paused"}
  /\ \E b \in BOOLEAN :
       form' = [form EXCEPT ![t] =
                  [status |-> status, once |-> b,
                   enabled |-> IF kind = "none" THEN TRUE ELSE enabled]]
  /\ UNCHANGED <<rows, trigger>>

\* job.save(), twice: the status of the job as it was when it was loaded.
EditSaveJob(t) ==
  /\ Moves(t, "edit", "schedule")
  /\ status' = form[t].status
  /\ UNCHANGED <<enabled, kind>>

\* schedule.save(), which fails if the job is gone.
EditSaveSchedule(t) ==
  \/ /\ status # "deleted"
     /\ Moves(t, "schedule", "register")
     /\ enabled' = form[t].enabled
     /\ kind' = IF form[t].once THEN "once" ELSE "recurring"
     /\ UNCHANGED status
  \/ /\ status = "deleted"
     /\ Moves(t, "schedule", "idle")
     /\ UNCHANGED rows

\* add_job_schedule; then a 'once' job is run, in the request itself.
EditRegister(t) ==
  /\ pc[t] = "register"
  /\ \E r \in Registered(IF form[t].once THEN "once" ELSE "recurring",
                         form[t].enabled) :
       trigger' = [trigger EXCEPT ![home[t]] = r]
  /\ Go(t, IF form[t].once THEN "create" ELSE "idle")
  /\ form' = [form EXCEPT ![t] = NoForm]
  /\ UNCHANGED <<rows, up, home, requests, crashes>>

\* job_delete: off the scheduler of this process first.
Delete(t) ==
  /\ Request("delete", t, "delete")
  /\ status # "deleted"
  /\ \E p \in up : home'[t] = p /\ trigger' = [trigger EXCEPT ![p] = "none"]
  /\ UNCHANGED <<rows, form>>

\* Job and schedule are deleted together.
DeleteRows(t) ==
  /\ Moves(t, "delete", "idle")
  /\ status' = "deleted" /\ enabled' = FALSE /\ kind' = "none"

\* bulk_delete: the rows only, the schedulers are not told.
BulkDelete(t) ==
  /\ Request("bulk_delete", t, "idle")
  /\ status # "deleted"
  /\ status' = "deleted" /\ enabled' = FALSE /\ kind' = "none"
  /\ UNCHANGED <<trigger, form>>

----------------------------------------------------------------------------
\* The wizard has just created the job, at some process.  A schedule that
\* repeats is registered there; a 'once' job is run in the request itself.
Init ==
  /\ status = "pending"
  /\ enabled = TRUE
  /\ up = Servers
  /\ form = [t \in Threads |-> NoForm]
  /\ requests = 0
  /\ crashes = 0
  /\ \E p \in Servers :
       /\ home = [t \in Threads |-> p]
       /\ kind \in Created
       /\ \/ /\ kind = "recurring"
             /\ trigger = [q \in Servers |-> IF q = p THEN "cron" ELSE "none"]
             /\ pc = [t \in Threads |-> "idle"]
          \/ /\ kind = "once"
             /\ trigger = [q \in Servers |-> "none"]
             /\ \E u \in Threads :
                  pc = [t \in Threads |-> IF t = u THEN "create" ELSE "idle"]

\* What a thread does once it has started.
Step(t) ==
  \/ CreateExecution(t) \/ MarkRunning(t)
  \/ SyncOk(t) \/ SyncFails(t) \/ SyncTableError(t) \/ SyncOfNothing(t)
  \/ SaveResult(t)
  \/ PauseSave(t) \/ PauseDisable(t) \/ ResumeSave(t) \/ ResumeEnable(t)
  \/ EditSaveJob(t) \/ EditSaveSchedule(t) \/ EditRegister(t)
  \/ DeleteRows(t)

NewRequest(t) ==
  \/ RunNow(t) \/ Pause(t) \/ Resume(t) \/ UpdateSchedule(t) \/ Edit(t)
  \/ Delete(t) \/ BulkDelete(t)

Next ==
  \/ \E p \in Servers : Fire(p) \/ Start(p) \/ Crash(p)
  \/ \E t \in Threads : Step(t) \/ NewRequest(t)

Spec == Init /\ [][Next]_vars

\* Threads go on, triggers fire when they are due, processes are restarted.
FairSpec ==
  /\ Spec
  /\ \A t \in Threads : WF_vars(Step(t))
  /\ \A p \in Servers : WF_vars(Fire(p)) /\ WF_vars(Start(p))

----------------------------------------------------------------------------
(* Properties.                                                             *)

Running == {t \in Threads : pc[t] \in RunStates}

\* Two runs of the job never overlap.
AtMostOneRun == \A t, u \in Running : t = u

\* While a run works on the tables the job says so, unless it was deleted: it
\* can be neither paused, nor edited, nor started once more.
RunIsVisible ==
  \A t \in Running :
    pc[t] \in {"sync", "completed"} => status \in {"running", "deleted"}

\* Thread t goes by a check that it has made without a lock: what it is going
\* to write, or to run, is not in the row of the job yet.
InWindow(t) ==
  \/ pc[t] \in {"pause", "resume", "edit"}
  \/ pc[t] \in {"schedule", "register"} /\ form[t].once
  \/ pc[t] \in {"create", "mark"} /\ status # "running"

\* Meanwhile nothing else begins, but for deletions and new schedules.  Both
\* properties hold of a job to which that never happens.
Calm ==
  \A t, u \in Threads :
    t # u /\ InWindow(u) /\ pc[t] = "idle" => pc'[t] \in {"idle", "delete"}

CalmNext ==
  \/ \E p \in Servers : Start(p) \/ Crash(p)
  \/ \E p \in Servers : Fire(p) /\ Calm
  \/ \E t \in Threads : Step(t)
  \/ \E t \in Threads : NewRequest(t) /\ Calm

CalmSpec == Init /\ [][CalmNext]_vars

\* Why: one thread at a time has the status of the job, and unless it has yet
\* to mark it, a run has.
Busy(t) == pc[t] \in RunStates \/ InWindow(t)

CalmInv ==
  /\ TypeOK
  /\ \A t, u \in Threads : Busy(t) /\ Busy(u) => t = u
  /\ \A t \in Running :
       status \in {"running", "deleted"} \/ pc[t] \in {"create", "mark"}

\* A job that is shown as running will stop being shown as running: 'please
\* wait for it to complete' is what every refused request says.
RunningEnds == status = "running" ~> status # "running"
=============================================================================
