------------------------------ MODULE NextRun ------------------------------
(***************************************************************************)
(* When ONE job runs next, and when the program says that it will: the     *)
(* times in the two rows (SyncSchedule.next_run_at and SyncJob.next_run_at,*)
(* which the pages show as "Next Run"), calculate_next_run and             *)
(* schedule_job_execution (scheduler/utils.py), parse_cron_expression, the *)
(* triggers of the scheduler (scheduler/service.py) and the times that the *)
(* wizard and the edit form calculate themselves (sync_jobs/views.py).     *)
(*                                                                         *)
(* timezone.now() is a UTC time (USE_TZ), and what is rounded without a    *)
(* conversion is rounded in UTC.  Triggers, cron expressions and the times *)
(* a user enters are in TIME_ZONE, which is not whole hours ahead of it    *)
(* and has no summer time.                                                 *)
(*                                                                         *)
(* Time is counted in ticks from a UTC Monday at midnight.  All times in   *)
(* the rows are ticks; the clock shows n from tick n until tick n + 1.     *)
(* The runs take several steps, with anything in between: SyncExecutor     *)
(* saves the row of the job as it was loaded, twice, before the next run   *)
(* is calculated.  The other handlers are atomic here: JobLifecycle tells  *)
(* their statements apart.                                                 *)
(***************************************************************************)
EXTENDS Integers

CONSTANTS
  Hour, Day, Week,  \* ticks in each
  Zone,             \* TIME_ZONE is this much ahead of UTC
  Cron,             \* the period of the job's cron expression, in TIME_ZONE
  Horizon,          \* bound: where the clock stops
  Threads,          \* bound: the threads that can run the job
  Starts,           \* times the user enters as Start Date/Time
  Requests          \* what is asked of the server, see below

RequestKinds ==
  {"run_now", "edit", "schedule", "pause", "resume", "view", "restart"}

ASSUME CalendarAssumption ==
  /\ {Hour, Day, Week, Cron} \subseteq Nat \ {0}
  /\ Day % Hour = 0 /\ Week % Day = 0
  /\ Zone \in Nat
ASSUME BoundsAssumption ==
  /\ Horizon \in Nat
  /\ Starts \subseteq Nat \ {0}
  /\ Requests \subseteq RequestKinds

None == 0                        \* NULL; ticks that matter are later
Repeating == {"hourly", "daily", "weekly", "custom"}
Kinds == Repeating \cup {"once"}

VARIABLES
  now,       \* the clock
  status,    \* SyncJob.status; all that is not running or paused is "idle"
  kind,      \* SyncSchedule.schedule_type
  enabled,   \* SyncSchedule.is_enabled
  next,      \* SyncSchedule.next_run_at
  shown,     \* SyncJob.next_run_at
  pc,        \* where each thread is in SyncExecutor.execute
  loaded,    \* next_run_at of the job as the run of the thread has loaded it
  byForm,    \* is it the run of a form, with the 'once' schedule in hand?
  up,        \* is the process with the scheduler running?
  trigger,   \* the schedule type the registered trigger was made for
  fireAt,    \* when it fires next
  start,     \* history: the Start Date/Time of the schedule, if one was given
  overwritten \* history: has a run saved the job since shown was calculated?

runs == <<pc, loaded, byForm>>
registry == <<trigger, fireAt>>
vars == <<now, status, kind, enabled, next, shown, runs, up, registry, start,
          overwritten>>

RunStates == {"idle", "mark", "sync", "recalc"}

TypeOK ==
  /\ now \in Nat
  /\ status \in {"idle", "running", "paused"}
  /\ kind \in Kinds
  /\ enabled \in BOOLEAN
  /\ {next, shown, fireAt} \subseteq Int
  /\ pc \in [Threads -> RunStates]
  /\ loaded \in [Threads -> Int]
  /\ byForm \in [Threads -> BOOLEAN]
  /\ up \in BOOLEAN
  /\ trigger \in Kinds \cup {"none"}
  /\ start \in Starts \cup {None}
  /\ overwritten \in BOOLEAN

Period(k) == CASE k = "hourly" -> Hour
               [] k = "daily"  -> Day
               [] k = "weekly" -> Week
               [] OTHER        -> Cron

----------------------------------------------------------------------------
(* Rounding.                                                               *)

\* replace(minute=0, ..) of a UTC time; the Monday before it for a week.
Down(t, p) == t - (t % p)

\* The same of a time in TIME_ZONE.
LocalDown(t, p) == Down(t + Zone, p) - Zone

\* The first midnight of a Monday at or after midnight d.
Monday(d) == IF d % Week = 0 THEN d ELSE Down(d, Week) + Week
LocalMonday(d) == Monday(d + Zone) - Zone

\* The first boundary after t: of a trigger, of croniter.
NextLocal(t, p) == LocalDown(t, p) + p

\* Mutant: a period is rounded down, not up.
CalculateThisPeriod(k, n, t) ==
  IF k = "custom" THEN NextLocal(t, Cron)
  ELSE IF n > t THEN n
  ELSE IF k = "once" THEN None
  ELSE Down(t, Period(k))

\* Mutant: a next run is kept although it has passed.
CalculateOnce(k, n, t) ==
  IF k = "custom" THEN NextLocal(t, Cron)
  ELSE IF n # None THEN n
  ELSE IF k = "once" THEN None
  ELSE Down(t, Period(k)) + Period(k)

\* calculate_next_run at time t, of an enabled schedule with next_run_at n.
CalculateNextRun(k, n, t) ==
  IF k = "custom" THEN NextLocal(t, Cron)
  ELSE IF n > t THEN n
  ELSE IF k = "once" THEN None
  ELSE Down(t, Period(k)) + Period(k)

\* schedule_job_execution: old is kept where there is no next run.
Rescheduled(k, n, old, t) ==
  IF CalculateNextRun(k, n, t) = None THEN old ELSE CalculateNextRun(k, n, t)

\* What the wizard and the edit form put into next_run_at themselves.
FormTime(k, s, t) ==
  LET Rounded(p) == IF s = None THEN Down(t, p) ELSE LocalDown(s, p)
  IN CASE k = "once"   -> None
       [] k = "custom" -> IF s = None THEN t ELSE s
       [] k = "weekly" -> IF s = None THEN Monday(Rounded(Day))
                          ELSE LocalMonday(Rounded(Day))
       [] OTHER        -> IF Rounded(Period(k)) <= t
                          THEN Rounded(Period(k)) + Period(k)
                          ELSE Rounded(Period(k))

\* When the trigger made of a schedule at time t fires; None: there is none.
FirstFire(k, n, t) ==
  IF k # "once" THEN NextLocal(t, Period(k))
  ELSE IF n > t THEN n ELSE None

\* add_job_schedule of a schedule that is on or not, in this process.
Register(k, on, n) ==
  LET at == IF on THEN FirstFire(k, n, now) ELSE None
  IN /\ trigger' = IF at = None THEN "none" ELSE k
     /\ fireAt' = at

----------------------------------------------------------------------------
(* The scheduler.                                                          *)

\* schedule_job_execution of the schedule in the rows: nothing is saved where
\* there is no next run.
Reschedule ==
  /\ next' = Rescheduled(kind, next, next, now)
  /\ shown' = Rescheduled(kind, next, shown, now)
  /\ overwritten' = (overwritten /\ CalculateNextRun(kind, next, now) = None)

\* A run begins, with the job as it was loaded.
Begin(t, n, form) ==
  /\ pc[t] = "idle"
  /\ pc' = [pc EXCEPT ![t] = "mark"]
  /\ loaded' = [loaded EXCEPT ![t] = n]
  /\ byForm' = [byForm EXCEPT ![t] = form]

Due == up /\ trigger # "none" /\ fireAt <= now

\* Time passes.  A running scheduler is on time, to a tick.
Tick ==
  /\ now < Horizon
  /\ ~Due
  /\ now' = now + 1
  /\ UNCHANGED <<status, kind, enabled, next, shown, runs, up, registry, start,
                 overwritten>>

\* The trigger claims the job for a new thread, unless it is running or paused.
Fire ==
  /\ Due
  /\ fireAt' = IF trigger = "once" THEN None
               ELSE NextLocal(now, Period(trigger))
  /\ trigger' = IF trigger = "once" THEN "none" ELSE trigger
  /\ \/ /\ status = "idle"
        /\ status' = "running"
        /\ \E t \in Threads : Begin(t, shown, FALSE)
     \/ /\ status # "idle"
        /\ UNCHANGED <<status, runs>>
  /\ UNCHANGED <<now, kind, enabled, next, shown, up, start, overwritten>>

\* The process stops, and with it whatever is running: the rows stay.
Shutdown ==
  /\ "restart" \in Requests
  /\ up
  /\ up' = FALSE
  /\ trigger' = "none"
  /\ fireAt' = None
  /\ pc' = [t \in Threads |-> "idle"]
  /\ loaded' = [t \in Threads |-> None]
  /\ byForm' = [t \in Threads |-> FALSE]
  /\ UNCHANGED <<now, status, kind, enabled, next, shown, start, overwritten>>

\* Mutant: the trigger is registered, the rows are left as they were.
RestartOnly ==
  /\ ~up
  /\ up' = TRUE
  /\ Register(kind, enabled /\ status = "idle", next)
  /\ UNCHANGED <<now, status, kind, enabled, next, shown, runs, start,
                 overwritten>>

\* The process starts: load_all_jobs, which leaves a running job out.
Restart ==
  /\ ~up
  /\ up' = TRUE
  /\ IF enabled /\ status = "idle"
     THEN /\ Register(kind, TRUE, next)
          /\ IF fireAt' = None THEN UNCHANGED <<next, shown, overwritten>>
             ELSE Reschedule
     ELSE UNCHANGED <<next, shown, registry, overwritten>>
  /\ UNCHANGED <<now, status, kind, enabled, runs, start>>

----------------------------------------------------------------------------
(* SyncExecutor.execute.  job.save() writes the whole row, its next run    *)
(* with it, as the job was loaded; the schedule is read when it is needed. *)

\* The run of thread t is over.
Leaves(t) ==
  /\ pc' = [pc EXCEPT ![t] = "idle"]
  /\ loaded' = [loaded EXCEPT ![t] = None]
  /\ byForm' = [byForm EXCEPT ![t] = FALSE]

SavesJob(t, s) ==
  /\ status' = s
  /\ shown' = loaded[t]
  /\ overwritten' = TRUE

\* self.job.status = 'running'; self.job.save()
Mark(t) ==
  /\ pc[t] = "mark"
  /\ pc' = [pc EXCEPT ![t] = "sync"]
  /\ SavesJob(t, "running")
  /\ UNCHANGED <<now, kind, enabled, next, loaded, byForm, up, registry, start>>

\* 'completed', or 'failed' by any other exception, that of create_execution
\* included: self.job.save().
End(t) ==
  /\ pc[t] \in {"mark", "sync"}
  /\ pc' = [pc EXCEPT ![t] = "recalc"]
  /\ SavesJob(t, "idle")
  /\ UNCHANGED <<now, kind, enabled, next, loaded, byForm, up, registry, start>>

\* ... and the next run is calculated, of the schedule as it is now, or as it
\* was in the form: 'once', which has none.
Recalculate(t) ==
  /\ pc[t] = "recalc"
  /\ Leaves(t)
  /\ \/ enabled /\ ~byForm[t] /\ Reschedule
     \/ (~enabled \/ byForm[t]) /\ UNCHANGED <<next, shown, overwritten>>
  /\ UNCHANGED <<now, status, kind, enabled, up, registry, start>>

\* _handle_connection_error: the job is saved, and no next run is calculated.
ConnectionFails(t) ==
  /\ pc[t] = "sync"
  /\ Leaves(t)
  /\ SavesJob(t, "idle")
  /\ UNCHANGED <<now, kind, enabled, next, up, registry, start>>

\* except TableSyncError: the job is not touched, and goes on as 'running'.
TableError(t) ==
  /\ pc[t] = "sync"
  /\ Leaves(t)
  /\ UNCHANGED <<now, status, kind, enabled, next, shown, up, registry, start,
                 overwritten>>

----------------------------------------------------------------------------
(* The requests.                                                           *)

Asked(r) == up /\ r \in Requests

\* job_run_now: a check without a lock, then the executor.
RunNow(t) ==
  /\ Asked("run_now")
  /\ status = "idle"
  /\ Begin(t, shown, FALSE)
  /\ UNCHANGED <<now, status, kind, enabled, next, shown, up, registry, start,
                 overwritten>>

\* job_edit: a 'once' job is run in the request, also if it was paused.
Edit(k, s) ==
  LET f == FormTime(k, s, now)
      n == IF enabled THEN Rescheduled(k, f, f, now) ELSE f
  IN /\ Asked("edit")
     /\ status # "running"
     /\ kind' = k
     /\ next' = n /\ shown' = n
     /\ start' = s
     /\ overwritten' = FALSE
     /\ Register(k, enabled, n)
     /\ \/ k = "once" /\ \E t \in Threads : Begin(t, n, TRUE)
        \/ k # "once" /\ UNCHANGED runs
     /\ UNCHANGED <<now, status, enabled, up>>

\* update_schedule: a time without a zone cannot be compared with now, so that
\* nothing is calculated; in a custom schedule it is not looked at.
UpdateSchedule(k, s, on) ==
  /\ Asked("schedule")
  /\ kind' = k
  /\ enabled' = on
  /\ start' = s
  /\ \/ /\ on
        /\ next' = Rescheduled(k, s, s, now)
        /\ shown' = Rescheduled(k, s, shown, now)
        /\ overwritten' = (overwritten /\ CalculateNextRun(k, s, now) = None)
     \/ /\ ~on \/ (s # None /\ k # "custom")
        /\ next' = s
        /\ UNCHANGED <<shown, overwritten>>
  /\ UNCHANGED <<now, status, runs, up, registry>>

\* job_pause
Pause ==
  /\ Asked("pause")
  /\ status = "idle"
  /\ status' = "paused"
  /\ enabled' = FALSE
  /\ UNCHANGED <<now, kind, next, shown, runs, up, registry, start, overwritten>>

\* Mutant: the next run is left as it was when the job was paused.
ResumeOnly ==
  /\ Asked("resume")
  /\ status = "paused"
  /\ status' = "idle"
  /\ enabled' = TRUE
  /\ UNCHANGED <<now, kind, next, shown, runs, up, registry, start, overwritten>>

\* job_resume: the scheduler is not told.
Resume ==
  /\ Asked("resume")
  /\ status = "paused"
  /\ status' = "idle"
  /\ enabled' = TRUE
  /\ Reschedule
  /\ UNCHANGED <<now, kind, runs, up, registry, start>>

\* job_detail corrects a next run that has passed before it is shown.
View ==
  /\ Asked("view")
  /\ enabled
  /\ shown <= now
  /\ Reschedule
  /\ UNCHANGED <<now, status, kind, enabled, runs, up, registry, start>>

----------------------------------------------------------------------------
\* The wizard has created the job in the second week, and runs it if 'once'.
Init ==
  /\ now \in Week .. (2 * Week - 1)
  /\ kind \in Kinds
  /\ start \in Starts \cup {None}
  /\ enabled = TRUE
  /\ up = TRUE
  /\ next = Rescheduled(kind, FormTime(kind, start, now),
                        FormTime(kind, start, now), now)
  /\ shown = next
  /\ overwritten = FALSE
  /\ fireAt = FirstFire(kind, next, now)
  /\ trigger = IF fireAt = None THEN "none" ELSE kind
  /\ status = "idle"
  /\ \E t \in Threads :
       /\ pc = [u \in Threads |->
                  IF u = t /\ kind = "once" THEN "mark" ELSE "idle"]
       /\ byForm = [u \in Threads |-> u = t /\ kind = "once"]
       /\ loaded = [u \in Threads |-> IF u = t /\ kind = "once" THEN next ELSE None]

Next ==
  \/ Tick \/ Fire \/ Shutdown \/ Restart
  \/ \E t \in Threads :
       \/ Mark(t) \/ End(t) \/ Recalculate(t) \/ ConnectionFails(t)
       \/ TableError(t) \/ RunNow(t)
  \/ Pause \/ Resume \/ View
  \/ \E k \in Kinds, s \in Starts \cup {None} :
       \/ Edit(k, s)
       \/ \E on \in BOOLEAN : UpdateSchedule(k, s, on)

Spec == Init /\ [][Next]_vars

----------------------------------------------------------------------------
(* Properties.  A run saves the job with the next run as it was when the   *)
(* run began.  It calculates the next one after that, but not where its    *)
(* connection has failed, and not where a form has started it: overwritten *)
(* tells when shown is what a run has written back.                        *)

\* Whatever is calculated as the next run of an enabled schedule lies ahead,
\* even if a form has rounded it to a time that has passed.  A time that has
\* passed gets into the job in one way only: a run writes it back.
NextRunAhead ==
  [][enabled' /\ kind' \in Repeating /\ shown' # shown =>
       overwritten' \/ shown' > now]_vars

\* A job that waits for its trigger is shown with a next run that is less than
\* a period away, before or after now, unless the user asked for a start, or a
\* run has written it back and left it: the next trigger starts a run, and the
\* run calculates anew, before what is shown is a period old.
Waiting == up /\ trigger = kind /\ enabled /\ status = "idle" /\ ~Due
NextRunIsCurrent ==
  Waiting /\ ~overwritten /\ kind \in Repeating /\ start = None =>
    shown \in (now - Period(kind) + 1) .. (now + Period(kind))

\* The next run of a custom schedule, which croniter calculates, is the one for
\* which the scheduler has registered its trigger, however runs, edits, pauses
\* and restarts follow each other, until a run writes an older one back.
CustomRunIsKept == Waiting /\ ~overwritten /\ kind = "custom" => shown = fireAt

\* Why: a custom trigger always waits for the first boundary, and so does the
\* row, once it was calculated.
TimesInv ==
  /\ TypeOK
  /\ ~up => trigger = "none"
  /\ trigger = "custom" /\ fireAt > now => fireAt = NextLocal(now, Cron)
  /\ up /\ trigger = "custom" /\ kind = "custom" /\ enabled /\ status = "idle"
       /\ fireAt > now /\ ~overwritten => shown = fireAt
=============================================================================
