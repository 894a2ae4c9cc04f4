------------------------- MODULE JobLifecycleProofs -------------------------
(***************************************************************************)
(* Proofs about JobLifecycle, for every number of server processes,        *)
(* threads, requests and crashes.  Type correctness needs no hypothesis.   *)
(* That runs never overlap, and that the status of the job tells of them,  *)
(* holds as long as the job is Calm, by the invariant CalmInv.  Where all  *)
(* runs come from triggers and no request writes the status (Locked), the  *)
(* job is always calm, by the invariant LockInv.                           *)
(***************************************************************************)
EXTENDS JobLifecycle, TLAPS

\* The sets TypeOK speaks of.
USE DEF RunStates, RequestStates

LEMMA StatusTypes ==
  /\ Idle \subseteq Statuses \ {"running"}
  /\ {"running", "paused", "deleted"} \subseteq Statuses
  /\ NoForm \in Forms
  BY DEF Idle, Statuses, NoForm, Forms

LEMMA RegisteredType ==
  ASSUME NEW k, NEW on \in BOOLEAN, NEW r \in Registered(k, on)
  PROVE  r \in {"none", "cron", "date"}
  BY DEF Registered

LEMMA MovesType ==
  ASSUME TypeOK, NEW t \in Threads, NEW s,
         NEW n \in {"idle"} \cup RunStates \cup RequestStates,
         Moves(t, s, n)
  PROVE  /\ pc' \in [Threads -> {"idle"} \cup RunStates \cup RequestStates]
         /\ pc[t] = s /\ pc' = [pc EXCEPT ![t] = n]
         /\ UNCHANGED <<up, trigger, home, form, requests, crashes>>
  BY DEF Moves, Go, TypeOK

LEMMA RequestType ==
  ASSUME TypeOK, NEW t \in Threads, NEW r, NEW s,
         s \in {"idle"} \cup RunStates \cup RequestStates,
         Request(r, t, s)
  PROVE  /\ pc' \in [Threads -> {"idle"} \cup RunStates \cup RequestStates]
         /\ home' \in [Threads -> Servers]
         /\ requests' \in 0..MaxRequests
         /\ UNCHANGED <<up, crashes>>
  <1>1. pc' = [pc EXCEPT ![t] = s] /\ UNCHANGED <<up, crashes>>
    BY DEF Request, Go
  <1>2. home' \in [Threads -> Servers]
    BY DEF Request, TypeOK
  <1>3. requests' \in 0..MaxRequests
    BY LimitsAssumption DEF Request, TypeOK
  <1>4. QED
    BY <1>1, <1>2, <1>3 DEF TypeOK

LEMMA SchedulerType ==
  ASSUME TypeOK, NEW p \in Servers, Fire(p) \/ Start(p) \/ Crash(p)
  PROVE  TypeOK'
  <1>1. CASE Fire(p)
    <2>1. /\ trigger' \in [Servers -> {"none", "cron", "date"}]
          /\ UNCHANGED <<enabled, kind, up, form, requests, crashes>>
      BY <1>1 DEF Fire, TypeOK
    <2>2. ASSUME NEW t \in Threads, Claim(t, p)
          PROVE  /\ status' \in Statuses
                 /\ pc' \in [Threads -> {"idle"} \cup RunStates
                                                 \cup RequestStates]
                 /\ home' \in [Threads -> Servers]
      BY <2>2, StatusTypes DEF Claim, Go, TypeOK
    <2>3. QED
      BY <1>1, <2>1, <2>2 DEF Fire, TypeOK
  <1>2. CASE Start(p)
    <2>1. PICK r \in Registered(kind, enabled /\ status \in Idle) :
            trigger' = [trigger EXCEPT ![p] = r]
      BY <1>2 DEF Start
    <2>2. r \in {"none", "cron", "date"}
      BY RegisteredType
    <2>3. QED
      BY <1>2, <2>1, <2>2 DEF Start, rows, TypeOK
  <1>3. CASE Crash(p)
    <2>1. crashes' \in 0..MaxCrashes
      BY <1>3, LimitsAssumption DEF Crash, TypeOK
    <2>2. form' \in [Threads -> Forms]
      BY <1>3, StatusTypes DEF Crash, TypeOK
    <2>3. pc' \in [Threads -> {"idle"} \cup RunStates \cup RequestStates]
      BY <1>3 DEF Crash, TypeOK
    <2>4. QED
      BY <1>3, <2>1, <2>2, <2>3 DEF Crash, rows, TypeOK
  <1>4. QED
    BY <1>1, <1>2, <1>3

LEMMA StepType ==
  ASSUME TypeOK, NEW t \in Threads, Step(t)
  PROVE  TypeOK'
  <1>1. CASE CreateExecution(t)
    <2>1. CASE status = "deleted"
      BY <1>1, <2>1, MovesType DEF CreateExecution, rows, TypeOK
    <2>2. CASE status # "deleted"
      BY <1>1, <2>2, MovesType DEF CreateExecution, rows, TypeOK
    <2>3. QED
      BY <2>1, <2>2
  <1>2. CASE MarkRunning(t)
    BY <1>2, MovesType, StatusTypes DEF MarkRunning, TypeOK
  <1>3. CASE SyncOk(t) \/ SyncFails(t) \/ SyncTableError(t) \/ SyncOfNothing(t)
    BY <1>3, MovesType
      DEF SyncOk, SyncFails, SyncTableError, SyncOfNothing, rows, TypeOK
  <1>4. CASE SaveResult(t)
    <2>1. /\ status' \in Statuses /\ UNCHANGED <<enabled, kind>>
          /\ Moves(t, "completed", "idle") \/ Moves(t, "failed", "idle")
      BY <1>4 DEF SaveResult, Statuses, Idle
    <2>2. QED
      BY <2>1, MovesType DEF TypeOK
  <1>5. CASE PauseSave(t) \/ ResumeSave(t)
    <2>1. /\ status' \in Statuses /\ UNCHANGED <<enabled, kind>>
          /\ Moves(t, "pause", "disable") \/ Moves(t, "resume", "enable")
      BY <1>5 DEF PauseSave, ResumeSave, Statuses, Idle
    <2>2. QED
      BY <2>1, MovesType DEF TypeOK
  <1>6. CASE PauseDisable(t) \/ ResumeEnable(t)
    BY <1>6, MovesType DEF PauseDisable, ResumeEnable, TypeOK
  <1>7. CASE EditSaveJob(t)
    <2>1. status' \in Statuses
      BY <1>7 DEF EditSaveJob, TypeOK, Forms
    <2>2. QED
      BY <1>7, <2>1, MovesType DEF EditSaveJob, TypeOK
  <1>8. CASE EditSaveSchedule(t)
    <2>1. /\ status' = status /\ enabled' \in BOOLEAN
          /\ kind' \in Kinds \cup {"none"}
          /\ \/ Moves(t, "schedule", "register")
             \/ Moves(t, "schedule", "idle")
      BY <1>8 DEF EditSaveSchedule, rows, TypeOK, Forms, Kinds
    <2>2. QED
      BY <2>1, MovesType DEF TypeOK
  <1>9. CASE EditRegister(t)
    <2>1. form[t].enabled \in BOOLEAN
      BY DEF TypeOK, Forms
    <2>2. PICK r \in Registered(IF form[t].once THEN "once" ELSE "recurring",
                                form[t].enabled) :
            trigger' = [trigger EXCEPT ![home[t]] = r]
      BY <1>9 DEF EditRegister
    <2>3. r \in {"none", "cron", "date"}
      BY <2>1, RegisteredType
    <2>4. QED
      BY <1>9, <2>2, <2>3, StatusTypes DEF EditRegister, Go, rows, TypeOK
  <1>10. CASE DeleteRows(t)
    BY <1>10, MovesType, StatusTypes DEF DeleteRows, TypeOK
  <1>11. QED
    BY <1>1, <1>2, <1>3, <1>4, <1>5, <1>6, <1>7, <1>8, <1>9, <1>10 DEF Step

LEMMA NewRequestType ==
  ASSUME TypeOK, NEW t \in Threads, NewRequest(t)
  PROVE  TypeOK'
  <1>1. CASE RunNow(t) \/ Pause(t) \/ Resume(t)
    BY <1>1, RequestType DEF RunNow, Pause, Resume, rows, TypeOK
  <1>2. CASE UpdateSchedule(t)
    BY <1>2, RequestType DEF UpdateSchedule, TypeOK
  <1>3. CASE Edit(t)
    <2>1. ASSUME NEW b \in BOOLEAN
          PROVE  [status |-> status, once |-> b,
                  enabled |-> IF kind = "none" THEN TRUE ELSE enabled]
                   \in Forms
      BY <1>3 DEF Edit, TypeOK, Forms, Idle, Statuses
    <2>2. form' \in [Threads -> Forms]
      BY <1>3, <2>1 DEF Edit, TypeOK
    <2>3. QED
      BY <1>3, <2>2, RequestType DEF Edit, rows, TypeOK
  <1>4. CASE Delete(t)
    <2>1. trigger' \in [Servers -> {"none", "cron", "date"}]
      BY <1>4 DEF Delete, TypeOK
    <2>2. QED
      BY <1>4, <2>1, RequestType DEF Delete, rows, TypeOK
  <1>5. CASE BulkDelete(t)
    BY <1>5, RequestType, StatusTypes DEF BulkDelete, TypeOK
  <1>6. QED
    BY <1>1, <1>2, <1>3, <1>4, <1>5 DEF NewRequest

LEMMA TypeStep == TypeOK /\ [Next]_vars => TypeOK'
  <1> SUFFICES ASSUME TypeOK, [Next]_vars
               PROVE  TypeOK'
    OBVIOUS
  <1>1. CASE UNCHANGED vars
    BY <1>1 DEF vars, rows, TypeOK
  <1>2. QED
    BY <1>1, SchedulerType, StepType, NewRequestType DEF Next

LEMMA TypeInit == Init => TypeOK
  BY CreatedAssumption, StatusTypes, LimitsAssumption
    DEF Init, TypeOK, Kinds, Statuses, Idle

\* Type correctness of the whole control plane, for every request and failure.
THEOREM TypeCorrect == Spec => []TypeOK
  BY TypeInit, TypeStep, PTL DEF Spec

----------------------------------------------------------------------------
(* One run at a time, while the job is calm.                               *)

\* CalmInv without the types.
OneBusy == \A t, u \in Threads : Busy(t) /\ Busy(u) => t = u
RunsShown ==
  \A t \in Running :
    status \in {"running", "deleted"} \/ pc[t] \in {"create", "mark"}

\* Nobody becomes busy, and the status stays or the job is deleted.
LEMMA NobodyBusier ==
  ASSUME OneBusy, RunsShown,
         \A t \in Threads : Busy(t)' => Busy(t),
         \A t \in Threads : pc'[t] \in RunStates => pc'[t] = pc[t],
         status' \in {status, "deleted"}
  PROVE  OneBusy' /\ RunsShown'
  BY DEF OneBusy, RunsShown, Running

\* The one that is busy goes on, with any status that its place allows.
LEMMA BusyGoesOn ==
  ASSUME OneBusy, NEW t \in Threads, Busy(t),
         \A u \in Threads \ {t} : pc'[u] = pc[u] /\ form'[u] = form[u],
         pc'[t] \in RunStates =>
           status' \in {"running", "deleted"} \/ pc'[t] \in {"create", "mark"}
  PROVE  OneBusy' /\ RunsShown'
  <1>1. ASSUME NEW u \in Threads, Busy(u)'
        PROVE  u = t
    <2> SUFFICES ASSUME u # t PROVE FALSE
      OBVIOUS
    <2>1. ~Busy(u)
      BY DEF OneBusy
    <2>2. QED
      BY <1>1, <2>1 DEF Busy, InWindow
  <1>2. \A u \in Threads : pc'[u] \in RunStates => u = t
    BY <1>1 DEF Busy
  <1>3. QED
    BY <1>1, <1>2 DEF OneBusy, RunsShown, Running

\* What begins outside every window, with a job that is not running, finds
\* nobody busy.
LEMMA BeginsAlone ==
  ASSUME RunsShown, NEW t \in Threads, pc[t] = "idle",
         status \notin {"running", "deleted"},
         \A u \in Threads \ {t} : ~InWindow(u),
         \A u \in Threads \ {t} : pc'[u] = pc[u] /\ form'[u] = form[u],
         pc'[t] \in RunStates => pc'[t] = "create"
  PROVE  OneBusy' /\ RunsShown'
  <1>1. \A u \in Threads \ {t} : ~Busy(u)
    BY DEF RunsShown, Running, Busy, InWindow
  <1>2. \A u \in Threads \ {t} : ~Busy(u)'
    BY <1>1 DEF Busy, InWindow
  <1>3. QED
    BY <1>2 DEF OneBusy, RunsShown, Running, Busy

LEMMA CalmScheduler ==
  ASSUME CalmInv, NEW p \in Servers, (Fire(p) /\ Calm) \/ Start(p) \/ Crash(p)
  PROVE  OneBusy' /\ RunsShown'
  <1>0. TypeOK /\ OneBusy /\ RunsShown
    BY DEF CalmInv, OneBusy, RunsShown
  <1>1. ASSUME NEW t \in Threads, pc[t] = "idle", Claim(t, p), form' = form, Calm
        PROVE  OneBusy' /\ RunsShown'
    <2>1. /\ status \notin {"running", "deleted"}
          /\ pc' = [pc EXCEPT ![t] = "create"]
      BY <1>1 DEF Claim, Go, Idle
    <2>2. pc'[t] = "create" /\ \A u \in Threads \ {t} : pc'[u] = pc[u]
      BY <1>0, <2>1 DEF TypeOK
    <2>3. \A u \in Threads \ {t} : ~InWindow(u)
      BY <1>1, <2>2 DEF Calm
    <2>4. QED
      BY <1>0, <1>1, <2>1, <2>2, <2>3, BeginsAlone
  <1>2. ASSUME UNCHANGED <<status, pc, form>>
        PROVE  OneBusy' /\ RunsShown'
    BY <1>0, <1>2, NobodyBusier DEF Busy, InWindow
  <1>3. ASSUME Crash(p)
        PROVE  OneBusy' /\ RunsShown'
    <2>1. /\ status' = status
          /\ \A t \in Threads :
               \/ pc'[t] = "idle"
               \/ pc'[t] = pc[t] /\ form'[t] = form[t]
      BY <1>3 DEF Crash, rows
    <2>2. QED
      BY <1>0, <2>1, NobodyBusier DEF Busy, InWindow
  <1>4. QED
    BY <1>1, <1>2, <1>3 DEF Fire, Start, rows

LEMMA CalmStep ==
  ASSUME CalmInv, NEW t \in Threads, Step(t)
  PROVE  OneBusy' /\ RunsShown'
  <1>0. TypeOK /\ OneBusy /\ RunsShown
    BY DEF CalmInv, OneBusy, RunsShown
  <1> DEFINE Others == \A u \in Threads \ {t} : pc'[u] = pc[u] /\ form'[u] = form[u]
  <1>1. CASE CreateExecution(t)
    <2>1. /\ pc[t] = "create" /\ Others
          /\ pc'[t] \in {"failed", "mark"}
          /\ pc'[t] = "failed" => status' = "deleted"
      BY <1>0, <1>1 DEF CreateExecution, Moves, Go, rows, TypeOK
    <2>2. QED
      BY <1>0, <2>1, BusyGoesOn DEF Busy
  <1>2. CASE MarkRunning(t)
    <2>1. pc[t] = "mark" /\ Others /\ status' = "running"
      BY <1>0, <1>2 DEF MarkRunning, Moves, Go, TypeOK
    <2>2. QED
      BY <1>0, <2>1, BusyGoesOn DEF Busy
  <1>3. CASE SyncOk(t) \/ SyncFails(t) \/ SyncTableError(t) \/ SyncOfNothing(t)
    <2>1. /\ pc[t] = "sync" /\ Others /\ status' = status
      BY <1>0, <1>3
        DEF SyncOk, SyncFails, SyncTableError, SyncOfNothing, Moves, Go, rows, TypeOK
    <2>2. status \in {"running", "deleted"}
      BY <1>0, <2>1 DEF RunsShown, Running
    <2>3. QED
      BY <1>0, <2>1, <2>2, BusyGoesOn DEF Busy
  <1>4. CASE SaveResult(t)
    <2>1. pc[t] \in {"completed", "failed"} /\ Others /\ pc'[t] = "idle"
      BY <1>0, <1>4 DEF SaveResult, Moves, Go, TypeOK
    <2>2. QED
      BY <1>0, <2>1, BusyGoesOn DEF Busy
  <1>5. CASE PauseSave(t) \/ ResumeSave(t)
    <2>1. /\ pc[t] \in {"pause", "resume"} /\ Others
          /\ pc'[t] \in {"disable", "enable"}
      BY <1>0, <1>5 DEF PauseSave, ResumeSave, Moves, Go, TypeOK
    <2>2. QED
      BY <1>0, <2>1, BusyGoesOn DEF Busy, InWindow
  <1>6. CASE EditSaveJob(t)
    <2>1. pc[t] = "edit" /\ Others /\ pc'[t] = "schedule"
      BY <1>0, <1>6 DEF EditSaveJob, Moves, Go, TypeOK
    <2>2. QED
      BY <1>0, <2>1, BusyGoesOn DEF Busy, InWindow
  <1>7. CASE EditSaveSchedule(t)
    <2>1. /\ pc[t] = "schedule" /\ Others /\ pc'[t] \in {"register", "idle"}
          /\ status' = status /\ form' = form
      BY <1>0, <1>7 DEF EditSaveSchedule, Moves, Go, rows, TypeOK
    <2>2. CASE form[t].once
      BY <1>0, <2>1, <2>2, BusyGoesOn DEF Busy, InWindow
    <2>3. CASE ~form[t].once
      BY <1>0, <2>1, <2>3, NobodyBusier DEF Busy, InWindow
    <2>4. QED
      BY <2>2, <2>3
  <1>8. CASE EditRegister(t)
    <2>1. /\ pc[t] = "register" /\ Others /\ status' = status
          /\ pc'[t] = IF form[t].once THEN "create" ELSE "idle"
      BY <1>0, <1>8 DEF EditRegister, Go, rows, TypeOK
    <2>2. CASE form[t].once
      BY <1>0, <2>1, <2>2, BusyGoesOn DEF Busy, InWindow
    <2>3. CASE ~form[t].once
      BY <1>0, <2>1, <2>3, NobodyBusier DEF Busy, InWindow
    <2>4. QED
      BY <2>2, <2>3
  <1>9. CASE PauseDisable(t) \/ ResumeEnable(t) \/ DeleteRows(t)
    <2>1. /\ pc[t] \notin RunStates /\ Others /\ pc'[t] = "idle"
          /\ status' \in {status, "deleted"}
      BY <1>0, <1>9 DEF PauseDisable, ResumeEnable, DeleteRows, Moves, Go, TypeOK
    <2>2. QED
      BY <1>0, <2>1, NobodyBusier DEF Busy, InWindow
  <1>10. QED
    BY <1>1, <1>2, <1>3, <1>4, <1>5, <1>6, <1>7, <1>8, <1>9 DEF Step

LEMMA CalmRequest ==
  ASSUME CalmInv, Calm, NEW t \in Threads, NewRequest(t)
  PROVE  OneBusy' /\ RunsShown'
  <1>0. TypeOK /\ OneBusy /\ RunsShown
    BY DEF CalmInv, OneBusy, RunsShown
  <1> DEFINE Others == \A u \in Threads \ {t} : pc'[u] = pc[u] /\ form'[u] = form[u]
  <1>1. CASE RunNow(t) \/ Pause(t) \/ Resume(t) \/ Edit(t)
    <2>1. /\ pc[t] = "idle" /\ status \notin {"running", "deleted"} /\ Others
          /\ pc'[t] \in {"create", "pause", "resume", "edit"}
      BY <1>0, <1>1 DEF RunNow, Pause, Resume, Edit, Request, Go, Idle, TypeOK
    <2>2. \A u \in Threads \ {t} : ~InWindow(u)
      BY <2>1 DEF Calm
    <2>3. QED
      BY <1>0, <2>1, <2>2, BeginsAlone
  <1>2. CASE UpdateSchedule(t) \/ Delete(t) \/ BulkDelete(t)
    <2>1. /\ pc[t] = "idle" /\ Others /\ pc'[t] \in {"idle", "delete"}
          /\ status' \in {status, "deleted"}
      BY <1>0, <1>2
        DEF UpdateSchedule, Delete, BulkDelete, Request, Go, rows, TypeOK
    <2>2. QED
      BY <1>0, <2>1, NobodyBusier DEF Busy, InWindow
  <1>3. QED
    BY <1>1, <1>2 DEF NewRequest

LEMMA CalmInit == Init => CalmInv
  <1> SUFFICES ASSUME Init
               PROVE  OneBusy /\ RunsShown
    BY TypeInit DEF CalmInv, OneBusy, RunsShown
  <1>1. \E u : \A t \in Threads : pc[t] = "idle" \/ (t = u /\ pc[t] = "create")
    BY DEF Init
  <1>2. QED
    BY <1>1 DEF OneBusy, RunsShown, Running, Busy, InWindow

\* While a job is calm, whatever is requested, fired, restarted or deleted, one
\* thread at a time has its status.
THEOREM CalmInvariance == CalmSpec => []CalmInv
  <1>1. CalmInv /\ [CalmNext]_vars => CalmInv'
    <2> SUFFICES ASSUME CalmInv, [CalmNext]_vars
                 PROVE  CalmInv'
      OBVIOUS
    <2>1. TypeOK'
      BY TypeStep DEF CalmInv, CalmNext, Next
    <2>2. CASE CalmNext
      BY <2>1, <2>2, CalmScheduler, CalmStep, CalmRequest
        DEF CalmNext, CalmInv, OneBusy, RunsShown
    <2>3. CASE UNCHANGED vars
      BY <2>1, <2>3 DEF vars, rows, CalmInv, Busy, InWindow, Running
    <2>4. QED
      BY <2>2, <2>3
  <1>2. QED
    BY CalmInit, <1>1, PTL DEF CalmSpec

\* Two runs of a job overlap only if something has begun between the check of
\* a request and its write, or between a start without a lock and its mark.
THEOREM RunsNeverOverlap == CalmSpec => []AtMostOneRun
  <1>1. CalmInv => AtMostOneRun
    BY DEF CalmInv, AtMostOneRun, Running, Busy
  <1>2. QED
    BY <1>1, CalmInvariance, PTL

\* Until then a run in progress is always shown: nobody can pause it by mistake.
THEOREM RunsAreVisible == CalmSpec => []RunIsVisible
  <1>1. CalmInv => RunIsVisible
    BY DEF CalmInv, RunIsVisible
  <1>2. QED
    BY <1>1, CalmInvariance, PTL

----------------------------------------------------------------------------
(* A job that is always calm: every run starts from the locked trigger,    *)
(* and no request writes the status of a job it has loaded earlier.        *)

Locked ==
  /\ Requests \subseteq {"schedule", "delete", "bulk_delete"}
  /\ Created \subseteq {"recurring"}

\* A run owns the status.
RunOwnsStatus ==
  /\ \A t \in Threads : pc[t] \in {"idle", "delete"} \cup RunStates
  /\ \A t \in Running : status \in {"running", "deleted"}

LockInv == TypeOK /\ RunOwnsStatus /\ AtMostOneRun

\* No thread enters a run: what is known of runs and status is kept when the
\* status stays, or the job is deleted.
LEMMA NoNewRun ==
  ASSUME RunOwnsStatus, AtMostOneRun,
         \A t \in Threads : pc'[t] \in {"idle", "delete"} \cup RunStates,
         \A t \in Threads : pc'[t] \in RunStates => pc[t] \in RunStates,
         status' \in {status, "deleted"}
  PROVE  RunOwnsStatus' /\ AtMostOneRun'
  BY DEF RunOwnsStatus, AtMostOneRun, Running

\* A run that saves the status of its job is the only one: it goes on with the
\* job marked as running, or it ends and there is none.
LEMMA OwnerSaves ==
  ASSUME TypeOK, RunOwnsStatus, AtMostOneRun,
         NEW t \in Threads, pc[t] \in RunStates,
         NEW n \in RunStates, pc' = [pc EXCEPT ![t] = n],
         status' = "running"
  PROVE  RunOwnsStatus' /\ AtMostOneRun'
  BY DEF TypeOK, RunOwnsStatus, AtMostOneRun, Running

LEMMA OwnerEnds ==
  ASSUME TypeOK, RunOwnsStatus, AtMostOneRun,
         NEW t \in Threads, pc[t] \in RunStates,
         pc' = [pc EXCEPT ![t] = "idle"]
  PROVE  RunOwnsStatus' /\ AtMostOneRun'
  BY DEF TypeOK, RunOwnsStatus, AtMostOneRun, Running

\* The trigger starts a run only where there is none.
LEMMA ClaimKeeps ==
  ASSUME TypeOK, RunOwnsStatus, AtMostOneRun,
         NEW t \in Threads, NEW p, Claim(t, p)
  PROVE  RunOwnsStatus' /\ AtMostOneRun'
  <1>1. Running = {}
    BY DEF Claim, RunOwnsStatus, Idle
  <1>2. pc' = [pc EXCEPT ![t] = "create"] /\ status' = "running"
    BY DEF Claim, Go
  <1>3. \A u \in Threads : pc'[u] \in RunStates => u = t
    BY <1>1, <1>2 DEF Running, TypeOK
  <1>4. QED
    BY <1>2, <1>3 DEF TypeOK, RunOwnsStatus, AtMostOneRun, Running

LEMMA LockStep == Locked /\ LockInv /\ [Next]_vars => LockInv'
  <1> SUFFICES ASSUME Locked, LockInv, [Next]_vars
               PROVE  RunOwnsStatus' /\ AtMostOneRun'
    BY TypeStep DEF LockInv
  <1>0. TypeOK /\ RunOwnsStatus /\ AtMostOneRun
    BY DEF LockInv
  <1>1. ASSUME NEW p \in Servers, Fire(p)
        PROVE  RunOwnsStatus' /\ AtMostOneRun'
    <2>1. CASE \E t \in Threads : Claim(t, p)
      BY <1>0, <2>1, ClaimKeeps
    <2>2. CASE UNCHANGED <<status, pc>>
      BY <1>0, <2>2, NoNewRun DEF RunOwnsStatus
    <2>3. QED
      BY <1>1, <2>1, <2>2 DEF Fire
  <1>2. ASSUME NEW p \in Servers, Start(p) \/ Crash(p)
        PROVE  RunOwnsStatus' /\ AtMostOneRun'
    <2>1. /\ status' = status
          /\ \A t \in Threads : pc'[t] = pc[t] \/ pc'[t] = "idle"
      BY <1>2 DEF Start, Crash, rows, TypeOK
    <2>2. QED
      BY <1>0, <2>1, NoNewRun DEF RunOwnsStatus
  <1>3. ASSUME NEW t \in Threads, Step(t)
        PROVE  RunOwnsStatus' /\ AtMostOneRun'
    <2>0. pc[t] \in {"idle", "delete"} \cup RunStates
      BY <1>0 DEF RunOwnsStatus
    <2>1. CASE CreateExecution(t)
      <3>1. /\ status' = status
            /\ \E n \in RunStates : pc' = [pc EXCEPT ![t] = n]
            /\ pc[t] \in RunStates
        BY <2>1 DEF CreateExecution, Moves, Go, rows
      <3>2. QED
        BY <1>0, <3>1, NoNewRun DEF RunOwnsStatus, TypeOK
    <2>2. CASE MarkRunning(t)
      <3>1. /\ pc[t] \in RunStates /\ status' = "running"
            /\ pc' = [pc EXCEPT ![t] = "sync"] /\ "sync" \in RunStates
        BY <2>2 DEF MarkRunning, Moves, Go, RunStates
      <3>2. QED
        BY <1>0, <3>1, OwnerSaves
    <2>3. CASE SyncOk(t) \/ SyncFails(t) \/ SyncTableError(t)
               \/ SyncOfNothing(t)
      <3>1. /\ status' = status /\ pc[t] = "sync"
            /\ \E n \in {"idle", "completed", "failed"} :
                 pc' = [pc EXCEPT ![t] = n]
        BY <2>3
          DEF SyncOk, SyncFails, SyncTableError, SyncOfNothing, Moves, Go, rows
      <3>2. QED
        BY <1>0, <3>1, NoNewRun DEF RunOwnsStatus, TypeOK
    <2>4. CASE SaveResult(t)
      <3>1. pc[t] \in RunStates /\ pc' = [pc EXCEPT ![t] = "idle"]
        BY <2>4 DEF SaveResult, Moves, Go, RunStates
      <3>2. QED
        BY <1>0, <3>1, OwnerEnds
    <2>5. CASE DeleteRows(t)
      <3>1. status' = "deleted" /\ pc' = [pc EXCEPT ![t] = "idle"]
        BY <2>5 DEF DeleteRows, Moves, Go
      <3>2. QED
        BY <1>0, <3>1, NoNewRun DEF RunOwnsStatus, TypeOK
    <2>6. QED
      BY <1>3, <2>0, <2>1, <2>2, <2>3, <2>4, <2>5
        DEF Step, PauseSave, PauseDisable, ResumeSave, ResumeEnable,
            EditSaveJob, EditSaveSchedule, EditRegister, Moves
  <1>4. ASSUME NEW t \in Threads, NewRequest(t)
        PROVE  RunOwnsStatus' /\ AtMostOneRun'
    <2>1. /\ status' \in {status, "deleted"}
          /\ \E n \in {"idle", "delete"} : pc' = [pc EXCEPT ![t] = n]
      BY <1>4
        DEF NewRequest, RunNow, Pause, Resume, UpdateSchedule, Edit, Delete,
            BulkDelete, Request, Go, rows, Locked
    <2>2. QED
      BY <1>0, <2>1, NoNewRun DEF RunOwnsStatus, TypeOK
  <1>5. CASE UNCHANGED vars
    BY <1>0, <1>5, NoNewRun DEF vars, rows, RunOwnsStatus
  <1>6. QED
    BY <1>1, <1>2, <1>3, <1>4, <1>5 DEF Next

LEMMA LockInit == Locked /\ Init => LockInv
  <1> SUFFICES ASSUME Locked, Init
               PROVE  RunOwnsStatus /\ AtMostOneRun
    BY TypeInit DEF LockInv
  <1>1. \A t \in Threads : pc[t] = "idle"
    BY DEF Init, Locked
  <1>2. QED
    BY <1>1 DEF RunOwnsStatus, AtMostOneRun, Running

\* Under the locked regime a run owns the status of its job at every moment,
\* whatever is fired, restarted, deleted or rescheduled meanwhile.
THEOREM LockInvariance == Locked => (Spec => []LockInv)
  <1> SUFFICES ASSUME Locked
               PROVE  Spec => []LockInv
    OBVIOUS
  <1>1. Init => LockInv
    BY LockInit
  <1>2. LockInv /\ [Next]_vars => LockInv'
    BY LockStep
  <1>3. QED
    BY <1>1, <1>2, PTL DEF Spec

\* With a job that is gone nothing begins.
LEMMA NothingBegins ==
  ASSUME TypeOK, status = "deleted", NEW t \in Threads, pc[t] = "idle", Next
  PROVE  pc'[t] \in {"idle", "delete"}
  <1>1. ASSUME NEW p \in Servers, Fire(p) \/ Start(p) \/ Crash(p)
        PROVE  pc'[t] = "idle"
    BY <1>1 DEF Fire, Claim, Start, Crash, Idle, TypeOK
  <1>2. ASSUME NEW u \in Threads, Step(u)
        PROVE  pc'[t] = "idle"
    <2>1. pc[u] # "idle" /\ \E n : pc' = [pc EXCEPT ![u] = n]
      BY <1>2
        DEF Step, CreateExecution, MarkRunning, SyncOk, SyncFails,
            SyncTableError, SyncOfNothing, SaveResult, PauseSave, PauseDisable,
            ResumeSave, ResumeEnable, EditSaveJob, EditSaveSchedule,
            EditRegister, DeleteRows, Moves, Go
    <2>2. QED
      BY <2>1 DEF TypeOK
  <1>3. ASSUME NEW u \in Threads, NewRequest(u)
        PROVE  pc'[t] \in {"idle", "delete"}
    BY <1>3
      DEF NewRequest, RunNow, Pause, Resume, UpdateSchedule, Edit, Delete,
          BulkDelete, Request, Go, Idle, TypeOK
  <1>4. QED
    BY <1>1, <1>2, <1>3 DEF Next

\* Nothing begins while a run is not marked: it is marked when it is claimed.
THEOREM LockedIsCalm == Locked => (Spec => CalmSpec)
  <1> SUFFICES ASSUME Locked
               PROVE  Spec => CalmSpec
    OBVIOUS
  <1>1. ASSUME LockInv, Next
        PROVE  Calm
    <2> SUFFICES ASSUME NEW t \in Threads, NEW u \in Threads,
                        t # u, InWindow(u), pc[t] = "idle"
                 PROVE  pc'[t] \in {"idle", "delete"}
      BY DEF Calm
    <2>1. status = "deleted"
      BY <1>1 DEF LockInv, RunOwnsStatus, Running, InWindow
    <2>2. QED
      BY <1>1, <2>1, NothingBegins DEF LockInv
  <1>2. LockInv /\ [Next]_vars => [CalmNext]_vars
    BY <1>1 DEF Next, CalmNext
  <1>3. QED
    BY <1>2, LockInvariance, PTL DEF Spec, CalmSpec

\* Hence, where every run comes from a trigger, which claims the job under its
\* row lock, two runs never overlap: however many processes fire the trigger,
\* and whatever crashes, restarts, deletions and changes of the schedule occur.
THEOREM LockedRunsNeverOverlap == Locked => (Spec => []AtMostOneRun)
  BY LockedIsCalm, RunsNeverOverlap, PTL
=============================================================================
