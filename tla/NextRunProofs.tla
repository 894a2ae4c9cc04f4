--------------------------- MODULE NextRunProofs ---------------------------
(***************************************************************************)
(* Proofs about NextRun, for every calendar, time zone and cron period:    *)
(* types, that a next run which is written lies ahead, that the next run   *)
(* of a custom schedule is the one its trigger waits for, and that a shown *)
(* next run is current.  CustomRunIsKept needs that rounding picks the     *)
(* same boundary until it is reached (SameBoundary), which rests on the    *)
(* uniqueness of remainders.                                               *)
(***************************************************************************)
EXTENDS NextRun, TLAPS

LEMMA Division ==
  ASSUME NEW t \in Int, NEW p \in Nat \ {0}
  PROVE  /\ t % p \in 0 .. (p - 1)
         /\ t \div p \in Int
         /\ t = p * (t \div p) + (t % p)
  BY SMT

LEMMA Remainder ==
  ASSUME NEW p \in Nat \ {0}, NEW q \in Int, NEW r \in 0 .. (p - 1)
  PROVE  (p * q + r) % p = r
  BY SMT

\* Rounding down is to an integer, and by less than a period.
LEMMA DownType ==
  ASSUME NEW t \in Int, NEW p \in Nat \ {0}
  PROVE  Down(t, p) \in Int /\ Down(t, p) <= t /\ t < Down(t, p) + p
  BY Division DEF Down

\* Until the next boundary is reached, it stays the next one.
LEMMA SameBoundary ==
  ASSUME NEW t \in Int, NEW p \in Nat \ {0}, t + 1 < Down(t, p) + p
  PROVE  Down(t + 1, p) = Down(t, p)
  <1> DEFINE q == t \div p
             r == t % p
  <1>1. q \in Int /\ r \in 0 .. (p - 1) /\ t = p * q + r
    BY Division
  <1>2. r + 1 \in 0 .. (p - 1)
    BY <1>1 DEF Down
  <1>3. (p * q + (r + 1)) % p = r + 1
    BY <1>1, <1>2, Remainder
  <1>4. p * q \in Int /\ t + 1 = p * q + (r + 1)
    BY <1>1
  <1>5. (t + 1) % p = r + 1
    BY <1>3, <1>4
  <1>6. QED
    BY <1>1, <1>5 DEF Down

LEMMA PeriodType == ASSUME NEW k PROVE Period(k) \in Nat \ {0}
  BY CalendarAssumption DEF Period

LEMMA NextLocalType ==
  ASSUME NEW t \in Int, NEW p \in Nat \ {0}
  PROVE  /\ LocalDown(t, p) \in Int /\ NextLocal(t, p) \in Int
         /\ t < NextLocal(t, p)
  <1>1. t + Zone \in Int /\ Zone \in Int
    BY CalendarAssumption
  <1>2. /\ Down(t + Zone, p) \in Int
        /\ t + Zone < Down(t + Zone, p) + p
    BY <1>1, DownType
  <1>3. QED
    BY <1>1, <1>2 DEF LocalDown, NextLocal

LEMMA NextLocalStays ==
  ASSUME NEW t \in Int, NEW p \in Nat \ {0}, t + 1 < NextLocal(t, p)
  PROVE  NextLocal(t + 1, p) = NextLocal(t, p)
  <1>1. t + Zone \in Int /\ (t + 1) + Zone = (t + Zone) + 1
    BY CalendarAssumption
  <1>2. Down(t + Zone, p) \in Int
    BY <1>1, DownType
  <1>3. (t + Zone) + 1 < Down(t + Zone, p) + p
    BY <1>1, <1>2, CalendarAssumption DEF NextLocal, LocalDown
  <1>4. Down((t + Zone) + 1, p) = Down(t + Zone, p)
    BY <1>1, <1>3, SameBoundary
  <1>5. QED
    BY <1>1, <1>4 DEF NextLocal, LocalDown

\* calculate_next_run gives no time, or one that lies ahead.
LEMMA CalculateType ==
  ASSUME NEW k, NEW n \in Int, NEW t \in Nat
  PROVE  /\ CalculateNextRun(k, n, t) \in Int
         /\ k \in Repeating => CalculateNextRun(k, n, t) > t
         /\ k = "custom" => CalculateNextRun(k, n, t) = NextLocal(t, Cron)
         /\ k = "once" => CalculateNextRun(k, None, t) = None
  <1>1. Cron \in Nat \ {0} /\ Period(k) \in Nat \ {0}
    BY PeriodType, CalendarAssumption
  <1>2. NextLocal(t, Cron) \in Int /\ t < NextLocal(t, Cron)
    BY <1>1, NextLocalType
  <1>3. Down(t, Period(k)) \in Int /\ t < Down(t, Period(k)) + Period(k)
    <2>1. t \in Int
      OBVIOUS
    <2>2. QED
      BY <1>1, <2>1, DownType
  <1>4. QED
    BY <1>1, <1>2, <1>3 DEF CalculateNextRun, Repeating, None

LEMMA RescheduledType ==
  ASSUME NEW k, NEW n \in Int, NEW old \in Int, NEW t \in Nat
  PROVE  /\ Rescheduled(k, n, old, t) \in Int
         /\ k \in Repeating => Rescheduled(k, n, old, t) > t
         /\ k = "custom" => Rescheduled(k, n, old, t) = NextLocal(t, Cron)
         /\ k = "once" => Rescheduled(k, None, None, t) = None
  <1>1. /\ CalculateNextRun(k, n, t) \in Int
        /\ k \in Repeating => CalculateNextRun(k, n, t) > t
        /\ k = "custom" => CalculateNextRun(k, n, t) = NextLocal(t, Cron)
        /\ k = "once" => CalculateNextRun(k, None, t) = None
    BY CalculateType
  <1>2. k = "custom" => k \in Repeating
    BY DEF Repeating
  <1>3. QED
    BY <1>1, <1>2 DEF Rescheduled, None

LEMMA FormTimeType ==
  ASSUME NEW k, NEW s \in Starts \cup {None}, NEW t \in Nat
  PROVE  /\ FormTime(k, s, t) \in Int
         /\ k = "once" => FormTime(k, s, t) = None
  <1> s \in Int /\ t \in Int
    BY BoundsAssumption DEF None
  <1>1. ASSUME NEW p \in Nat \ {0}
        PROVE  Down(t, p) \in Int /\ LocalDown(s, p) \in Int
    BY DownType, NextLocalType
  <1>2. ASSUME NEW d \in Int
        PROVE  Monday(d) \in Int /\ LocalMonday(d) \in Int
    <2>1. ASSUME NEW e \in Int PROVE Monday(e) \in Int
      BY DownType, CalendarAssumption DEF Monday
    <2>2. d + Zone \in Int
      BY CalendarAssumption
    <2>3. QED
      BY <2>1, <2>2, CalendarAssumption DEF LocalMonday
  <1>3. /\ Down(t, Day) \in Int /\ LocalDown(s, Day) \in Int
        /\ Down(t, Period(k)) \in Int /\ LocalDown(s, Period(k)) \in Int
        /\ Period(k) \in Int
    BY <1>1, PeriodType, CalendarAssumption
  <1>4. /\ Monday(Down(t, Day)) \in Int
        /\ LocalMonday(LocalDown(s, Day)) \in Int
    BY <1>2, <1>3
  <1>5. QED
    BY <1>3, <1>4 DEF FormTime, None

LEMMA FirstFireType ==
  ASSUME NEW k, NEW n \in Int, NEW t \in Nat
  PROVE  /\ FirstFire(k, n, t) \in Int
         /\ k = "custom" => FirstFire(k, n, t) = NextLocal(t, Cron)
         /\ k = "once" => FirstFire(k, None, t) = None
  <1>1. Period(k) \in Nat \ {0} /\ Period("custom") = Cron /\ t \in Int
    BY PeriodType DEF Period
  <1>2. NextLocal(t, Period(k)) \in Int
    BY <1>1, NextLocalType
  <1>3. QED
    BY <1>1, <1>2 DEF FirstFire, None

----------------------------------------------------------------------------
\* TimesInv in parts: the types of the rows and of the threads, what the registry
\* holds, and what it has to do with the row.
RowsOK ==
  /\ now \in Nat
  /\ status \in {"idle", "running", "paused"}
  /\ kind \in Kinds
  /\ enabled \in BOOLEAN
  /\ {next, shown, fireAt} \subseteq Int
  /\ up \in BOOLEAN
  /\ trigger \in Kinds \cup {"none"}
  /\ start \in Starts \cup {None}
  /\ overwritten \in BOOLEAN
RunsOK ==
  /\ pc \in [Threads -> RunStates]
  /\ loaded \in [Threads -> Int]
  /\ byForm \in [Threads -> BOOLEAN]
Triggers == trigger = "custom" /\ fireAt > now => fireAt = NextLocal(now, Cron)
CustomShown ==
  up /\ trigger = "custom" /\ kind = "custom" /\ enabled /\ status = "idle"
    /\ fireAt > now /\ ~overwritten => shown = fireAt

LEMMA TimesInvParts ==
  TimesInv <=> RowsOK /\ RunsOK /\ (~up => trigger = "none") /\ Triggers /\ CustomShown
  BY DEF TimesInv, TypeOK, RowsOK, RunsOK, Triggers, CustomShown

LEMMA TimesInvNext ==
  RowsOK' /\ RunsOK' /\ (~up' => trigger' = "none") /\ Triggers' /\ CustomShown'
    => TimesInv'
  BY DEF TimesInv, TypeOK, RowsOK, RunsOK, Triggers, CustomShown

LEMMA InitTimes == Init => TimesInv
  <1> SUFFICES ASSUME Init PROVE TimesInv
    OBVIOUS
  <1>1. /\ now \in Nat /\ kind \in Kinds /\ start \in Starts \cup {None}
        /\ None \in Int
    BY CalendarAssumption DEF Init, None
  <1>2. /\ FormTime(kind, start, now) \in Int
        /\ kind = "once" => FormTime(kind, start, now) = None
    BY <1>1, FormTimeType
  <1>3. /\ next \in Int
        /\ kind = "custom" => next = NextLocal(now, Cron)
        /\ kind = "once" => next = None
    BY <1>1, <1>2, RescheduledType DEF Init
  <1>4. /\ fireAt \in Int
        /\ kind = "custom" => fireAt = NextLocal(now, Cron)
        /\ kind = "once" => fireAt = None
    BY <1>1, <1>3, FirstFireType DEF Init
  <1>5. RunsOK
    BY <1>1, <1>3 DEF Init, RunsOK, RunStates
  <1>6. RowsOK
    BY <1>1, <1>3, <1>4 DEF Init, RowsOK
  <1>7. up /\ Triggers /\ CustomShown
    BY <1>1, <1>3, <1>4 DEF Init, Triggers, CustomShown
  <1>8. QED
    BY <1>5, <1>6, <1>7, TimesInvParts

\* schedule_job_execution writes what the trigger waits for.
LEMMA RescheduledNow ==
  ASSUME RowsOK, NEW k, NEW n \in Int, NEW old \in Int
  PROVE  /\ Rescheduled(k, n, old, now) \in Int
         /\ k \in Repeating => Rescheduled(k, n, old, now) > now
         /\ k = "custom" => Rescheduled(k, n, old, now) = NextLocal(now, Cron)
         /\ k = "once" => Rescheduled(k, None, None, now) = None
  BY RescheduledType DEF RowsOK

LEMMA RescheduleNow ==
  ASSUME RowsOK, Reschedule
  PROVE  /\ next' \in Int /\ shown' \in Int /\ overwritten' \in BOOLEAN
         /\ kind \in Repeating => shown' > now /\ next' > now
         /\ kind = "custom" => shown' = NextLocal(now, Cron)
  BY RescheduledNow DEF RowsOK, Reschedule

LEMMA RunsType ==
  ASSUME RunsOK, NEW t \in Threads,
         \/ \E n \in Int, f \in BOOLEAN : Begin(t, n, f)
         \/ Leaves(t)
         \/ UNCHANGED runs
         \/ UNCHANGED <<loaded, byForm>> /\ \E s \in RunStates : pc' = [pc EXCEPT ![t] = s]
  PROVE  RunsOK'
  <1>1. ASSUME NEW n \in Int, NEW f \in BOOLEAN, Begin(t, n, f) PROVE RunsOK'
    BY <1>1 DEF RunsOK, RunStates, Begin
  <1>2. CASE Leaves(t)
    BY <1>2 DEF RunsOK, RunStates, Leaves, None
  <1>3. CASE UNCHANGED runs
    BY <1>3 DEF RunsOK, runs
  <1>4. ASSUME NEW s \in RunStates, UNCHANGED <<loaded, byForm>>, pc' = [pc EXCEPT ![t] = s]
        PROVE  RunsOK'
    BY <1>4 DEF RunsOK, RunStates
  <1>5. QED
    BY <1>1, <1>2, <1>3, <1>4

LEMMA TickTimes == ASSUME TimesInv, Tick PROVE TimesInv'
  <1>1. now \in Int /\ now' = now + 1 /\ Cron \in Nat \ {0} /\ fireAt \in Int
    BY CalendarAssumption DEF TimesInv, TypeOK, Tick
  <1>2. RowsOK' /\ RunsOK'
    BY TimesInvParts DEF RowsOK, RunsOK, Tick, runs, registry
  <1>3. trigger # "none" => fireAt > now
    BY <1>1 DEF TimesInv, Tick, Due
  <1>4. Triggers'
    <2> SUFFICES ASSUME trigger = "custom", fireAt > now + 1
                 PROVE  fireAt = NextLocal(now + 1, Cron)
      BY <1>1 DEF Tick, Triggers, registry
    <2>1. fireAt = NextLocal(now, Cron)
      BY <1>3 DEF TimesInv
    <2>2. QED
      BY <1>1, <2>1, NextLocalStays
  <1>5. CustomShown'
    BY <1>1, <1>3 DEF TimesInv, Tick, CustomShown, registry
  <1>6. ~up' => trigger' = "none"
    BY DEF TimesInv, Tick, registry
  <1>7. QED
    BY <1>2, <1>4, <1>5, <1>6, TimesInvNext

LEMMA FireTimes == ASSUME TimesInv, Fire PROVE TimesInv'
  <1>1. /\ RowsOK /\ RunsOK /\ Period(trigger) \in Nat \ {0}
        /\ Period("custom") = Cron /\ None \in Int
    BY PeriodType, TimesInvParts DEF Period, None
  <1>2. NextLocal(now, Period(trigger)) \in Int
    BY <1>1, NextLocalType DEF RowsOK
  <1>3. status' = "running" \/ (UNCHANGED status /\ status # "idle")
    BY DEF Fire
  <1>4. RowsOK'
    BY <1>1, <1>2, <1>3 DEF RowsOK, Fire
  <1>5. RunsOK'
    <2>1. CASE UNCHANGED runs
      BY <1>1, <2>1 DEF RunsOK, runs
    <2>2. ASSUME NEW t \in Threads, Begin(t, shown, FALSE) PROVE RunsOK'
      BY <1>1, <2>2, RunsType DEF RowsOK
    <2>3. QED
      BY <2>1, <2>2 DEF Fire
  <1>6. QED
    BY <1>1, <1>3, <1>4, <1>5, TimesInvNext DEF RowsOK, Fire, Due, Triggers, CustomShown

\* A step that leaves the clock, the schedule and the registry alone, and neither
\* makes the job wait nor calls what is shown calculated, unless it calculates.
LEMMA SavedTimes ==
  ASSUME TimesInv, RunsOK', UNCHANGED <<now, kind, up, registry, start>>,
         status' \in {"idle", "running", "paused"}, enabled' \in BOOLEAN,
         next' \in Int, shown' \in Int, overwritten' \in BOOLEAN,
         \/ overwritten' \/ ~enabled'
         \/ UNCHANGED <<status, enabled, shown, overwritten>>
         \/ status' # "idle"
         \/ kind = "custom" => shown' = NextLocal(now, Cron)
  PROVE  TimesInv'
  <1>1. RowsOK /\ Triggers /\ CustomShown /\ (~up => trigger = "none")
    BY TimesInvParts
  <1>2. RowsOK'
    BY <1>1 DEF RowsOK, registry
  <1>3. Triggers' /\ (~up' => trigger' = "none")
    BY <1>1 DEF Triggers, registry
  <1>4. CustomShown'
    BY <1>1 DEF CustomShown, Triggers, registry
  <1>5. QED
    BY <1>2, <1>3, <1>4, TimesInvNext

LEMMA RunTimes ==
  ASSUME TimesInv, NEW t \in Threads,
         \/ Mark(t) \/ End(t) \/ Recalculate(t) \/ ConnectionFails(t)
         \/ TableError(t) \/ RunNow(t)
  PROVE  TimesInv'
  <1>1. RowsOK /\ RunsOK
    BY TimesInvParts
  <1>2. loaded[t] \in Int /\ shown \in Int
    BY <1>1 DEF RowsOK, RunsOK
  <1>3. CASE Mark(t) \/ End(t)
    <2>1. RunsOK'
      BY <1>1, <1>3, RunsType DEF Mark, End, RunStates
    <2>2. QED
      BY <1>1, <1>2, <1>3, <2>1, SavedTimes DEF RowsOK, Mark, End, SavesJob
  <1>4. CASE ConnectionFails(t)
    <2>1. RunsOK'
      BY <1>1, <1>4, RunsType DEF ConnectionFails
    <2>2. QED
      BY <1>1, <1>2, <1>4, <2>1, SavedTimes DEF RowsOK, ConnectionFails, SavesJob
  <1>5. CASE TableError(t)
    <2>1. RunsOK'
      BY <1>1, <1>5, RunsType DEF TableError
    <2>2. QED
      BY <1>1, <1>2, <1>5, <2>1, SavedTimes DEF RowsOK, TableError
  <1>6. CASE RunNow(t)
    <2>1. RunsOK'
      BY <1>1, <1>2, <1>6, RunsType DEF RunNow
    <2>2. QED
      BY <1>1, <1>2, <1>6, <2>1, SavedTimes DEF RowsOK, RunNow
  <1>7. CASE Recalculate(t)
    <2>1. RunsOK'
      BY <1>1, <1>7, RunsType DEF Recalculate
    <2>2. CASE Reschedule
      BY <1>1, <1>7, <2>1, <2>2, RescheduleNow, SavedTimes DEF RowsOK, Recalculate
    <2>3. CASE UNCHANGED <<next, shown, overwritten>>
      BY <1>1, <1>7, <2>1, <2>3, SavedTimes DEF RowsOK, Recalculate
    <2>4. QED
      BY <1>7, <2>2, <2>3 DEF Recalculate
  <1>8. QED
    BY <1>3, <1>4, <1>5, <1>6, <1>7

LEMMA RequestTimes ==
  ASSUME TimesInv, Pause \/ Resume \/ View
  PROVE  TimesInv'
  <1>1. RowsOK /\ RunsOK
    BY TimesInvParts
  <1>2. RunsOK'
    BY <1>1 DEF RunsOK, Pause, Resume, View, runs
  <1>3. CASE Pause
    BY <1>1, <1>2, <1>3, SavedTimes DEF RowsOK, Pause
  <1>4. CASE Resume \/ View
    <2>1. /\ Reschedule /\ UNCHANGED <<now, kind, up, registry, start>>
          /\ status' \in {"idle", "running", "paused"} /\ enabled' \in BOOLEAN
      BY <1>1, <1>4 DEF RowsOK, Resume, View
    <2>2. QED
      BY <1>1, <1>2, <2>1, RescheduleNow, SavedTimes
  <1>5. QED
    BY <1>3, <1>4

LEMMA ShutdownTimes == ASSUME TimesInv, Shutdown PROVE TimesInv'
  <1>1. RowsOK /\ RunsOK /\ None \in Int
    BY TimesInvParts DEF None
  <1>2. RowsOK'
    BY <1>1 DEF RowsOK, Shutdown
  <1>3. RunsOK'
    BY <1>1 DEF RunsOK, RunStates, Shutdown
  <1>4. QED
    BY <1>2, <1>3, TimesInvNext DEF Shutdown, Triggers, CustomShown

LEMMA RestartTimes == ASSUME TimesInv, Restart PROVE TimesInv'
  <1>1. RowsOK /\ RunsOK /\ trigger = "none"
    BY TimesInvParts DEF Restart
  <1>2. RunsOK'
    BY <1>1 DEF RunsOK, Restart, runs
  <1>3. CASE enabled /\ status = "idle"
    <2>1. /\ fireAt' = FirstFire(kind, next, now)
          /\ trigger' = IF fireAt' = None THEN "none" ELSE kind
      BY <1>3 DEF Restart, Register
    <2>2. /\ fireAt' \in Int
          /\ kind = "custom" => fireAt' = NextLocal(now, Cron)
      BY <1>1, <2>1, FirstFireType DEF RowsOK
    <2>3. \/ fireAt' = None /\ UNCHANGED <<next, shown, overwritten>>
          \/ Reschedule
      BY <1>3 DEF Restart
    <2>4. /\ next' \in Int /\ shown' \in Int /\ overwritten' \in BOOLEAN
          /\ kind = "custom" /\ fireAt' # None => shown' = NextLocal(now, Cron)
      BY <1>1, <2>3, RescheduleNow DEF RowsOK
    <2>5. RowsOK'
      BY <1>1, <2>1, <2>2, <2>4 DEF RowsOK, Restart
    <2>6. Triggers' /\ CustomShown' /\ up'
      BY <2>1, <2>2, <2>4 DEF Restart, Triggers, CustomShown
    <2>7. QED
      BY <1>2, <2>5, <2>6, TimesInvNext
  <1>4. CASE ~ (enabled /\ status = "idle")
    <2>1. RowsOK' /\ trigger' = "none"
      BY <1>1, <1>4 DEF RowsOK, Restart, registry
    <2>2. QED
      BY <1>2, <2>1, TimesInvNext DEF Triggers, CustomShown
  <1>5. QED
    BY <1>3, <1>4

LEMMA EditTimes ==
  ASSUME TimesInv, NEW k \in Kinds, NEW s \in Starts \cup {None}, Edit(k, s)
  PROVE  TimesInv'
  <1> DEFINE f == FormTime(k, s, now)
             n == IF enabled THEN Rescheduled(k, f, f, now) ELSE f
  <1>1. RowsOK /\ RunsOK
    BY TimesInvParts
  <1>2. f \in Int
    BY <1>1, FormTimeType DEF RowsOK
  <1>3. /\ Rescheduled(k, f, f, now) \in Int
        /\ k = "custom" => Rescheduled(k, f, f, now) = NextLocal(now, Cron)
    BY <1>1, <1>2, RescheduledNow
  <1>4. n \in Int /\ (k = "custom" /\ enabled => n = NextLocal(now, Cron))
    BY <1>2, <1>3
  <1>5. /\ FirstFire(k, n, now) \in Int
        /\ k = "custom" => FirstFire(k, n, now) = NextLocal(now, Cron)
    BY <1>1, <1>4, FirstFireType DEF RowsOK
  <1> DEFINE at == IF enabled THEN FirstFire(k, n, now) ELSE None
  <1>6. /\ fireAt' = at
        /\ trigger' = IF at = None THEN "none" ELSE k
        /\ next' = n /\ shown' = n /\ kind' = k /\ start' = s
        /\ overwritten' = FALSE /\ up
        /\ UNCHANGED <<now, status, enabled, up>>
    BY DEF Edit, Register, Asked
  <1>7. UNCHANGED runs \/ \E t \in Threads : Begin(t, n, TRUE)
    BY DEF Edit
  <1> HIDE DEF n
  <1>8. RunsOK'
    <2>1. CASE UNCHANGED runs
      BY <1>1, <2>1 DEF RunsOK, runs
    <2>2. ASSUME NEW t \in Threads, Begin(t, n, TRUE) PROVE RunsOK'
      BY <1>1, <1>4, <2>2, RunsType
    <2>3. QED
      BY <1>7, <2>1, <2>2
  <1>9. at \in Int /\ (trigger' # "none" => enabled)
    BY <1>5, <1>6 DEF None
  <1>10. RowsOK'
    BY <1>1, <1>4, <1>6, <1>9 DEF RowsOK
  <1>11. Triggers' /\ CustomShown' /\ up'
    BY <1>4, <1>5, <1>6 DEF Triggers, CustomShown
  <1>12. QED
    BY <1>8, <1>10, <1>11, TimesInvNext

LEMMA UpdateTimes ==
  ASSUME TimesInv, NEW k \in Kinds, NEW s \in Starts \cup {None},
         NEW on \in BOOLEAN, UpdateSchedule(k, s, on)
  PROVE  TimesInv'
  <1>1. RowsOK /\ RunsOK /\ Triggers /\ (~up => trigger = "none") /\ s \in Int
    BY BoundsAssumption, TimesInvParts DEF None
  <1>2. /\ Rescheduled(k, s, s, now) \in Int
        /\ Rescheduled(k, s, shown, now) \in Int
        /\ k = "custom" =>
             Rescheduled(k, s, shown, now) = NextLocal(now, Cron)
    BY <1>1, RescheduledNow DEF RowsOK
  <1>3. /\ UNCHANGED <<now, status, runs, up, registry>>
        /\ kind' = k /\ enabled' = on /\ start' = s
        /\ \/ shown' = Rescheduled(k, s, shown, now)
           \/ UNCHANGED shown /\ (~on \/ k # "custom")
        /\ next' \in Int /\ overwritten' \in BOOLEAN
    BY <1>1, <1>2 DEF UpdateSchedule, RowsOK
  <1>4. RowsOK'
    BY <1>1, <1>2, <1>3 DEF RowsOK, registry
  <1>5. RunsOK'
    BY <1>1, <1>3 DEF RunsOK, runs
  <1>6. Triggers' /\ (~up' => trigger' = "none")
    BY <1>1, <1>3 DEF Triggers, registry
  <1>7. CustomShown'
    BY <1>1, <1>2, <1>3 DEF CustomShown, Triggers, registry
  <1>8. QED
    BY <1>4, <1>5, <1>6, <1>7, TimesInvNext

LEMMA NextTimes == TimesInv /\ [Next]_vars => TimesInv'
  <1> SUFFICES ASSUME TimesInv, [Next]_vars PROVE TimesInv'
    OBVIOUS
  <1>1. CASE UNCHANGED vars
    BY <1>1 DEF TimesInv, TypeOK, vars, runs, registry
  <1>2. CASE Tick
    BY <1>2, TickTimes
  <1>3. CASE Fire
    BY <1>3, FireTimes
  <1>4. ASSUME NEW t \in Threads,
               \/ Mark(t) \/ End(t) \/ Recalculate(t) \/ ConnectionFails(t)
               \/ TableError(t) \/ RunNow(t)
        PROVE  TimesInv'
    BY <1>4, RunTimes
  <1>5. CASE Pause \/ Resume \/ View
    BY <1>5, RequestTimes
  <1>6. CASE Shutdown
    BY <1>6, ShutdownTimes
  <1>7. CASE Restart
    BY <1>7, RestartTimes
  <1>8. ASSUME NEW k \in Kinds, NEW s \in Starts \cup {None}, Edit(k, s)
        PROVE  TimesInv'
    BY <1>8, EditTimes
  <1>9. ASSUME NEW k \in Kinds, NEW s \in Starts \cup {None},
               NEW on \in BOOLEAN, UpdateSchedule(k, s, on)
        PROVE  TimesInv'
    BY <1>9, UpdateTimes
  <1>10. QED
    BY <1>1, <1>2, <1>3, <1>4, <1>5, <1>6, <1>7, <1>8, <1>9 DEF Next

\* The invariant of the times holds for every calendar and zone.
THEOREM TimesInvariance == Spec => []TimesInv
  <1>1. QED
    BY InitTimes, NextTimes, PTL DEF Spec

THEOREM TypeCorrect == Spec => []TypeOK
  <1>1. TimesInv => TypeOK
    BY DEF TimesInv
  <1>2. QED
    BY <1>1, TimesInvariance, PTL

\* A next run that is calculated while the schedule is enabled lies ahead: what a
\* form has rounded into the past is corrected before the request ends.  A time
\* that has passed is written by a run, or not at all.
THEOREM NextRunsAreAhead == Spec => NextRunAhead
  <1> DEFINE Ahead == enabled' /\ kind' \in Repeating /\ shown' # shown
                        => overwritten' \/ shown' > now
  <1>1. ASSUME TimesInv, [Next]_vars PROVE [Ahead]_vars
    <2> SUFFICES ASSUME Next, enabled', kind' \in Repeating, shown' # shown
                 PROVE  overwritten' \/ shown' > now
      BY <1>1
    <2>1. RowsOK
      BY <1>1, TimesInvParts
    <2>2. ASSUME NEW k \in Repeating, NEW n \in Int, NEW old \in Int
          PROVE  Rescheduled(k, n, old, now) > now
      BY <2>1, RescheduledNow
    <2>3. CASE Reschedule /\ kind' = kind
      BY <2>1, <2>3, RescheduleNow
    <2>4. ASSUME NEW t \in Threads,
                 \/ Mark(t) \/ End(t) \/ Recalculate(t) \/ ConnectionFails(t)
                 \/ TableError(t) \/ RunNow(t)
          PROVE  overwritten' \/ shown' > now
      BY <2>3, <2>4 DEF Mark, End, Recalculate, ConnectionFails, TableError,
                        RunNow, SavesJob
    <2>5. CASE Restart
      BY <2>3, <2>5 DEF Restart
    <2>6. CASE Resume \/ View
      BY <2>3, <2>6 DEF Resume, View
    <2>7. ASSUME NEW k \in Kinds, NEW s \in Starts \cup {None}, Edit(k, s)
          PROVE  shown' > now
      <3>1. FormTime(k, s, now) \in Int
        BY <2>1, FormTimeType DEF RowsOK
      <3>2. enabled /\ kind' = k
        BY <2>7 DEF Edit
      <3>3. shown' = Rescheduled(k, FormTime(k, s, now), FormTime(k, s, now),
                                 now)
        BY <2>7, <3>2 DEF Edit
      <3>4. QED
        BY <2>2, <3>1, <3>2, <3>3
    <2>8. ASSUME NEW k \in Kinds, NEW s \in Starts \cup {None},
                 NEW on \in BOOLEAN, UpdateSchedule(k, s, on)
          PROVE  shown' > now
      <3>1. s \in Int /\ shown \in Int
        BY <2>1, BoundsAssumption DEF None, RowsOK
      <3>2. kind' = k /\ shown' = Rescheduled(k, s, shown, now)
        BY <2>8 DEF UpdateSchedule
      <3>3. QED
        BY <2>2, <3>1, <3>2
    <2>9. CASE Tick \/ Fire \/ Shutdown \/ Pause
      BY <2>9 DEF Tick, Fire, Shutdown, Pause
    <2>10. QED
      BY <2>4, <2>5, <2>6, <2>7, <2>8, <2>9 DEF Next
  <1>2. QED
    BY <1>1, TimesInvariance, PTL DEF Spec, NextRunAhead

\* The next run that a custom schedule shows is the one its trigger waits for,
\* whatever is asked of the server and however many runs there are, until a run
\* writes an older one back.
THEOREM CustomRunsAreKept == Spec => []CustomRunIsKept
  <1>1. TimesInv => CustomRunIsKept
    BY DEF TimesInv, TypeOK, CustomRunIsKept, Waiting, Due
  <1>2. QED
    BY <1>1, TimesInvariance, PTL

----------------------------------------------------------------------------
(* How far the next run of a waiting job is from the clock.  Nothing that   *)
(* is calculated lies more than a period ahead; and the trigger, which is   *)
(* no further ahead, starts a run that calculates anew before the shown     *)
(* time is a period old.                                                    *)

LEMMA LocalUpper ==
  ASSUME NEW t \in Int, NEW p \in Nat \ {0}
  PROVE  NextLocal(t, p) <= t + p
  <1>1. t + Zone \in Int /\ Zone \in Int
    BY CalendarAssumption
  <1>2. Down(t + Zone, p) \in Int /\ Down(t + Zone, p) <= t + Zone
    BY <1>1, DownType
  <1>3. QED
    BY <1>1, <1>2 DEF NextLocal, LocalDown

LEMMA RescheduledUpper ==
  ASSUME NEW k \in Repeating, NEW n \in Int, NEW old, NEW t \in Nat,
         n <= t + Period(k)
  PROVE  Rescheduled(k, n, old, t) <= t + Period(k)
  <1>1. Period(k) \in Nat \ {0} /\ Period("custom") = Cron /\ t \in Int
    BY PeriodType DEF Period
  <1>2. CalculateNextRun(k, n, t) > t /\ CalculateNextRun(k, n, t) \in Int
    BY CalculateType
  <1>3. CalculateNextRun(k, n, t) # None
    BY <1>2 DEF None
  <1>4. Down(t, Period(k)) \in Int /\ Down(t, Period(k)) <= t
    BY <1>1, DownType
  <1>5. k = "custom" => NextLocal(t, Cron) <= t + Period(k)
    BY <1>1, LocalUpper
  <1>6. CalculateNextRun(k, n, t) <= t + Period(k)
    BY <1>1, <1>4, <1>5 DEF CalculateNextRun, Repeating
  <1>7. QED
    BY <1>3, <1>6 DEF Rescheduled

LEMMA FormUpper ==
  ASSUME NEW k \in Repeating, NEW t \in Nat
  PROVE  FormTime(k, None, t) <= t + Period(k)
  <1>1. Period(k) \in Nat \ {0} /\ t \in Int /\ Week \in Nat \ {0} /\ Day \in Nat \ {0}
    BY PeriodType, CalendarAssumption
  <1>2. Down(t, Period(k)) \in Int /\ Down(t, Period(k)) <= t
    BY <1>1, DownType
  <1>3. Monday(Down(t, Day)) <= t + Week
    <2> DEFINE d == Down(t, Day)
    <2>1. d \in Int /\ d <= t
      BY <1>1, DownType
    <2> HIDE DEF d
    <2>2. Down(d, Week) \in Int /\ Down(d, Week) <= d
      BY <1>1, <2>1, DownType
    <2>3. Monday(d) <= t + Week
      BY <1>1, <2>1, <2>2 DEF Monday
    <2>4. QED
      BY <2>3 DEF d
  <1>4. k = "weekly" => Period(k) = Week
    BY DEF Period
  <1>5. CASE k = "weekly"
    BY <1>3, <1>4, <1>5 DEF FormTime
  <1>6. CASE k = "custom"
    BY <1>1, <1>6 DEF FormTime
  <1>7. CASE k \in {"hourly", "daily"}
    <2>1. FormTime(k, None, t) \in {Down(t, Period(k)), Down(t, Period(k)) + Period(k)}
      BY <1>7 DEF FormTime
    <2>2. QED
      BY <1>1, <1>2, <2>1
  <1>8. QED
    BY <1>5, <1>6, <1>7 DEF Repeating

LEMMA FireUpper ==
  ASSUME NEW k \in Repeating, NEW n, NEW t \in Nat
  PROVE  FirstFire(k, n, t) <= t + Period(k)
  <1>1. Period(k) \in Nat \ {0} /\ t \in Int
    BY PeriodType
  <1>2. NextLocal(t, Period(k)) <= t + Period(k)
    BY <1>1, LocalUpper
  <1>3. QED
    BY <1>2 DEF FirstFire, Repeating

\* The trigger is at most a period ahead.
FireNear == trigger \in Repeating => fireAt <= now + Period(trigger)

\* So are the times in the rows, if the user has asked for no start.
TimesNear ==
  start = None /\ kind \in Repeating =>
    /\ next <= now + Period(kind)
    /\ enabled /\ ~overwritten => shown <= now + Period(kind)

\* What is shown is less than a period before the trigger.
ShownFresh ==
  up /\ trigger = kind /\ kind \in Repeating /\ enabled /\ status = "idle"
    /\ start = None /\ ~overwritten => shown + Period(kind) > fireAt

CurrentInv == FireNear /\ TimesNear /\ ShownFresh

LEMMA CurrentIs == TimesInv /\ CurrentInv => NextRunIsCurrent
  <1> SUFFICES ASSUME TimesInv, CurrentInv, Waiting, ~overwritten,
                      kind \in Repeating, start = None
               PROVE  shown \in (now - Period(kind) + 1) .. (now + Period(kind))
    BY DEF NextRunIsCurrent
  <1>1. /\ shown \in Int /\ fireAt \in Int /\ now \in Nat
        /\ Period(kind) \in Nat \ {0}
    BY PeriodType DEF TimesInv, TypeOK
  <1>2. up /\ trigger = kind /\ enabled /\ status = "idle" /\ ~ (fireAt <= now)
    BY DEF Waiting, Due, Repeating
  <1>3. shown <= now + Period(kind) /\ shown + Period(kind) > fireAt
    BY <1>2 DEF CurrentInv, TimesNear, ShownFresh
  <1>4. QED
    BY <1>1, <1>2, <1>3

\* A time that is calculated now keeps the row fresh.
LEMMA FreshNow ==
  ASSUME RowsOK, FireNear, NEW k \in Repeating, trigger = k,
         NEW n \in Int, NEW old \in Int
  PROVE  Rescheduled(k, n, old, now) + Period(k) > fireAt
  <1>1. /\ Period(k) \in Nat \ {0} /\ now \in Nat /\ fireAt \in Int
    BY PeriodType DEF RowsOK
  <1>2. Rescheduled(k, n, old, now) \in Int /\ Rescheduled(k, n, old, now) > now
    BY RescheduledNow
  <1>3. fireAt <= now + Period(k)
    BY DEF FireNear
  <1>4. QED
    BY <1>1, <1>2, <1>3

LEMMA InitCurrent == Init => CurrentInv
  <1> SUFFICES ASSUME Init PROVE CurrentInv
    OBVIOUS
  <1>1. TimesInv /\ now \in Nat
    BY InitTimes DEF TimesInv, TypeOK
  <1> RowsOK
    BY <1>1, TimesInvParts
  <1>2. FireNear
    <2> SUFFICES ASSUME trigger \in Repeating PROVE fireAt <= now + Period(trigger)
      BY DEF FireNear
    <2>1. trigger = kind /\ fireAt = FirstFire(kind, next, now)
      BY DEF Init, Repeating
    <2>2. QED
      BY <1>1, <2>1, FireUpper
  <1>3. ASSUME kind \in Repeating, start = None PROVE next <= now + Period(kind)
    <2> DEFINE f == FormTime(kind, start, now)
    <2>1. f \in Int /\ f <= now + Period(kind)
      BY <1>1, <1>3, FormTimeType, FormUpper
    <2>2. next = Rescheduled(kind, f, f, now)
      BY DEF Init
    <2> HIDE DEF f
    <2>3. QED
      BY <1>1, <1>3, <2>1, <2>2, RescheduledUpper
  <1>4. TimesNear
    BY <1>3 DEF TimesNear, Init
  <1>5. ASSUME kind \in Repeating, trigger = kind
        PROVE  shown + Period(kind) > fireAt
    <2> DEFINE f == FormTime(kind, start, now)
    <2>1. f \in Int
      BY <1>1, FormTimeType DEF Init, TimesInv, TypeOK
    <2>2. shown = Rescheduled(kind, f, f, now)
      BY DEF Init
    <2> HIDE DEF f
    <2>3. QED
      BY <1>1, <1>2, <1>5, <2>1, <2>2, FreshNow
  <1>6. QED
    BY <1>2, <1>4, <1>5 DEF CurrentInv, ShownFresh

\* Time, triggers, runs that start and those that leave the row as it is; and a
\* run that writes it back, after which nothing is promised of it.
LEMMA RunsCurrent ==
  ASSUME TimesInv, CurrentInv,
         \/ Tick \/ Fire \/ Shutdown \/ Pause
         \/ \E t \in Threads :
              \/ Mark(t) \/ End(t) \/ ConnectionFails(t) \/ TableError(t)
              \/ RunNow(t)
  PROVE  CurrentInv'
  <1>1. /\ now \in Nat /\ {next, shown, fireAt} \subseteq Int
        /\ \A k : Period(k) \in Nat \ {0}
    BY PeriodType DEF TimesInv, TypeOK
  <1>2. CASE Tick
    BY <1>1, <1>2 DEF Tick, CurrentInv, FireNear, TimesNear, ShownFresh, registry
  <1>3. CASE Fire
    <2>1. NextLocal(now, Period(trigger)) <= now + Period(trigger)
      BY <1>1, LocalUpper
    <2>2. FireNear'
      BY <1>3, <2>1 DEF Fire, FireNear, Repeating
    <2>3. status' # "idle"
      BY <1>3 DEF Fire
    <2>4. QED
      BY <1>3, <2>2, <2>3 DEF Fire, CurrentInv, TimesNear, ShownFresh
  <1>4. CASE Shutdown
    BY <1>4 DEF Shutdown, CurrentInv, FireNear, TimesNear, ShownFresh, Repeating
  <1>5. CASE Pause
    BY <1>5 DEF Pause, CurrentInv, FireNear, TimesNear, ShownFresh, registry
  <1>6. ASSUME NEW t \in Threads, TableError(t) \/ RunNow(t) PROVE CurrentInv'
    <2>1. /\ UNCHANGED <<now, kind, enabled, next, shown, up, trigger, fireAt>>
          /\ UNCHANGED <<start, overwritten, status>>
      BY <1>6 DEF TableError, RunNow, registry
    <2>2. QED
      BY <2>1 DEF CurrentInv, FireNear, TimesNear, ShownFresh
  <1>7. ASSUME NEW t \in Threads, Mark(t) \/ End(t) \/ ConnectionFails(t)
        PROVE  CurrentInv'
    BY <1>7 DEF Mark, End, ConnectionFails, SavesJob, CurrentInv, FireNear,
                TimesNear, ShownFresh, registry
  <1>8. QED
    BY <1>2, <1>3, <1>4, <1>5, <1>6, <1>7

\* Where the schedule is enabled, next and shown are calculated anew; the trigger
\* may be registered anew as well.
LEMMA WrittenCurrent ==
  ASSUME TimesInv, CurrentInv, UNCHANGED <<now, kind, start>>,
         \/ UNCHANGED <<trigger, fireAt>>
         \/ trigger' \in {kind, "none"} /\ fireAt' = FirstFire(kind, next, now),
         \/ Reschedule
         \/ UNCHANGED <<next, shown, overwritten>> /\ trigger' = "none" /\ enabled' = enabled
  PROVE  CurrentInv'
  <1>1. /\ now \in Nat /\ {next, shown} \subseteq Int /\ RowsOK
        /\ \A k : Period(k) \in Nat \ {0}
    BY PeriodType, TimesInvParts DEF RowsOK
  <1>2. FireNear'
    <2>1. CASE UNCHANGED <<trigger, fireAt>>
      BY <2>1 DEF CurrentInv, FireNear
    <2>2. CASE trigger' \in {kind, "none"} /\ fireAt' = FirstFire(kind, next, now)
      BY <1>1, <2>2, FireUpper DEF FireNear, Repeating
    <2>3. QED
      BY <2>1, <2>2
  <1>3. CASE Reschedule
    <2>1. TimesNear'
      <3> SUFFICES ASSUME start = None, kind \in Repeating
                   PROVE  next' <= now + Period(kind) /\ shown' <= now + Period(kind)
        BY DEF TimesNear
      <3>1. next <= now + Period(kind)
        BY DEF CurrentInv, TimesNear
      <3>2. \A o \in Int : Rescheduled(kind, next, o, now) <= now + Period(kind)
        BY <1>1, <3>1, RescheduledUpper
      <3>3. QED
        BY <1>1, <1>3, <3>2 DEF Reschedule
    <2>2. ShownFresh'
      <3> SUFFICES ASSUME trigger' = kind, kind \in Repeating
                   PROVE  shown' + Period(kind) > fireAt'
        BY DEF ShownFresh
      <3>1. shown' \in Int /\ shown' > now
        BY <1>1, <1>3, RescheduleNow
      <3>2. fireAt' <= now + Period(kind)
        BY <1>2 DEF FireNear
      <3>3. fireAt' \in Int
        BY <1>1, FirstFireType DEF RowsOK
      <3>4. QED
        BY <1>1, <3>1, <3>2, <3>3
    <2>3. QED
      BY <1>2, <2>1, <2>2 DEF CurrentInv
  <1>4. CASE UNCHANGED <<next, shown, overwritten>> /\ trigger' = "none" /\ enabled' = enabled
    BY <1>2, <1>4 DEF CurrentInv, TimesNear, ShownFresh, Repeating
  <1>5. QED
    BY <1>3, <1>4

LEMMA ServedCurrent ==
  ASSUME TimesInv, CurrentInv,
         Resume \/ View \/ Restart \/ \E t \in Threads : Recalculate(t)
  PROVE  CurrentInv'
  <1>1. UNCHANGED <<now, kind, start>>
    BY DEF Recalculate, Resume, View, Restart
  <1>2. CASE Resume \/ View
    <2>1. UNCHANGED <<trigger, fireAt>> /\ Reschedule
      BY <1>2 DEF Resume, View, registry
    <2>2. QED
      BY <1>1, <2>1, WrittenCurrent
  <1>3. ASSUME NEW t \in Threads, Recalculate(t) PROVE CurrentInv'
    <2>1. UNCHANGED <<trigger, fireAt>>
      BY <1>3 DEF Recalculate, registry
    <2>2. CASE Reschedule
      BY <1>1, <2>1, <2>2, WrittenCurrent
    <2>3. CASE UNCHANGED <<next, shown, overwritten>>
      BY <1>3, <2>1, <2>3 DEF Recalculate, CurrentInv, FireNear, TimesNear, ShownFresh
    <2>4. QED
      BY <1>3, <2>2, <2>3 DEF Recalculate
  <1>4. CASE Restart
    <2>1. CASE enabled /\ status = "idle"
      <3>1. /\ fireAt' = FirstFire(kind, next, now)
            /\ trigger' = IF fireAt' = None THEN "none" ELSE kind
            /\ enabled' = enabled
            /\ \/ fireAt' = None /\ UNCHANGED <<next, shown, overwritten>>
               \/ Reschedule
        BY <1>4, <2>1 DEF Restart, Register
      <3>2. trigger' \in {kind, "none"}
        BY <3>1
      <3>3. QED
        BY <1>1, <3>1, <3>2, WrittenCurrent
    <2>2. CASE ~ (enabled /\ status = "idle")
      <3>1. UNCHANGED <<next, shown, trigger, fireAt, enabled, overwritten>> /\ trigger = "none"
        BY <1>4, <2>2 DEF Restart, TimesInv, registry
      <3>2. QED
        BY <1>1, <3>1, WrittenCurrent
    <2>3. QED
      BY <2>1, <2>2
  <1>5. QED
    BY <1>2, <1>3, <1>4

LEMMA EditCurrent ==
  ASSUME TimesInv, CurrentInv, NEW k \in Kinds, NEW s \in Starts \cup {None}, Edit(k, s)
  PROVE  CurrentInv'
  <1> DEFINE f == FormTime(k, s, now)
             n == IF enabled THEN Rescheduled(k, f, f, now) ELSE f
             fire == IF enabled THEN FirstFire(k, n, now) ELSE None
  <1>1. f \in Int /\ now \in Nat /\ (k \in Repeating /\ s = None => f <= now + Period(k))
    BY FormTimeType, FormUpper DEF TimesInv, TypeOK
  <1> RowsOK
    BY TimesInvParts
  <1>2. /\ fireAt' = fire /\ trigger' = IF fire = None THEN "none" ELSE k
        /\ next' = n /\ shown' = n /\ kind' = k /\ start' = s
        /\ overwritten' = FALSE
        /\ UNCHANGED <<now, enabled>>
    BY DEF Edit, Register
  <1> HIDE DEF f
  <1>3. k \in Repeating /\ s = None => n <= now + Period(k)
    BY <1>1, RescheduledUpper
  <1>4. n \in Int /\ (k \in Repeating /\ enabled => n > now)
    BY <1>1, RescheduledNow
  <1> HIDE DEF n
  <1>5. enabled => fire \in Int /\ (k \in Repeating => fire <= now + Period(k))
    BY <1>1, <1>4, FirstFireType, FireUpper
  <1>6. trigger' \in Repeating => enabled /\ trigger' = k
    BY <1>2 DEF Repeating
  <1> HIDE DEF fire
  <1>7. FireNear' /\ TimesNear'
    BY <1>2, <1>3, <1>5, <1>6 DEF FireNear, TimesNear
  <1>8. ShownFresh'
    <2> SUFFICES ASSUME k \in Repeating, enabled, trigger' = k
                 PROVE  n + Period(k) > fire
      BY <1>2 DEF ShownFresh
    <2>1. Period(k) \in Nat \ {0}
      BY PeriodType
    <2>2. QED
      BY <1>1, <1>4, <1>5, <2>1
  <1>9. QED
    BY <1>7, <1>8 DEF CurrentInv

LEMMA UpdateCurrent ==
  ASSUME TimesInv, CurrentInv, NEW k \in Kinds, NEW s \in Starts \cup {None},
         NEW on \in BOOLEAN, UpdateSchedule(k, s, on)
  PROVE  CurrentInv'
  <1>1. /\ s \in Int /\ now \in Nat /\ {shown, fireAt} \subseteq Int
        /\ Period(k) \in Nat \ {0}
    BY BoundsAssumption, PeriodType DEF None, TimesInv, TypeOK
  <1> RowsOK
    BY TimesInvParts
  <1>2. /\ kind' = k /\ enabled' = on /\ start' = s
        /\ UNCHANGED <<now, trigger, fireAt>>
        /\ \/ on /\ next' = Rescheduled(k, s, s, now) /\ shown' = Rescheduled(k, s, shown, now)
           \/ next' = s /\ (~on \/ s # None)
    BY DEF UpdateSchedule, registry
  <1>3. FireNear'
    BY <1>2 DEF CurrentInv, FireNear
  <1>4. TimesNear'
    <2> SUFFICES ASSUME k \in Repeating, s = None
                 PROVE  next' <= now + Period(k) /\ (on => shown' <= now + Period(k))
      BY <1>2 DEF TimesNear
    <2>1. s <= now + Period(k)
      BY <1>1 DEF None
    <2>2. QED
      BY <1>1, <1>2, <2>1, RescheduledUpper
  <1>5. ShownFresh'
    <2> SUFFICES ASSUME k \in Repeating, s = None, on, trigger = k
                 PROVE  shown' + Period(k) > fireAt
      BY <1>2 DEF ShownFresh
    <2>1. shown' = Rescheduled(k, s, shown, now)
      BY <1>2
    <2>2. QED
      BY <1>1, <2>1, FreshNow DEF CurrentInv
  <1>6. QED
    BY <1>3, <1>4, <1>5 DEF CurrentInv

LEMMA NextCurrent == TimesInv /\ CurrentInv /\ [Next]_vars => CurrentInv'
  <1> SUFFICES ASSUME TimesInv, CurrentInv, [Next]_vars PROVE CurrentInv'
    OBVIOUS
  <1>1. CASE UNCHANGED vars
    BY <1>1 DEF CurrentInv, FireNear, TimesNear, ShownFresh, vars, registry
  <1>2. CASE Tick \/ Fire \/ Shutdown \/ Pause \/ Resume \/ View \/ Restart
    BY <1>2, RunsCurrent, ServedCurrent
  <1>3. ASSUME NEW t \in Threads,
               \/ Mark(t) \/ End(t) \/ Recalculate(t) \/ ConnectionFails(t)
               \/ TableError(t) \/ RunNow(t)
        PROVE  CurrentInv'
    BY <1>3, RunsCurrent, ServedCurrent
  <1>4. ASSUME NEW k \in Kinds, NEW s \in Starts \cup {None}, Edit(k, s)
        PROVE  CurrentInv'
    BY <1>4, EditCurrent
  <1>5. ASSUME NEW k \in Kinds, NEW s \in Starts \cup {None},
               NEW on \in BOOLEAN, UpdateSchedule(k, s, on)
        PROVE  CurrentInv'
    BY <1>5, UpdateCurrent
  <1>6. QED
    BY <1>1, <1>2, <1>3, <1>4, <1>5 DEF Next

\* A job that waits for its trigger shows a next run less than a period from the
\* clock, for every calendar and zone, whatever is asked of the server and however
\* many runs there are, unless one of them has written an older one back.
THEOREM NextRunsAreCurrent == Spec => []NextRunIsCurrent
  <1>1. QED
    BY InitCurrent, NextCurrent, CurrentIs, TimesInvariance, PTL DEF Spec
=============================================================================
