SPECIFICATION Spec
CONSTANTS
  Hour = 4
  Day = 8
  Week = 16
  Zone = 6
  Cron = 8
  Horizon = 34
  Threads = {t1}
  Starts = {27}
  Requests = {"run_now", "edit", "schedule", "pause", "resume", "view", "restart"}
INVARIANT NextRunIsCurrent
INVARIANT CustomRunIsKept
INVARIANT TimesInv
PROPERTY NextRunAhead
CHECK_DEADLOCK FALSE
