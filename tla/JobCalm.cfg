CONSTANTS
  p1 = p1
  p2 = p2
  t1 = t1
  t2 = t2
  t3 = t3
  Servers <- TwoServers
  Threads <- ThreeThreads
  Created <- AnySchedule
  MaxRequests = 3
  MaxCrashes = 1
  Requests <- AllRequests
  Outcomes <- AllOutcomes
SPECIFICATION CalmSpec
CHECK_DEADLOCK FALSE
INVARIANT AtMostOneRun
INVARIANT RunIsVisible
INVARIANT CalmInv
