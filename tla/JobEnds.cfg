CONSTANTS
  p1 = p1
  p2 = p2
  t1 = t1
  t2 = t2
  t3 = t3
  Servers <- OneServer
  Threads <- ThreeThreads
  Created <- AnySchedule
  MaxRequests = 3
  MaxCrashes = 0
  Requests <- AllRequests
  Outcomes <- NoTableError
SPECIFICATION FairSpec
CHECK_DEADLOCK FALSE
PROPERTY RunningEnds
