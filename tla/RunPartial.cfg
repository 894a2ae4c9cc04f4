CONSTANTS
  a = a
  b = b
  Tables <- TwoTables
  MaxBatches = 1
  Errors <- TableErrors
  MaxFaults = 0
SPECIFICATION Spec
INVARIANT RunIsHonest
CHECK_DEADLOCK FALSE
