CONSTANTS
  a = a
  b = b
  Tables <- TwoTables
  MaxBatches = 1
  Errors <- AnyError
  MaxFaults = 1
  MaxLost = 1
SPECIFICATION FairPageSpec
INVARIANT CompletedIsWhole
INVARIANT VerdictIsHonest
INVARIANT OutcomesAgree
INVARIANT BooksBalance
INVARIANT ResultIsWhole
PROPERTY RunEnds
PROPERTY ControlsJob
PROPERTY PageSettles
CHECK_DEADLOCK FALSE
