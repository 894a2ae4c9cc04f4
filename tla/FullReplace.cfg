CONSTANTS
  w1 = w1
  Rows <- FourRows
  Rank <- ByKey
  Workers <- OneWorker
  BatchSize = 2
  MaxFaults = 2
SPECIFICATION FairSpec
INVARIANT NothingMissing
INVARIANT NothingElse
PROPERTY ExactAgain
PROPERTY Implements
