CONSTANTS
  w1 = w1
  w2 = w2
  Rows <- ThreeRows
  MaxVal = 3
  Workers <- OneWorker
  BatchSize = 2
  MaxFaults = 3
  Changes <- Appends
  NullRows = TRUE
  NullsFirst = TRUE
  HasPrimaryKey = TRUE
  UserResets = FALSE
  SnapshotReads = FALSE
  TargetUnique = FALSE
SPECIFICATION FairSpec
INVARIANT NothingSkipped
INVARIANT NoDoubles
PROPERTY Implements
PROPERTY EventuallySynced
