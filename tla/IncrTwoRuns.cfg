CONSTANTS
  w1 = w1
  w2 = w2
  Rows <- TwoRows
  MaxVal = 3
  Workers <- TwoWorkers
  BatchSize = 1
  MaxFaults = 1
  Changes <- AllButTies
  NullRows = FALSE
  NullsFirst = TRUE
  HasPrimaryKey = TRUE
  UserResets = TRUE
  SnapshotReads = TRUE
  TargetUnique = TRUE
SPECIFICATION Spec
INVARIANT CompletedMeansCopied
INVARIANT IInv
SYMMETRY Symmetry
