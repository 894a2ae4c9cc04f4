CONSTANTS
  Sources <- AllDatabases
  Targets <- AllDatabases
  Kinds <- AllKinds
  MaxFaults = 1
  MaxWidenings = 1
SPECIFICATION FairSpec
INVARIANT OwnTable
INVARIANT WrittenWhereCreated
INVARIANT ExactValues
PROPERTY Arrives
