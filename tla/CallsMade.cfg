CONSTANTS
  a = a
  b = b
  c = c
  Tables <- ThreeTables
  Kinds <- AllKinds
  Modes <- AllModes
  MaxFaults = 2
SPECIFICATION Spec
CHECK_DEADLOCK FALSE
INVARIANT FailsAlone
INVARIANT RetriesHeal
INVARIANT KeyOrdered
