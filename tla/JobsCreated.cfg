CONSTANTS
  a = a
  b = b
  x = x
  y = y
  t1 = t1
  r1 = r1
  r2 = r2
  p = p
  q = q
  k = k
  Conns <- TwoConns
  Passwords <- TwoPasswords
  TokenLike <- QLooksEncrypted
  ProperKeys <- OneKey
  MaxDeeds = 5
  Tables <- TwoTables
  TablesOf <- AllTables
  Tabs <- OneTab
  Requests <- TwoRequests
  MaxForms = 2
  MaxJobs = 2
  MaxInputs = 2
  MaxFaults = 1
SPECIFICATION Spec
INVARIANT JobIsOneForm
INVARIANT JobIsWhole
INVARIANT TwinsRaced
INVARIANT NeverWrong
SYMMETRY Symmetry
CHECK_DEADLOCK FALSE
