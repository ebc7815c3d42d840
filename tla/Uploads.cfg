SPECIFICATION Spec
CONSTANTS
  c1 = c1
  c2 = c2
  alice = alice
  u1 = u1
  u2 = u2
  u3 = u3
  Budget = 3
  Conns = {c1, c2}
  Uploads = {u1, u2, u3}
  Accounts = {alice}
  AccountOf <- OneAccount
  BlindAccounts = {alice}
  Chunks = {1}
  MaxName = 3
  MaxUploadsPerAccount = 2
  MaxDownloadsPerAccount = 1
  MaxConcurrent = 3
  MaxReserved = 3
  MaxOpen = 1
  MaxFaults = 1
  MaxRollback = 0
  MaxCrashes = 0
  MaxPowerLosses = 0
  MaxEdits = 1
  MaxSweeps = 0
SYMMETRY TaskSymmetry
CONSTRAINT InBudget
CHECK_DEADLOCK FALSE
INVARIANT HeldExact
INVARIANT NamesExact
INVARIANT AccountingExact
INVARIANT OpenUploadsBounded
PROPERTY FilingRespectsNames
