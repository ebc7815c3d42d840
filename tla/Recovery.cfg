SPECIFICATION Spec
CONSTANTS
  c1 = c1
  c2 = c2
  alice = alice
  u1 = u1
  u2 = u2
  u3 = u3
  Budget = 3
  Conns = {c1}
  Uploads = {u1, u2}
  Accounts = {alice}
  AccountOf <- OneAccount
  BlindAccounts = {}
  Chunks = {1, 2}
  MaxName = 2
  MaxUploadsPerAccount = 2
  MaxDownloadsPerAccount = 1
  MaxConcurrent = 3
  MaxReserved = 4
  MaxOpen = 2
  MaxFaults = 1
  MaxRollback = 0
  MaxCrashes = 1
  MaxPowerLosses = 0
  MaxEdits = 1
  MaxSweeps = 1
SYMMETRY TaskSymmetry
CONSTRAINT InBudget
CHECK_DEADLOCK FALSE
INVARIANT StorageSound
PROPERTY ImplementsShelf
