SPECIFICATION FairSpec
CONSTANTS
  c1 = c1
  c2 = c2
  alice = alice
  u1 = u1
  u2 = u2
  u3 = u3
  Budget = 0
  Conns = {c1}
  Uploads = {u1}
  Accounts = {alice}
  AccountOf <- OneAccount
  BlindAccounts = {}
  Chunks = {1}
  MaxName = 2
  MaxUploadsPerAccount = 2
  MaxDownloadsPerAccount = 1
  MaxConcurrent = 3
  MaxReserved = 2
  MaxOpen = 2
  MaxFaults = 0
  MaxRollback = 3
  MaxCrashes = 0
  MaxPowerLosses = 2
  MaxEdits = 1
  MaxSweeps = 0
CHECK_DEADLOCK FALSE
PROPERTY RequestsEnd
PROPERTY FiledGetsBytes
