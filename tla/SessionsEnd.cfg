SPECIFICATION FairSpec
CONSTANTS
  c1 = c1
  c2 = c2
  alice = alice
  root = root
  k1 = k1
  k2 = k2
  home = home
  away = away
  Conns = {c1, c2}
  Accounts = {alice}
  Admins = {k1}
  Addresses = {home, away}
  AddressOf <- FirstAway
  Operator = root
  Guests = {}
  Requests = {"ban", "reset", "shutdown", "row", "password"}
  MaxUsers = 1
  MaxAttempts = 1
  MaxOps = 1
CHECK_DEADLOCK FALSE
INVARIANT ChangeSignsOutOthers
INVARIANT SessionsExact
PROPERTY StaleSessionsEnd
PROPERTY ShutdownDrains
