SPECIFICATION Spec
CONSTANTS
  c1 = c1
  c2 = c2
  alice = alice
  root = root
  k1 = k1
  k2 = k2
  home = home
  away = away
  Conns = {c1}
  Accounts = {alice}
  Admins = {k1}
  Addresses = {home, away}
  AddressOf <- FirstAway
  Operator = root
  Guests = {}
  Requests = {"row", "role"}
  MaxUsers = 0
  MaxAttempts = 1
  MaxOps = 3
CHECK_DEADLOCK FALSE
INVARIANT PrivilegesFresh
