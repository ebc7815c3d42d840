SPECIFICATION Spec
CONSTANTS
  c1 = c1
  c2 = c2
  alice = alice
  root = root
  k1 = k1
  k2 = k2
  home = home
  away = away
  Conns = {c1}
  Accounts = {alice, root}
  Admins = {k1, k2}
  Addresses = {home, away}
  AddressOf <- FirstAway
  Operator = root
  Guests = {}
  Requests = {"reset", "password", "role", "ban", "rules"}
  MaxUsers = 0
  MaxAttempts = 1
  MaxOps = 2
SYMMETRY AdminSymmetry
CHECK_DEADLOCK FALSE
INVARIANT SignInsFresh
