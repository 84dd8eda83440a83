CONSTANTS
  ann = ann
  c1 = c1
  c2 = c2
  home = home
  Accounts = {ann}
  Calls = {c1, c2}
  Addresses = {home}
  Home = home
  Limit = 1
  Window = 2
  AccessLife = 2
  RefreshLife = 3
  MaxTime = 4
  MaxStarts = 2
  None = None
SPECIFICATION Spec
INVARIANT SuspendedRunsOut
CHECK_DEADLOCK FALSE
