CONSTANTS
  Calls = {c1, c2}
  Jobs = {j1, j2}
  Profiles = {p1, p2}
  Registered = {p1}
  Accounts = {a1, a2}
  Home = a1
  None = None
  MaxExpiries = 1
  MaxTrouble = 1
SPECIFICATION Spec
CHECK_DEADLOCK FALSE
INVARIANTS TypeOK OneSnapshot RefreshedOnce
PROPERTIES LoginKept
