CONSTANTS
  Profiles = {p1, p2}
  Registered = {p1}
  Jobs = {j1, j2}
  Accounts = {a, b}
  Tokens = {t1, t2, t3, t4}
  None = None
  Unborn = Unborn
  Invalid = Invalid
  MaxRetained = 3
  MaxAsked = 1
  MaxCrashes = 1
  MaxFaults = 1
  MaxRefreshes = 1
SPECIFICATION Spec
SYMMETRY Symmetry
PROPERTIES ReconcileIdempotent
CHECK_DEADLOCK FALSE
