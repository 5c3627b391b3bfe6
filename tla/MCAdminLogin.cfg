CONSTANTS
  Profiles = {p1}
  Registered = {}
  Jobs = {j1, j2}
  Accounts = {a, b}
  Tokens = {t1, t2, t3, t4}
  None = None
  Unborn = Unborn
  Invalid = Invalid
  MaxRetained = 1
  MaxAsked = 1
  MaxCrashes = 1
  MaxFaults = 1
  MaxRefreshes = 1
SPECIFICATION FairSpec
INVARIANTS TypeOK AuthRecoverable SettledOutcome
PROPERTIES ReloginKeepsAccount LoginSettles BackupSettles
CHECK_DEADLOCK FALSE
