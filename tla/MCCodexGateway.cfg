CONSTANTS
  Requests = {r1, r2}
  Profiles = {1, 2, 3}
  Registered = {1, 2, 3}
  LoggedIn = {1, 2, 3}
  Editors = {e1}
  Orphaned = {2}
  None = None
  Dead = Dead
  Hour = 1
  MaxClock = 1
  MaxExpiries = 1
  MaxFailures = 1
  MaxDisturbed = 1
SPECIFICATION FairSpec
INVARIANTS TypeOK AttemptsBounded WritersSerialized RefreshSingleUse
PROPERTIES LeavesOnlyLimited RequestEnds
CHECK_DEADLOCK FALSE
