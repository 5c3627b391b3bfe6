CONSTANTS
  Requests = {r1, r2}
  Profiles = {1, 2, 3}
  Registered = {1, 2, 3}
  LoggedIn = {1, 2, 3}
  Editors = {}
  Orphaned = {}
  None = None
  Dead = Dead
  Hour = 1
  MaxClock = 1
  MaxExpiries = 1
  MaxFailures = 1
  MaxDisturbed = 3
SPECIFICATION Spec
SYMMETRY Symmetry
CHECK_DEADLOCK FALSE
PROPERTIES RotatesOnlyOnLimit
