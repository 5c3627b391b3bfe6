CONSTANTS
  Requests = {r1, r2}
  Profiles = {1, 2, 3}
  Registered = {1, 2}
  LoggedIn = {1, 2, 3}
  Editors = {e1}
  Orphaned = {}
  None = None
  Dead = Dead
  Hour = 1
  MaxClock = 1
  MaxExpiries = 0
  MaxFailures = 0
  MaxDisturbed = 3
SPECIFICATION Spec
SYMMETRY Symmetry
CHECK_DEADLOCK FALSE
PROPERTIES RegistrationKeepsActive
