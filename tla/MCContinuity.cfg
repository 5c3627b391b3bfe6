CONSTANTS
  Requests = {r1}
  Sessions = {s1, s2}
  Profiles = {a, b}
  Models = {m1}
  Calls = {c1, c2}
  None = None
  Max = 2
  TTL = 2
  Retention = 3
  MaxTime = 2
  MaxCrashes = 1
  MaxFaults = 1
  MaxTrouble = 2
  Family <- OneFamily
SPECIFICATION Spec
SYMMETRY Symmetry
INVARIANTS TypeOK ReplayedToItsMaker CallsHaveSession SurvivesRestart
PROPERTIES LostAsUnit
