CONSTANTS
  Requests = {r1}
  Sessions = {s1, s2}
  Profiles = {a, b}
  Models = {m1}
  Calls = {c1, c2}
  None = None
  Max = 2
  TTL = 1
  Retention = 1
  MaxTime = 1
  MaxCrashes = 0
  MaxFaults = 0
  MaxTrouble = 1
  Family <- OneFamily
SPECIFICATION Spec
SYMMETRY Symmetry
PROPERTIES AlternatePersists
