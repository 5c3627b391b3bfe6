CONSTANTS
  Requests = {r1, u1}
  Upgrades = {u1}
  None = None
  QueueSize = 1
  PerFile = 1
  MaxFiles = 3
  Days = 2
  MaxRuns = 2
  MaxSurprises = 1
SPECIFICATION Spec
CHECK_DEADLOCK FALSE
INVARIANTS TypeOK EveryEventOnce CloseTellsAll SummaryAddsUp RotationKeepsSuffix ReportSound
