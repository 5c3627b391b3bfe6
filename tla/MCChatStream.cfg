CONSTANTS
  MaxItems = 2
  MaxDeltas = 2
SPECIFICATION Spec
INVARIANTS TypeOK StreamMatchesAnswer OneStream OnlyCompletedAnswered LoggedAsTold
CHECK_DEADLOCK FALSE
