CONSTANTS
  MaxItems = 1
  MaxDeltas = 1
SPECIFICATION Spec
INVARIANT TruncatedNotCompleted
CHECK_DEADLOCK FALSE
