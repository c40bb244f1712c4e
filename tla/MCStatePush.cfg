SPECIFICATION FairSpec
INVARIANT Consistent
PROPERTY Converges
PROPERTY CloseEnds
CONSTANTS
  QueueSize = 2
  Transitions = {"newdevice", "inactive"}
  MaxChanges = 3
  MaxFailures = 2
CHECK_DEADLOCK FALSE
