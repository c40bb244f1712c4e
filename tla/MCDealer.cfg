SPECIFICATION FairSpec
INVARIANT Consistent
PROPERTY Reconnects
PROPERTY CloseEnds
CONSTANTS
  DispatchCap = 1
  MaxFrames = 2
  MaxDials = 3
CHECK_DEADLOCK FALSE
