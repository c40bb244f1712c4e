SPECIFICATION FairSpec
INVARIANT Consistent
PROPERTY CallsReturn
PROPERTY ImplementsRequests
CONSTANTS
  Calls = {c1, c2}
  NoCall = nocall
CHECK_DEADLOCK FALSE
