SPECIFICATION FairSpec
INVARIANT Consistent
INVARIANT NoStaleListing
PROPERTY PollsBecomeReady
PROPERTY QueuedSweepRuns
CONSTANTS
  u1 = u1
  u2 = u2
  NoContext = NoContext
  Contexts <- MCContexts
  Groups <- MCGroups
  Callers = {e1, e2}
  Editors = {w1}
  MaxEdits = 1
  MaxFailures = 1
  MaxDrops = 1
