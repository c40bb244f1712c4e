SPECIFICATION Spec
INVARIANT Consistent
INVARIANT InOrder
INVARIANT PeekIsNext
PROPERTY CurrentKept
CONSTANTS
  Contexts <- MCContexts
  Named <- MCNamed
  SeekMaxPages = 1
  MaxTracks = 3
  MaxQueue = 2
  MaxQueueID = 2
  MaxInjected = 1
