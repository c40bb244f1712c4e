SPECIFICATION FairSpec
INVARIANT Consistent
INVARIANT ReadAtContract
PROPERTY CloseTerminates
CONSTANTS
  FileLen = 5
  ChunkSize = 2
  PrefetchCount = 1
  ReadLens = {1, 4}
  Prefetchers = {g1}
  Stream = stream
  Saver = saver
  None = none
