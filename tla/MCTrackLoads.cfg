SPECIFICATION Spec
 
INVARIANT RequestsCarried
INVARIANT ListChangesInOrder
INVARIANT StreamsAccounted
CONSTANTS
  QueueSize = 8
  ResultsCap = 2
  Ops = {"play", "skipto", "next", "prev", "mutate", "prefetch", "stop", "close"}
  Autoplay = TRUE
  Unsupported = FALSE
  Debounce = TRUE
  MaxOps = 3
  MaxJobs = 6
CHECK_DEADLOCK FALSE
