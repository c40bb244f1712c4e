SPECIFICATION Spec
INVARIANT Atomic
INVARIANT WithinLimit
PROPERTY LeastRecentlyUsed
CONSTANTS
  a = a
  b = b
  c = c
  p1 = p1
  p2 = p2
  Files <- MCFiles
  Savers <- MCSavers
  Readers = {r1}
  Size <- MCSize
  Limit = 3
  MaxSaves = 4
  MaxReads = 2
  MaxCrashes = 1
SYMMETRY Symmetry
CHECK_DEADLOCK FALSE
