SPECIFICATION PlaybackSpec
INVARIANT PlaybackConsistent
PROPERTY HeardInOrder
PROPERTY FullFade
CONSTANTS
  a = a
  b = b
  c = c
  Streams = {a, b, c}
  Length <- MCLength
  NoFade = {b}
  Faulty = {c}
  None = None
  Fade = 2
  Headroom = 3
  Scratch = 2
  MaxRead = 3
  SeekTargets = {0, 2}
