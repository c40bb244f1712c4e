SPECIFICATION FairSpec
INVARIANT Consistent
PROPERTY EveryCommandAnswered
PROPERTY EveryEndAnnounced
CONSTANTS
  a = a
  b = b
  Streams = {a, b}
  Length <- MCLength
  NoFade <- MCNoStreams
  Faulty <- MCNoStreams
  None = None
  Fade = 0
  Headroom = 1
  Scratch = 1
  RunLoop = RunLoop
  Loader = Loader
  Devices = {d1, d2}
  EvCap = 8
  Controls <- MCControls
  MaxCommands = 2
CHECK_DEADLOCK FALSE
