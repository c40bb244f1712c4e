SPECIFICATION FairLinkSpec
INVARIANT LinkConsistent
PROPERTY Recovers
PROPERTY CloseEnds
CONSTANTS
  Pumps = {key}
  RecvChanSize = 1
  MaxDials = 3
  MaxPackets = 2
  MaxSends = 1

CHECK_DEADLOCK FALSE
