SPECIFICATION SizedSpec
CHECK_DEADLOCK FALSE
CONSTANTS
  st = st
  sim = sim
  net = net
  Streams <- OneStream
  Callers <- TwoCallers
  Traffic <- Program
  Half = 4
  MinWindow = 1
  MaxWindow = 2
  PeerSends = TRUE
  FrameLimit = 2
  MaxPackets = 3
  MaxAcks = 1
  MaxAckFrames = 1
  MaxLate = 0
SYMMETRY CallerSymmetry
INVARIANT TypeOK
INVARIANT NoSafePacketLost
INVARIANT NewestHeld
INVARIANT DueIsHanded
INVARIANT WholeMessages
PROPERTY Streamed
