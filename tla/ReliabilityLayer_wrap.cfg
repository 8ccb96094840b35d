SPECIFICATION Spec
CHECK_DEADLOCK FALSE
CONSTANTS
  st = st
  sim = sim
  net = net
  Streams <- OneStream
  Callers <- OneCaller
  Traffic <- Safe
  Half = 1
  MinWindow = 1
  MaxWindow = 2
  PeerSends = TRUE
  FrameLimit = 2
  MaxPackets = 4
  MaxAcks = 1
  MaxAckFrames = 1
  MaxLate = 0
INVARIANT DueIsHanded
