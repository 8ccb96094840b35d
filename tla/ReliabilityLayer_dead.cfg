SPECIFICATION Spec
CHECK_DEADLOCK FALSE
CONSTANTS
  st = st
  sim = sim
  net = net
  Streams <- OneStream
  Callers <- OneCaller
  Traffic <- Unsafe
  Half = 4
  MinWindow = 2
  MaxWindow = 3
  PeerSends = FALSE
  FrameLimit = 2
  MaxPackets = 2
  MaxAcks = 1
  MaxAckFrames = 1
  MaxLate = 0
INVARIANT DeadOnlyUnanswered
