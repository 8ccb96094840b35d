SPECIFICATION Spec
CHECK_DEADLOCK FALSE
CONSTANTS
  c1 = c1
  c2 = c2
  h = h
  a = a
  b = b
  none = none
  Clients <- OneClient
  Host <- h
  Channels <- TwoChannels
  NoId <- none
  ReservedChannels = 2
  Mobile <- OneMobile
  Senders <- ClientSends
  Racing <- HostSends
  MaxSessions = 4
  MaxSent = 2
  MaxPending = 1
INVARIANT TypeOK
INVARIANT IInv
INVARIANT MapsAgree
INVARIANT HostMapsInverse
INVARIANT TodoKnownToHost
INVARIANT RightChannel
