SPECIFICATION SizedSpec
CHECK_DEADLOCK FALSE
CONSTANTS
  c1 = c1
  c2 = c2
  h = h
  a = a
  b = b
  none = none
  Clients <- TwoClients
  Host <- h
  Channels <- OneChannel
  NoId <- none
  ReservedChannels = 2
  Mobile <- NoneMobile
  Senders <- HostSends
  Racing = {}
  MaxSessions = 2
  MaxSent = 4
  MaxPending = 1
SYMMETRY ClientSymmetry
INVARIANT InOrderUnlessLate
INVARIANT HandedOnce
INVARIANT NoSafeLoss
INVARIANT RequestOutstanding
INVARIANT DeliveryInv
