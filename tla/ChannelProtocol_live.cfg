SPECIFICATION LiveSpec
CHECK_DEADLOCK FALSE
CONSTANTS
  c1 = c1
  c2 = c2
  h = h
  a = a
  b = b
  none = none
  Clients <- OneClient
  Host <- h
  Channels <- OneChannel
  NoId <- none
  ReservedChannels = 2
  Mobile <- NoneMobile
  Senders <- EveryoneSends
  Racing <- EveryoneSends
  MaxSessions = 2
  MaxSent = 2
  MaxPending = 1
PROPERTY TodoDrained
PROPERTY NumberLearned
