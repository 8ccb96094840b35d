SPECIFICATION Spec
CHECK_DEADLOCK FALSE
CONSTANTS
  h1 = h1
  k1 = k1
  k2 = k2
  gauge = gauge
  none = none
  Connections <- OneHost
  Hosts <- OneHost
  Gauge = gauge
  None = none
  Users <- OnlyPolite
  MaxClicks = 1
INVARIANT AssertionHolds
