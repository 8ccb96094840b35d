SPECIFICATION SizedSpec
CHECK_DEADLOCK FALSE
CONSTANTS
  h1 = h1
  k1 = k1
  k2 = k2
  gauge = gauge
  none = none
  Connections <- Three
  Hosts <- OneHost
  Gauge = gauge
  None = none
  Users <- BothUsers
  MaxClicks = 2
INVARIANT TypeOK
INVARIANT CallbackDue
INVARIANT NoReentry
INVARIANT RefsExact
INVARIANT NeverFreed
INVARIANT EndReported
INVARIANT PoliteInv
PROPERTY Ended
