SPECIFICATION Spec
CHECK_DEADLOCK FALSE
CONSTANTS
  c1 = c1
  c2 = c2
  corrupt = corrupt
  Clients <- OneClient
  Displays <- OneClient
  Corrupt <- corrupt
  Modulus = 7
  Throttle = 1
  Networks <- BestNetwork
  MaxFrames = 4
  MaxJoins = 1
  MaxRestarts = 0
PROPERTY SkipsOnlyTheSame
