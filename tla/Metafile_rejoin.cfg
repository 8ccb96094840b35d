SPECIFICATION Spec
CHECK_DEADLOCK FALSE
CONSTANTS
  c1 = c1
  c2 = c2
  corrupt = corrupt
  Clients <- TwoClients
  Displays <- None
  Corrupt <- corrupt
  Modulus = 7
  Throttle = 1
  Networks <- BestNetwork
  MaxFrames = 4
  MaxJoins = 2
  MaxRestarts = 0
SYMMETRY ClientSymmetry
INVARIANT NeverCorrupt
