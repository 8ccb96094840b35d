SPECIFICATION SizedSpec
CHECK_DEADLOCK FALSE
CONSTANTS
  c1 = c1
  c2 = c2
  corrupt = corrupt
  Clients <- TwoClients
  Displays <- OneClient
  Corrupt <- corrupt
  Modulus = 3
  Throttle = 1
  Networks <- ThreeNetworks
  MaxFrames = 6
  MaxJoins = 2
  MaxRestarts = 2
INVARIANT TypeOK
INVARIANT ReferencePresent
INVARIANT NeverCorruptInOrder
INVARIANT RefusedOnceIfPrompt
