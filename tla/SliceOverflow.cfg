SPECIFICATION Spec
CONSTANTS
  MaxInt = 15
  ByteBits = 2
  Bits = 6
  Contents <- SingleOnes
  MaxStep = 15
  MaxIndices = 0
  MaxMask = 0
  MaxCalls = 1
  GilDisabled = TRUE
CHECK_DEADLOCK FALSE
INVARIANTS
  IndexAsserted
