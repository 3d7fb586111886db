SPECIFICATION Spec
CONSTANTS
  MaxInt = 31
  ByteBits = 2
  Bits = 6
  Contents <- AllContents
  MaxStep = 2
  MaxIndices = 0
  MaxMask = 0
  MaxCalls = 1
  GilDisabled = TRUE
CHECK_DEADLOCK FALSE
INVARIANTS
  MaskAsserted
