SPECIFICATION MCSpec
CONSTANTS
  MaxInt = 31
  ByteBits = 2
  Bits = 8
  Contents <- SingleOnes
  MaxStep = 4
  MaxIndices = 2
  MaxMask = 5
  MaxCalls = 1
  GilDisabled = TRUE
  MaxBytes = 5
  Undef = Undef
  WordBytes = 2
  BlockWords = 2
  Alignment = 2
  MaxBits = 9
  MaxSub = 2
CHECK_DEADLOCK FALSE
INVARIANTS
  SlicesVisited
  SourcesReadFirst
  DeletesWhatItGets
  MaskLikeSequence
  SpansExact
  SearchesExact
