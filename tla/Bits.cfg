SPECIFICATION MCSpec
CONSTANTS
  ByteBits = 4
  MaxSize = 200
  MaxCredit = 401
  MaxBytes = 5
  Undef = Undef
  WordBytes = 2
  Alignment = 2
  Lengths <- MCLengths
  FastBytes = 2
  Endians = {0, 1}
  StringLengths <- MCStringLengths
  MaxOnes = 2
  MaxLength = 1
INVARIANTS
  WasteBounded
  CopyingAmortized
  CopyCorrect
  AccessesInBounds
  CommutesMasked
  PhaseCorrect
  StringsAgree
