SPECIFICATION StringSpec
CONSTANTS
  ByteBits = 4
  MaxBytes = 3
  Undef = Undef
  FastBytes = 2
  Endians = {1}
  StringLengths <- MCStringLengths
  MaxOnes = 2
  MaxLength = 1
INVARIANTS
  CommutesCorrect
