CHECK_DEADLOCK FALSE
SPECIFICATION MCSpec
CONSTANTS
  Inner = Inner
  CodeDicts <- MCCodes
  Words <- MCWords
  Overwrites <- MCOverwrites
  MaxBits = 4
  MaxChanges = 1
  Frequencies <- MCFrequencies
  CodeBits = 3
  ArrayBits = 4
  ArrayLengths = {0, 1, 2, 4}
  Arrays <- MCArrays
  SmallArrays <- MCSmall
  MaxQueue = 2
  Bytes = {0, 1, 2, 3, 6, 7, 8, 9, 11, 12, 15, 17, 19, 36}
  ByteBits = 2
  RawSegs = 5
  MaxType = 3
  SizeBytes = 4
  AllocSize = 12
  MaxMemory = 80
  Width = 4
  LenPad = 2
  AllocBits = 3
  Undef = Undef
  WordBytes = 2
  WordMaxBytes = 4
  TextMaxBytes = 2
  TextByteBits = 4
  WordLengths = {3, 4, 5}
  DigitBits = {1, 2, 3}
  TextLengths = {0, 2, 3, 5, 6, 8}
  MaxText = 3
  Space = 90
  Other = 91
INVARIANTS
  TypesOK
  TreesOwned
  TreeMatchesCode
  DecodesWhatWasEncoded
  HuffmanOptimal
  CanonicalAgrees
  EncodeFits
  DecodedFits
  WordsExact
  ConversionsInverse
PROPERTIES
  ChannelSpec
  CallsEnd
