SPECIFICATION Spec
CONSTANTS
  Objects = {a, b, c}
  NoObject = NoObject
  Undef = Undef
  ByteBits = 2
  MaxBytes = 1
  MaxViews = 1
  MaxItems = 1
  Endians = {1}
  AllocFails = TRUE
  ReadonlyViews = FALSE
  Pickling = TRUE
SYMMETRY Symmetry
INVARIANTS
  TypeOK
  CheckObj
  ImportsValid
  ExportsCounted
  FrozenPadsZero
PROPERTIES
  SharedBufferPinned
  ReadonlyImmutable
CHECK_DEADLOCK FALSE
