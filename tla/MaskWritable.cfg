SPECIFICATION Spec
CONSTANTS
  Objects = {a, b}
  NoObject = NoObject
  Undef = Undef
  ByteBits = 2
  MaxBytes = 1
  MaxViews = 0
  MaxItems = 1
  Endians = {1}
  AllocFails = FALSE
  ReadonlyViews = FALSE
  Pickling = FALSE
INVARIANTS
  FrozenIsReadonly
CHECK_DEADLOCK FALSE
