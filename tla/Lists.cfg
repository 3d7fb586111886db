SPECIFICATION Spec
CONSTANTS
  Objects = {a, b}
  NoObject = NoObject
  Undef = Undef
  ByteBits = 2
  MaxBytes = 2
  MaxViews = 0
  MaxItems = 1
  Endians = {0, 1}
  AllocFails = FALSE
  ReadonlyViews = TRUE
  Pickling = FALSE
SYMMETRY Symmetry
INVARIANTS
  ListSemantics
  FailedExtendRestores
  NoGarbage
  CopiesDisjoint
CHECK_DEADLOCK FALSE
