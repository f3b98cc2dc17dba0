SPECIFICATION Spec
CONSTANTS
  Spellings = {z}
  Window = 1
  MaxTime = 6
INVARIANTS Inv
PROPERTIES ImplementsNonceRegistry CacheBounded
