CONSTANTS
  COUNTER_BITS = 2
  COUNTER_WORDS = 4
  UINT64_MAX = 19
SPECIFICATION Spec
INVARIANTS
  TypeOK
  BitmapExact
PROPERTIES
  ImplementsReplayFilter
