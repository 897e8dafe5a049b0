CONSTANTS
  Threads = {t1, t2, t3}
  COUNTER_WINDOW_SIZE = 2
  UINT64_MAX = 7
SPECIFICATION FairSpec
CHECK_DEADLOCK FALSE
INVARIANTS
  NoNonceReuse
  NoLostNonce
  BoundedOvershoot
PROPERTIES
  CountersOrdered
  ExhaustedIsRetired
