CONSTANTS
  Nodes = {A, B}
  Initiators = {A}
  Indexes = {i1, i2, i3, i4}
  REKEY_TIMEOUT = 0
  REJECT_AFTER_TIME = 1
  None = None
  MaxTime = 2
  MaxEphemerals = 3
  MaxFaults = 0
SPECIFICATION Spec
SYMMETRY IndexSymmetry
CHECK_DEADLOCK FALSE
INVARIANTS
  OneSessionPerInitiation
  Confirmed
  IndexesDistinct
PROPERTIES
  CurrentAdvances
