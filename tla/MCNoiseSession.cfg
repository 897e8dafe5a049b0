CONSTANTS
  Nodes = {A, B}
  Initiators = {A, B}
  Indexes = {i1, i2, i3, i4}
  REKEY_TIMEOUT = 0
  REJECT_AFTER_TIME = 1
  None = None
  MaxTime = 1
  MaxEphemerals = 2
  MaxFaults = 1
SPECIFICATION Spec
SYMMETRY Symmetry
CHECK_DEADLOCK FALSE
INVARIANTS
  TypeOK
  Agreement
  OneSessionPerInitiation
  Confirmed
  IndexesDistinct
PROPERTIES
  CurrentAdvances
