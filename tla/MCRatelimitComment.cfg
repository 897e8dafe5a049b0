CONSTANTS
  Endpoints = {a, b, c}
  INITIATION_COST = 2
  INITIATIONS_BURSTABLE = 2
  ELEMENT_TIMEOUT = 4
  RATELIMIT_SIZE_MAX = 2
  None = None
SPECIFICATION Spec
PROPERTIES
  BlockedAtCost
