CONSTANTS
  Half   = 16
  Ports  = {0, 1, 2, 3}
  Served = {1, 2}
  None   = None
SPECIFICATION Spec
INVARIANTS
  PassMeansZero
CHECK_DEADLOCK FALSE
