CONSTANTS
  Half     = 16
  Ports    = {0, 1, 2, 3}
  Served   = {1, 2}
  None     = None
  WordBits = 3
  Orders   = {"little"}
  Bytes    = {0, 1, 2}
  Size     = 3
SPECIFICATION TestSpec
INVARIANTS
  ReturnsTheQuotient
CHECK_DEADLOCK FALSE
