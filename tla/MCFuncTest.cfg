CONSTANTS
  Half     = 16
  Ports    = {0, 1, 2, 3}
  Served   = {1, 2}
  None     = None
  WordBits = 3
  Orders   = {"little", "declared"}
  Bytes    = {0, 1, 2}
  Size     = 4
SPECIFICATION TestSpec
INVARIANTS
  CodesAreFaithful
  InitMakesPortsSafe
  QuotientsAreRight
  BytesAreRight
PROPERTIES
  VerdictIsFinal
CHECK_DEADLOCK FALSE
