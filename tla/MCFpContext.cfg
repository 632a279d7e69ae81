CONSTANTS
  Iterations  = 5
  Stride      = 3
  MaxPreempts = 8
SPECIFICATION FairSpec
INVARIANTS
  SoundKernelPasses
  LossIsReported
PROPERTIES
  DefectsAreFound
CHECK_DEADLOCK FALSE
