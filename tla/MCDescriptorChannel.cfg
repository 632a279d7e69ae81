CONSTANTS
  Slots  = 3
  Rounds = 3
  Runs  <- MCRuns
SPECIFICATION FairSpec
PROPERTIES
  NoStaleDescriptor
  LastDescriptorIsWhole
  AllDoorbellsArrive
  ImplementsDelivery
CHECK_DEADLOCK FALSE
