CONSTANTS
  Limit = 4
  ExitCodes = {0, 1}
  None = None
SPECIFICATION FairSpec
INVARIANTS
  VerdictAgreesWithLog
  NoOrphan
  TimeoutIsReported
  CrashIsReported
PROPERTIES
  Terminates
CHECK_DEADLOCK FALSE
