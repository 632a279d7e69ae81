CONSTANTS
  Second = 6
  Milli  = 2
  Frame  = 1
  Wrap   = 21
  Radix <- MCRadix
  Boots  = {0, 9, 15}
  MaxLag = 2
  MaxNow = 48
SPECIFICATION TestFairSpec
INVARIANTS
  RtcTypeOK
  LinesOnTime
  DateNeverBehind
  TornOnlyByRollover
PROPERTIES
  SecondsPrinted
  FramesPaced
