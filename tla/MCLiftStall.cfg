CONSTANTS
  LevelPos <- ShortLevelPos
  MotorDelay = 2
  Window = 4
  Presses <- MCPresses
  Top = 8
  LoadZone <- ShortLoadZone
  Low <- MCLow
  High = 12
  Coast = 2
  Dwell = 2
  MaxTurns = 1
SPECIFICATION FairSpec
PROPERTIES
  EveryCommandEnds
