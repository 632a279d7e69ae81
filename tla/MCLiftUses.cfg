CONSTANTS
  LevelPos <- MCLevelPos
  MotorDelay = 2
  Window = 4
  Presses <- MCPresses
  Top = 14
  LoadZone <- MCLoadZone
  Low <- MCLow
  High = 18
  Coast = 2
  Dwell = 2
  MaxTurns = 2
SPECIFICATION FairUseSpec
INVARIANTS
  NeverAtTheEnd
  CountIsPlace
  RunsPass
PROPERTIES
  DirectionHeld
  CommandsEnd
