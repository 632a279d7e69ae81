CONSTANTS
  Base  = 3
  MaxHi = 3
SPECIFICATION TimerFairSpec
INVARIANTS
  ReturnedAnInstant
  RetriesBounded
PROPERTIES
  CallReturns
  ImplementsClock
  IntervalMeasures
