SPECIFICATION GestureSpec
CONSTANTS
  Top = 2
  Floor = 1
  Ceil = 2
  MaxAmp = 1
  RevFrames = 2
  Rest = 2
  Idle = 2
  LegMin = 1
  LegMax = 3
  GestureSpan = 11
  MovedAfter = 1
  Window = 16
CHECK_DEADLOCK FALSE
INVARIANTS GestureIsFourLegs GestureIsUnbroken
