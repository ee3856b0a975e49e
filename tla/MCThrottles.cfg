SPECIFICATION ThrottleSpec
CONSTANTS
  Failures = 3
  Window = 3
  Hold = 1
  MaxDoublings = 2
  Quiet = 7
  Backoff = 1
  MaxLevel = 2
  BackoffQuiet = 5
  LongestCheck = 2
  None = None
PROPERTIES ImplementsFailureHold EveryCheckCounts NoIsStoodBy
