SPECIFICATION Spec
CONSTANTS
  Minutes <- MCMinutes
  MaxRequests = 1
  NodsNeeded = 2
  MayLeave = TRUE
INVARIANT RiderNamedAtEveryNod
