SPECIFICATION FairSpec
CONSTANTS
  Minutes <- MCMinutes
  MaxRequests = 2
  NodsNeeded = 2
  MayLeave = TRUE
INVARIANTS TypeOK OnlyAtTheNodCard RiderIsOnTheCard GrantNeedsSudo CardComesDown
PROPERTY RequestEnds
