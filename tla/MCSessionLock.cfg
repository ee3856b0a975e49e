SPECIFICATION FairSpec
CONSTANT AwayLooks = 2
PROPERTIES UnlockIsSeen WalkAwayLocks
