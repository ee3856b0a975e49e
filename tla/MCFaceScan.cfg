SPECIFICATION Spec
CONSTANTS
  Span = 8
  Masks <- MCMasks
  Required = 2
  LivenessRequired = FALSE
INVARIANTS EachMatchUnderItsOwnMask LightFollowsTheStage
