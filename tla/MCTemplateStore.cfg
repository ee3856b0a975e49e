SPECIFICATION Spec
CONSTANTS
  Sets = 2
  Uids = {u1, u2}
  NoUid = NoUid
SYMMETRY Owners
INVARIANTS AckedSurvives SealingSticks
CHECK_DEADLOCK FALSE
