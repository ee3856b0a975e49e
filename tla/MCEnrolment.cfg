SPECIFICATION LiveSpec
CONSTANTS
  Users = {"ann"}
  Window = {w1}
  Sessions = 2
  Words = 1
INVARIANTS SessionsKeepApart RecognisedBeforeDone
PROPERTY SessionEnds
CHECK_DEADLOCK FALSE
