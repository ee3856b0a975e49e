SPECIFICATION FairSpec
CONSTANTS
  a1 = a1
  a2 = a2
  a3 = a3
  b1 = b1
  alice = alice
  bob = bob
  NoRequest = NoRequest
  Request <- MCRequest
  User <- MCUser
  UserOf <- MCUserOf
  MaxConnections = 2
  ConsentPerUid = 2
INVARIANTS TypeOK QueueIsSound WithinBounds
PROPERTIES NoOvertaking ImplementsWindow MovesOn HangUpLeavesQueue
CHECK_DEADLOCK FALSE
