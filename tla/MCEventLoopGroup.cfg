CONSTANTS
  u1 = u1
  N = 2
  Users <- OneUser
  Owner = u1
  NextModulus = 3
  MaxTimers = 3
SPECIFICATION Spec
INVARIANTS
  AliveUntilCancelled
PROPERTIES
  JoinAfterClose
CHECK_DEADLOCK FALSE
