CONSTANTS
  u1 = u1
  u2 = u2
  loop = loop
  Users <- TwoUsers
  Loop = loop
SPECIFICATION Spec
INVARIANTS
  ConnectingHasAttempt
  LetsGo
PROPERTIES
  NeverBack
  MissedOnlyWhileAssigning
  ForceCloseEnds
CHECK_DEADLOCK FALSE
