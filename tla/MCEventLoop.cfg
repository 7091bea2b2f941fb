CONSTANTS
  u1 = u1
  u2 = u2
  loop = loop
  Users <- TwoUsers
  Owner = u1
  Loop = loop
  CloseFrom <- Anywhere
  Bulk = 2
  MaxCalls = 3
SPECIFICATION Spec
INVARIANTS
  DestroyedAfterClose
PROPERTIES
  KeepsPromise
  CloseEndsLoop
  
  CloseFromTaskTerminates
CHECK_DEADLOCK FALSE
