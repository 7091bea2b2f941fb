CONSTANTS
  u1 = u1
  u2 = u2
  loop = loop
  Users <- OneUser
  Owner = u1
  Loop = loop
  CloseFrom <- FromHandler
  Bulk = 2
  MaxCalls = 2
SPECIFICATION Spec
PROPERTY CloseTerminates
CHECK_DEADLOCK FALSE
