CONSTANTS
  u1 = u1
  u2 = u2
  loop = loop
  None = None
  Users <- OneUser
  Loop = loop
  Delays <- Growing
  Intervals <- Once
  MaxTimers = 2
SPECIFICATION Spec
PROPERTY NeverPostponed
CHECK_DEADLOCK FALSE
