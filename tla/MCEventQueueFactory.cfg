CONSTANTS
  a1 = a1
  a2 = a2
  loop = loop
  None = None
  Adders <- MCAdders
  Loop = loop
  BatchMax = 2
  MaxTasks = 2
SPECIFICATION AnyQueue
INVARIANTS
  SizeAccounting
  NoLostWakeup
  NoLostWakeupUnderMutex
PROPERTIES
  Implements
  ImplementsUnderMutex
CHECK_DEADLOCK FALSE
