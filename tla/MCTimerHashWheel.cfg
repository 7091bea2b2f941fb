CONSTANTS
  u1 = u1
  loop = loop
  None = None
  Once = Once
  Users <- OneUser
  Loop = loop
  Delays <- ShortAndLong
  Intervals <- SomeIntervals
  Buckets = 3
  MaxTimers = 2
  MaxTime = 3
SPECIFICATION Spec
INVARIANTS
  TimersAreQueued
  AlwaysArmed
  NothingOverdueIsLeft
PROPERTIES
  EarlyOnlyOnWrap
  ProcessEnds
CHECK_DEADLOCK FALSE
