CONSTANTS
  u1 = u1
  u2 = u2
  loop = loop
  None = None
  Users <- TwoUsers
  Loop = loop
  Delays <- ShortAndLong
  Intervals <- OnceOrRepeat
  MaxTimers = 2
SPECIFICATION Spec
INVARIANTS
  TimersAreQueued
  AlwaysArmed
  OnceRunsOnce
PROPERTY LiveTimersRun
CHECK_DEADLOCK FALSE
