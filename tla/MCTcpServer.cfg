CONSTANTS
  u1 = u1
  boss = boss
  w1 = w1
  None = None
  c1 = c1
  c2 = c2
  Users <- OneUser
  Boss = boss
  Workers <- BossAndWorker
  Conns <- TwoConns
  MaxFiles = 2
  MaxCloses = 1
SPECIFICATION Spec
INVARIANTS
  OpenIsAlive
  TrackedIsOpen
PROPERTIES
  CloseReturns
  NoAcceptAfterClose
CHECK_DEADLOCK FALSE
