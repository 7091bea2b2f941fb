CONSTANTS
  u1 = u1
  loop = loop
  boss = boss
  Users <- OneUser
  Loop = loop
  Boss = boss
  Calls <- All
  Cap = 2
  SendSizes <- JustTwo
  MaxCalls = 3
  MaxInbox = 1
SPECIFICATION Spec
INVARIANTS
  StreamInOrder
  InterestIsRight
  ConnectThenClose
PROPERTIES
  DisconnectedIsFinal
  ShutdownCompletes
  PeerCloseIsNoticed
  DisconnectedIsReported
CHECK_DEADLOCK FALSE
