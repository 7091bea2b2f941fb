CONSTANTS
  u1 = u1
  loop = loop
  boss = boss
  Users <- OneUser
  Loop = loop
  Boss = boss
  Calls <- Sending
  Cap = 1
  SendSizes <- JustOne
  MaxCalls = 2
  MaxInbox = 0
SPECIFICATION Spec
INVARIANT ClosedOnlyIfAsked
CHECK_DEADLOCK FALSE
