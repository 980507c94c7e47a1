SPECIFICATION FairSpec
CONSTANTS
  Runs = {r1, r2}
  Takers = {t1}
  Messages = {m1, m2}
  AgentRequests = {m2}
  Replies = {"answer"}
  NoActor = NoActor
  PauseLength = 1
  MaxNow = 0
  MaxEdits = 0
  Mortal = {r1}
  DbFaults = FALSE
PROPERTIES
  LockIsReleased
  ClaimIsDecided
  TakeoverReturns
CHECK_DEADLOCK FALSE
