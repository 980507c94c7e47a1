SPECIFICATION Spec
CONSTANTS
  Runs = {r1}
  Takers = {t1}
  Messages = {m1}
  AgentRequests = {}
  Replies = {"answer", "fallback"}
  NoActor = NoActor
  PauseLength = 1
  MaxNow = 1
  MaxEdits = 1
  Mortal = {}
  DbFaults = FALSE
PROPERTIES
  FallbackHandsOff
CHECK_DEADLOCK FALSE
