SPECIFICATION Spec
CONSTANTS
  Runs = {r1, r2}
  Takers = {t1}
  Messages = {m1, m2}
  AgentRequests = {m2}
  Replies = {"answer"}
  NoActor = NoActor
  PauseLength = 1
  MaxNow = 1
  MaxEdits = 1
  Mortal = {}
  DbFaults = FALSE
SYMMETRY SymRuns
INVARIANTS
  TypeOK
PROPERTIES
  NoSendAfterTakeover
  PauseOnlyGrows
CHECK_DEADLOCK FALSE
