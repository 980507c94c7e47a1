SPECIFICATION Spec
CONSTANTS
  Runs = {r1, r2}
  Takers = {t1}
  Messages = {m1}
  AgentRequests = {}
  Replies = {"answer"}
  NoActor = NoActor
  PauseLength = 1
  MaxNow = 0
  MaxEdits = 1
  Mortal = {r1, r2, t1}
  DbFaults = TRUE
SYMMETRY SymRuns
INVARIANTS
  AtMostOneSend
  SendLockExcludes
  VerdictIsTrue
PROPERTIES
  NoSendAfterVerdict
  ClaimIsFinal
  ImplementsContract
CHECK_DEADLOCK FALSE
