SPECIFICATION LoginSpec
CONSTANTS
  Requests = {q1, q2, q3}
  Sessions = {a, b}
  Sockets = {k1}
  SessionTTL = 2
  LinkTTL = 1
  MaxNow = 2
  Visitors = {u, v}
  NoVisitor = none
  Rooms = {u, v}
  NoRoom = none
  Fetches = {1, 2}
  MaxSessions = 2
  MaxTurns = 2
INVARIANTS
  TypeOK
  SessionsAreCurrent
  TokenExchangedOnce
  RevokedSocketsClose
  BrowserIsTrue
PROPERTIES
  RotationIsRespected
SYMMETRY Symmetry
CHECK_DEADLOCK FALSE
