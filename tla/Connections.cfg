CONSTANTS
  Owners = {x, y}
  Requests = {q1, q2, q3}
  Tokens = {x, y}
  Nobody = nobody
  StateTTL = 1
  ClaimTTL = 1
  MaxNow = 2
  Clients = {x, y}
  NoClient = noClient
  Messages = {m1, m2}
  FromCustomer = {m1}
  MaxHandlers = 2
  Signals = {x, y}
  Attempts = {x, y}
  NoAttempt = noAttempt

SPECIFICATION ConnectionsSpec
SYMMETRY Symmetry
CHECK_DEADLOCK FALSE

INVARIANTS
  PageMatchesMeta
  SelectionUsedOnce
  TakenOnce
  VoidedLoginIsSilent
  StoreStaysClosed
