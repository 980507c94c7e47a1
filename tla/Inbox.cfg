CONSTANTS
  Calls = {k1, k2, k3}
  Inbound = {x, y}
  Replies = {r}
  MaxBatch = 2
  MaxConvs = 2
  Updates = {x, y}
  BotCalls = {k1, k2, k3}
  Admins = {x, y}
  NoUpdate = none
  MaxNumber = 2
  Deliveries = {d1, d2}
  Accounts = {p, q}
  NoAccount = none
  Heard = {m}
  Said = {r}
  MaxTalks = 2
  Threads = {x, y}
  NoThread = none
  Letters = {m}
  Posts = {x, y}
  SuggestionMode = "on_open"
  MaxMoves = 3
  MaxPins = 2
  Chats = {x, y}
  NoChat = none
  MaxUsed = 3

SPECIFICATION InboxSpec
SYMMETRY Symmetry
CHECK_DEADLOCK FALSE

INVARIANTS
  InboxIsTrue
PROPERTIES
  ViewIsTrue
