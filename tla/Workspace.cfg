CONSTANTS
  Pinners = {k1, k2, k3}
  Pinnable = {m1, m2, m3}
  Labels = {t}
  NoPin = none
  PinLimit = 2
  Savers = {k1, k2, k3}
  Fields = {f, g}
  Secrets = {g}
  HistoryLimit = 1
  Helpers = {a1, a2, a3}
  Editors = {k1, k2, k3}
  NoHelper = none
  MaxRetries = 2
  Writers = {k1, k2, k3}
  Shortcuts = {s1, s2}
  NoImage = none
  Users = {u1, u2}
  Channels = {c, d}
  Jobs = {k1, k2, k3}
  NoUser = none
  Keepers = {o1, o2}
  Peers = {q1, q2}
  MaxDocs = 2
  People = {p}
  NoPerson = none
  ChannelIds = {c, d}
  Platforms = {"facebook", "telegram", "zalo_personal"}
  Gets = {1, 2}
  Writes = {1, 2}
  MaxWrites = 3
  Requests = {1, 2}
  MaxAssistants = 2
  MaxAskings = 5
  Greetings = {1, 2}
  QrSlots = {1, 2}
  Loads = {1, 2}
  MaxAttempts = 2
  PageSlots = {1, 2}
  PageLoads = {1, 2}

SPECIFICATION WorkspaceSpec
CHECK_DEADLOCK FALSE

INVARIANTS
  StoresAreConsistent
  DialogsAreTrue

PROPERTIES
  ReplacedAtOnce
