SPECIFICATION Spec
CONSTANTS
  Posts = {p1}
  Requests = {q1, q2}
  Schedulers = {s1, s2}
  Media = {i1, i2, i3}
  NoMedia = NoMedia
  NoWorker = NoWorker
  Lease = 1
  MaxNow = 2
  MaxFaults = 1
INVARIANTS
  TypeOK
  PublishNeedsConfirmation
  PublishedIsTrue
  MediaIsStored
PROPERTIES
  OutcomeIsRespected
SYMMETRY Sym
CHECK_DEADLOCK FALSE
