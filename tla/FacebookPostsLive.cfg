SPECIFICATION FairSpec
CONSTANTS
  Posts = {p1, p2}
  Requests = {q1}
  Schedulers = {s1}
  Media = {}
  NoMedia = NoMedia
  NoWorker = NoWorker
  Lease = 1
  MaxNow = 2
  MaxFaults = 2
PROPERTIES
  PublishingEnds
  DueIsTaken
CHECK_DEADLOCK FALSE
