SPECIFICATION Spec
CONSTANTS
  Procs = {a}
  Logins = {q1}
  Nothing = Nothing
  MaxRestores = 1
  MaxLosses = 1
  MaxCrashes = 1
  MaxFaults = 2
INVARIANTS
  TypeOK
  CancelledIsSilent
  ListenerIsReachable
CHECK_DEADLOCK FALSE
