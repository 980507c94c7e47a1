SPECIFICATION Spec
CONSTANTS
  Procs = {a, b}
  Logins = {q1, q2}
  Nothing = Nothing
  MaxRestores = 1
  MaxLosses = 0
  MaxCrashes = 1
  MaxFaults = 0
INVARIANTS
  OwnerIsExclusive
  LogoutVoidsLogins
CONSTRAINT NoSlip
SYMMETRY Symmetry
CHECK_DEADLOCK FALSE
