SPECIFICATION Spec
CONSTANTS
  Prepares = {p}
  Commits = {c}
  IdleSecs = 2
  LeaseSecs = 2
  MaxTime = 6
INVARIANT NeverExitsMidLease
CHECK_DEADLOCK FALSE
