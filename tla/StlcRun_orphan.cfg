\* Nobody continues after login for 30 minutes.
CONSTANTS
  Exec = {e1}
  Worker = {w1}
  Request = {r1}
  NoExec = none
  LastReleased = 3
  LastGate = 9
  MaxAttempts = 1
  MaxQueued = 1
  MaxCrashes = 0
  Hazards = {"timer"}
SPECIFICATION Spec
INVARIANTS
  NoOrphanBrowser
\* The run is over: no slot, job or request is left.
CHECK_DEADLOCK FALSE
