\* A cancel while the worker is between two writes.
CONSTANTS
  Exec = {e1}
  Worker = {w1}
  Request = {r1}
  NoExec = none
  LastReleased = 3
  LastGate = 9
  MaxAttempts = 1
  MaxQueued = 1
  MaxCrashes = 0
  Hazards = {"cancel"}
SPECIFICATION Spec
PROPERTIES
  CancelledIsFinal
\* The run is over: no slot, job or request is left.
CHECK_DEADLOCK FALSE
