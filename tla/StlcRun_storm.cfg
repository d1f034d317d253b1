\* Two slots, two overlapping requests, a crash, cancels, lost time and a user who clicks early.
\* Two released gates and two held ones.
CONSTANTS
  Exec = {e1}
  Worker = {w1, w2}
  Request = {r1, r2}
  NoExec = none
  LastReleased = 2
  LastGate = 4
  MaxAttempts = 1
  MaxQueued = 1
  MaxCrashes = 1
  Hazards = {"fault", "edge", "timer", "cancel", "slow", "impatient", "overlap", "edit"}
SPECIFICATION Spec
SYMMETRY Symmetry
VIEW ControlView
CONSTRAINT OverlapBound
INVARIANTS
  ReleasedGatesInOrder
PROPERTIES
  ImplementsReleasedLedger
\* The run is over: no slot, job or request is left.
CHECK_DEADLOCK FALSE
