\* A patient user, contested gates, a cancel, and everything at once.
CONSTANTS
  Exec = {"e1"}
  Worker = {"w1", "w2"}
  Request = {"r1"}
  NoExec = "none"
  LastReleased = 3
  LastGate = 9
  MaxAttempts = 2
  MaxQueued = 1
  MaxCrashes = 0
  Hazards = {"fault", "cancel", "edit"}
SPECIFICATION SettlesSpec
INVARIANTS
  OneDriver
  NoLeftoverContinue
  PassedOnAnswer
  CompletedIsSignedOff
  ExecutedCasesApproved
  StageNotBehind
PROPERTIES
  ImplementsApprovalLedger
  RunReachesGateOrEnd
  CancelFreesItsSlot
  EverySlotFreed
\* The run is over: no slot, job or request is left.
CHECK_DEADLOCK FALSE
