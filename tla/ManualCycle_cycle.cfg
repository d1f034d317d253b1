\* One user, an AI executor and one local runner process, which may die, or two.
CONSTANTS
  Slots = {"s1"}
  Runners = {"l1"}
  Requests = {"q1"}
  NumCases = 2
  MaxRuns = 2
  MaxCrashes = 1
  Hazards = {"fault", "timer"}
SPECIFICATION CycleSpec
INVARIANTS
  OneRunnerPerOffer
  PauseHolds
PROPERTIES
  RunnersSpareEnds
  StopEndsExecutor
  RunLeavesQueue
  StopWins
\* A cycle may be left alone for ever.
CHECK_DEADLOCK FALSE
