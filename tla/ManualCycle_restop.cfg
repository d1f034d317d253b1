\* One user stops a cycle and executes it again on the server.
CONSTANTS
  Slots = {s1}
  Runners = {l1}
  Requests = {q1}
  NumCases = 1
  MaxRuns = 2
  MaxCrashes = 0
  Hazards = {}
SPECIFICATION Spec
PROPERTIES
  FreshRunNotStopped
CHECK_DEADLOCK FALSE
