\* Two requests at once on the runs of a project that has signed off one cycle.
CONSTANTS
  Request = {q1, q2}
  MaxRuns = 3
  PastCycles = 1
  MaxAttempts = 2
  MaxMishaps = 1
SPECIFICATION Spec
INVARIANTS ActiveBounded OnlyDeadHandlersStrand
PROPERTIES DataPickedForRun StartedRunReviewed
\* All runs may be over and the bound on runs spent.
CHECK_DEADLOCK FALSE
SYMMETRY Hands
CONSTRAINT OverlapBound
