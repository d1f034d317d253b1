\* A cancel and an answer at the same moment.
CONSTANTS
  LastWait = 2
  MaxPending = 0
  PromptHandlers = TRUE
SPECIFICATION Spec
PROPERTIES
  CancelWins
\* The run is over: closed, stopped or failed.
CHECK_DEADLOCK FALSE
