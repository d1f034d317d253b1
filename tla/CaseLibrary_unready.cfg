\* Violated: a case goes into a cycle as READY, is edited back to DRAFT, and is executed.
CONSTANTS
  Editor = {u1}
  Grounder = {}
  Urls = {"a"}
  MaxText = 2
SPECIFICATION CaseSpec
INVARIANTS
  OnlyReadyRun
CHECK_DEADLOCK FALSE
