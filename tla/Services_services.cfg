\* Each service around the STLC run on a small instance of its own.
CONSTANTS
  LastWait = 3
  MaxPending = 2
  PromptHandlers = TRUE
  Request = {r1, r2, r3}
  Exempt = {}
  Limit = 3
  MaxQuantity = 2
  MaxUsed = 9
  Server = {"s1"}
  Laptop = {}
  Human = {"h1"}
  HealLog = {"i1"}
  LlmApproval = TRUE
  Allow = FALSE
  MustReview = TRUE
  Editor = {"u1"}
  Grounder = {}
  Urls = {"a"}
  MaxText = 2
  Mode = "STLC"
  Slot = {"w1", "w2"}
  Caller = {"q1"}
  MaxClarifyRounds = 2
  MaxAttempts = 1
  MaxJobs = 2
  MaxRows = 4
  MaxDeaths = 0
  ClarifyHazards = {}
  Req = {1}
  Client = {"q1", "q2"}
  MaxRestarts = 0
  ReviewHazards = {}
  Slots = {"w1", "w2"}
  Drafts = {"d1"}
  MaxStalls = 1
  MaxCrashes = 1
  GenHazards = {"fail", "outage", "stall"}
  Sub = {1, 2}
  Delivery = {"h1", "h2"}
  MaxChanges = 3
SPECIFICATION ServicesSpec
INVARIANTS
  ServicesType
  PassedOnAnswer
  NoStaleCommand
  OverrunBounded
  ApprovalCoversText
  ReadyIsOneBatch
  DecisionsKept
  WaitsForAQuestion
  PlanFollowsStripe
  AutoHealsBounded
  ReadyAsMarked
PROPERTIES
  QuarantineHolds
  AnswerEndsWait
  ApprovedAsAnalysed
  RejectionNeedsAnalysis
  ReviewSettles
  GenerateSettles
  AnswerMovesRun
\* A run that is over, a budget that is spent and a subject's bounds all end a behaviour.
CHECK_DEADLOCK FALSE
