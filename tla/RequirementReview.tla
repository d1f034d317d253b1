-------------------------- MODULE RequirementReview --------------------------
(***************************************************************************)
(* The requirements of one project before the first STLC run: extraction,  *)
(* the review of all or of one requirement, answers, manual edits, the     *)
(* Jira import, and the approval or rejection of the whole set.            *)
(*                                                                         *)
(* Every operation is a sequence of queries without a transaction, so two  *)
(* requests interleave between any two of the steps below.  What an        *)
(* analysis finds is a free choice; what is kept of a requirement is       *)
(* whether it has been analysed, with which outcome, and whether that was  *)
(* an analysis of the text it has now.                                     *)
(***************************************************************************)
EXTENDS Integers, FiniteSets

CONSTANTS
  Req,             \* requirement keys, numbered from 1
  Client,          \* API requests that may be in flight at once
  MaxRestarts,     \* bound: deaths of the API process
  ReviewHazards    \* "jira": imports; "shared": reviews of other projects; "throw": a query or the LLM fails;
                   \* "outage": the query that records a failure fails too

ASSUME ReviewAssumption == Req \subseteq Nat \ {0} /\ IsFiniteSet(Req) /\ MaxRestarts \in Nat

VARIABLES
  listed,          \* keys that have a requirement row
  review,          \* row: none (reviewedAt is null), clear or blocked (reviewStatus)
  fresh,           \* history, row: the review on record saw the text on record
  stale,           \* row: analysisStale
  question,        \* keys with an OPEN blocking question; 0 for one that hangs on no row
  conflict,        \* the pairs of rows with an OPEN conflict
  analysis,        \* project.analysisStatus
  counted,         \* project.staleRequirementCount > 0
  approved,        \* project.requirementsApprovedAt is set
  foreign,         \* the service's per-key maps hold another project's results
  rpc,             \* request: next step
  work,            \* request: what became of each row it has read and not yet analysed
  next,            \* request: keys it has still to read
  mark,            \* request: what markProjectAnalysisStale has read
  crossed,         \* history: requests overlapped since the last review that ran alone began
  rejected,        \* history: rejected, and no review has begun since
  unmarked,        \* history: rows came in by extraction or import since the last review began
  unrecorded,      \* history: a failure could not be recorded
  restarts

text       == <<listed, review, fresh, stale>>
notes      == <<question, conflict>>
projectRow == <<analysis, counted, approved>>
handlers   == <<rpc, work, next, mark>>
past       == <<crossed, rejected, unmarked, unrecorded, restarts>>
reviewVars == <<text, notes, projectRow, foreign, handlers, past>>

Analyses == {"NOT_STARTED", "READY", "RUNNING", "COMPLETED", "STALE", "FAILED"}
Reviewing == {"start", "clear", "load", "analyse", "conflicts", "unstale", "complete", "report", "fail"}
Steps == Reviewing \union {"idle", "read", "analyseOne", "conflictsOne", "ready", "markRead", "markWrite", "ask", "approve"}

NoWork == [k \in Req |-> "none"]
Pairs(ks) == {p \in SUBSET ks : Cardinality(p) = 2}

ReviewType ==
  /\ listed \subseteq Req
  /\ review \in [Req -> {"none", "clear", "blocked"}]
  /\ fresh \subseteq {k \in listed : review[k] # "none"}
  /\ stale \subseteq listed
  /\ question \subseteq listed \union {0}
  /\ conflict \subseteq Pairs(listed)
  /\ analysis \in Analyses
  /\ counted \in BOOLEAN /\ approved \in BOOLEAN /\ foreign \in BOOLEAN
  /\ rpc \in [Client -> Steps]
  /\ work \in [Client -> [Req -> {"none", "same", "edited", "gone"}]]
  /\ next \in [Client -> SUBSET Req]
  /\ mark \in [Client -> {"leave", "withdraw", "count", "none"}]
  /\ crossed \in BOOLEAN /\ rejected \in BOOLEAN /\ unmarked \in BOOLEAN /\ unrecorded \in BOOLEAN
  /\ restarts \in 0..MaxRestarts

ReviewInit ==
  /\ listed = {}
  /\ review = [k \in Req |-> "none"]
  /\ fresh = {} /\ stale = {}
  /\ question = {} /\ conflict = {}
  /\ analysis = "NOT_STARTED"
  /\ counted = FALSE /\ approved = FALSE /\ foreign = FALSE
  /\ rpc = [q \in Client |-> "idle"]
  /\ work = [q \in Client |-> NoWork]
  /\ next = [q \in Client |-> {}]
  /\ mark = [q \in Client |-> "leave"]
  /\ crossed = FALSE /\ rejected = FALSE /\ unmarked = FALSE /\ unrecorded = FALSE
  /\ restarts = 0

--------------------------------------------------------------------------------
AtRest     == \A q \in DOMAIN rpc : rpc[q] = "idle"
Step(q, p) == rpc' = [rpc EXCEPT ![q] = p]

\* A request begins; whether another is under way is remembered.
Enters(q) == rpc[q] = "idle" /\ crossed' = (crossed \/ ~AtRest)

\* The first key in the order of the queries.
First(ks) == CHOOSE k \in ks : \A j \in ks : k <= j

\* Every request that has read one of these rows has now read something else.
Overtake(ks, what) ==
  work' = [q \in Client |-> [k \in Req |->
             IF k \in ks /\ work[q][k] \in {"same", "edited"} THEN what ELSE work[q][k]]]

\* The rows ks go, with their questions and conflicts; the review of their keys starts over.
Remove(ks) ==
  /\ review' = [k \in Req |-> IF k \in ks THEN "none" ELSE review[k]]
  /\ fresh' = fresh \ ks
  /\ stale' = stale \ ks
  /\ question' = question \ ks
  /\ conflict' = {p \in conflict : p \intersect ks = {}}
  /\ Overtake(ks, "gone")

--------------------------------------------------------------------------------
(* reviewAll.                                                                 *)

\* Refused while one is running, and without requirements.
ReviewBegin(q) ==
  /\ Enters(q)
  /\ analysis # "RUNNING" /\ listed # {}
  /\ Step(q, "start")
  /\ UNCHANGED <<text, notes, projectRow, foreign, work, next, mark, rejected, unmarked, unrecorded, restarts>>

\* A fresh analysis withdraws the approvals.
ReviewStart(q) ==
  /\ rpc[q] = "start"
  /\ analysis' = "RUNNING"
  /\ approved' = FALSE
  /\ crossed' = (\E p \in Client \ {q} : rpc[p] # "idle")
  /\ rejected' = FALSE
  /\ unmarked' = FALSE
  /\ Step(q, "clear")
  /\ UNCHANGED <<text, notes, counted, foreign, work, next, mark, unrecorded, restarts>>

\* The OPEN questions and conflicts go.
ReviewClear(q) ==
  /\ rpc[q] = "clear"
  /\ question' = {} /\ conflict' = {}
  /\ Step(q, "load")
  /\ UNCHANGED <<text, projectRow, foreign, work, next, mark, past>>

\* The LLM has filled the service's maps; the rows are read again.
ReviewLoad(q) ==
  /\ rpc[q] = "load"
  /\ foreign' = FALSE
  /\ work' = [work EXCEPT ![q] = [k \in Req |-> IF k \in listed THEN "same" ELSE "none"]]
  /\ Step(q, "analyse")
  /\ UNCHANGED <<text, notes, projectRow, next, mark, past>>

Unread(q) == {k \in Req : work[q][k] # "none"}

\* analyzeAndPersist: the row is updated by id (an update of a row that is gone throws), then its questions are created.
Persist(q, k, outcome, asks) ==
  /\ work[q][k] \in {"same", "edited"}
  /\ outcome = "blocked" => asks
  /\ review' = [review EXCEPT ![k] = outcome]
  /\ fresh' = IF work[q][k] = "same" THEN fresh \union {k} ELSE fresh \ {k}
  /\ stale' = stale \ {k}
  /\ question' = IF asks THEN question \union {k} ELSE question
  /\ work' = [work EXCEPT ![q][k] = "none"]

Analyse(q) ==
  /\ rpc[q] = "analyse" /\ Unread(q) # {}
  /\ \E outcome \in {"clear", "blocked"}, asks \in BOOLEAN : Persist(q, First(Unread(q)), outcome, asks)
  /\ UNCHANGED <<listed, conflict, projectRow, foreign, rpc, next, mark, past>>

AllAnalysed(q) ==
  /\ rpc[q] = "analyse" /\ Unread(q) = {}
  /\ Step(q, "conflicts")
  /\ UNCHANGED <<text, notes, projectRow, foreign, work, next, mark, past>>

\* detectConflicts: a conflict that is not open yet blocks the rows of its pair; its question, on
\* the first of the two, is asked unless it was answered before.
FindConflicts(found, asks) ==
  LET new == found \ conflict
  IN  /\ conflict' = conflict \union new
      /\ review' = [k \in Req |-> IF k \in UNION new THEN "blocked" ELSE review[k]]
      /\ question' = question \union {First(p) : p \in asks \intersect new}

DetectConflicts(q) ==
  /\ rpc[q] \in {"conflicts", "conflictsOne"}
  /\ \E found \in SUBSET Pairs(listed) : \E asks \in SUBSET found : FindConflicts(found, asks)
  /\ Step(q, IF rpc[q] = "conflicts" THEN "unstale" ELSE "idle")
  /\ UNCHANGED <<listed, fresh, stale, projectRow, foreign, work, next, mark, past>>

Unstale(q) ==
  /\ rpc[q] = "unstale"
  /\ stale' = {}
  /\ Step(q, "complete")
  /\ UNCHANGED <<listed, review, fresh, notes, projectRow, foreign, work, next, mark, past>>

ReviewComplete(q) ==
  /\ rpc[q] = "complete"
  /\ analysis' = "COMPLETED"
  /\ counted' = FALSE
  /\ Step(q, "report")
  /\ UNCHANGED <<text, notes, approved, foreign, work, next, mark, past>>

\* The audit line, the summary and the phase document, still inside the try.
ReviewReport(q) ==
  /\ rpc[q] = "report"
  /\ Step(q, "idle")
  /\ UNCHANGED <<text, notes, projectRow, foreign, work, next, mark, past>>

\* A query or the LLM throws, or the row to update is gone.
ReviewThrows(q) ==
  /\ \/ "throw" \in ReviewHazards /\ rpc[q] \in {"clear", "load", "analyse", "conflicts", "unstale", "complete", "report"}
     \/ rpc[q] = "analyse" /\ \E k \in Req : work[q][k] = "gone"
  /\ work' = [work EXCEPT ![q] = NoWork]
  /\ Step(q, "fail")
  /\ UNCHANGED <<text, notes, projectRow, foreign, next, mark, past>>

StayRunning(q) ==   \* Slip: the error is passed on and not recorded
  /\ rpc[q] = "fail"
  /\ Step(q, "idle")
  /\ UNCHANGED <<text, notes, projectRow, foreign, work, next, mark, past>>

RecordFailure(q) ==
  /\ rpc[q] = "fail"
  /\ analysis' = "FAILED"
  /\ Step(q, "idle")
  /\ UNCHANGED <<text, notes, counted, approved, foreign, work, next, mark, past>>

\* The update of the catch block throws.
FailUnrecorded(q) ==
  /\ "outage" \in ReviewHazards
  /\ rpc[q] = "fail"
  /\ unrecorded' = TRUE
  /\ Step(q, "idle")
  /\ UNCHANGED <<text, notes, projectRow, foreign, work, next, mark, crossed, rejected, unmarked, restarts>>

--------------------------------------------------------------------------------
(* reviewOne and answerQuestion: some rows are read and analysed one by one.  *)

ReviewSome(q, ks) ==
  /\ Enters(q)
  /\ next' = [next EXCEPT ![q] = ks]
  /\ Step(q, "read")
  /\ UNCHANGED <<text, projectRow, foreign, work, mark, rejected, unmarked, unrecorded, restarts>>

reviewOne(q, k) ==
  /\ k \in listed
  /\ ReviewSome(q, {k})
  /\ UNCHANGED notes

\* The answer is stored; the requirement and those related to it are analysed anew.
answerQuestion(q, k, related) ==
  /\ k \in question \ {0}
  /\ question' = question \ {k}
  /\ ReviewSome(q, {k} \union related)
  /\ UNCHANGED conflict

\* The OPEN questions of the row are deleted and the row is read; a row that is gone is skipped.
ReadOne(q) ==
  LET k == First(next[q])
  IN  /\ rpc[q] = "read" /\ next[q] # {}
      /\ next' = [next EXCEPT ![q] = @ \ {k}]
      /\ IF k \in listed
           THEN /\ question' = question \ {k}
                /\ work' = [work EXCEPT ![q][k] = "same"]
                /\ Step(q, "analyseOne")
           ELSE UNCHANGED <<question, work, rpc>>
      /\ UNCHANGED <<text, conflict, projectRow, foreign, mark, past>>

AnalyseOne(q) ==
  /\ rpc[q] = "analyseOne"
  /\ \E k \in Unread(q), outcome \in {"clear", "blocked"}, asks \in BOOLEAN : Persist(q, k, outcome, asks)
  /\ Step(q, IF next[q] = {} THEN "conflictsOne" ELSE "read")
  /\ UNCHANGED <<listed, conflict, projectRow, foreign, next, mark, past>>

\* The rest of the rows is left as it is; nothing is recorded on the project.
AbandonOne(q) ==
  /\ \/ "throw" \in ReviewHazards /\ rpc[q] \in {"read", "analyseOne", "conflictsOne"}
     \/ rpc[q] = "analyseOne" /\ \E k \in Req : work[q][k] = "gone"
     \/ rpc[q] = "read" /\ next[q] = {}
  /\ work' = [work EXCEPT ![q] = NoWork]
  /\ next' = [next EXCEPT ![q] = {}]
  /\ Step(q, "idle")
  /\ UNCHANGED <<text, notes, projectRow, foreign, mark, past>>

--------------------------------------------------------------------------------
(* Extraction and manual edits.                                               *)

\* One transaction replaces every row (the questions and conflicts of the old ones cascade) ...
ExtractReplace(q, ks) ==
  /\ Enters(q)
  /\ ks # {}
  /\ listed' = ks
  /\ review' = [k \in Req |-> "none"]
  /\ fresh' = {} /\ stale' = {}
  /\ question' = question \intersect {0}
  /\ conflict' = {}
  /\ Overtake(Req, "gone")
  /\ unmarked' = TRUE
  /\ Step(q, "ready")
  /\ UNCHANGED <<projectRow, foreign, next, mark, rejected, unrecorded, restarts>>

\* ... and the project follows; the approvals stay.
ExtractReady(q) ==
  /\ rpc[q] = "ready"
  /\ analysis' = "READY"
  /\ counted' = FALSE
  /\ Step(q, "idle")
  /\ UNCHANGED <<text, notes, approved, foreign, work, next, mark, past>>

createManual(q, k) ==
  /\ Enters(q)
  /\ k \notin listed
  /\ listed' = listed \union {k}
  /\ Step(q, "markRead")
  /\ UNCHANGED <<review, fresh, stale, notes, projectRow, foreign, work, next, mark, rejected, unmarked, unrecorded, restarts>>

\* A row that has not been analysed is updated without a mark.
updateManual(q, k) ==
  /\ Enters(q)
  /\ k \in listed
  /\ fresh' = fresh \ {k}
  /\ Overtake({k}, "edited")
  /\ IF review[k] = "none"
       THEN UNCHANGED <<stale, rpc>>
       ELSE stale' = stale \union {k} /\ Step(q, "markRead")
  /\ UNCHANGED <<listed, review, notes, projectRow, foreign, next, mark, rejected, unmarked, unrecorded, restarts>>

deleteManual(q, k) ==
  /\ Enters(q)
  /\ k \in listed
  /\ listed' = listed \ {k}
  /\ Remove({k})
  /\ Step(q, "markRead")
  /\ UNCHANGED <<projectRow, foreign, next, mark, rejected, unmarked, unrecorded, restarts>>

\* markProjectAnalysisStale reads the count and the status ...
MarkRead(q) ==
  /\ rpc[q] = "markRead"
  /\ mark' = [mark EXCEPT ![q] =
       CASE analysis \in {"COMPLETED", "STALE", "FAILED"} -> "withdraw"
         [] analysis = "NOT_STARTED" -> "leave"
         [] OTHER -> IF stale # {} THEN "count" ELSE "none"]
  /\ Step(q, "markWrite")
  /\ UNCHANGED <<text, notes, projectRow, foreign, work, next, past>>

\* Slip: the edit leaves the approval.
CountOnly(q) ==
  /\ rpc[q] = "markWrite"
  /\ counted' = IF mark[q] = "leave" THEN counted ELSE mark[q] # "none"
  /\ analysis' = IF mark[q] = "withdraw" THEN "STALE" ELSE analysis
  /\ mark' = [mark EXCEPT ![q] = "leave"]
  /\ Step(q, "idle")
  /\ UNCHANGED <<text, notes, approved, foreign, work, next, past>>

\* ... and writes by what it read.
MarkWrite(q) ==
  /\ rpc[q] = "markWrite"
  /\ counted' = IF mark[q] = "leave" THEN counted ELSE mark[q] # "none"
  /\ analysis' = IF mark[q] = "withdraw" THEN "STALE" ELSE analysis
  /\ approved' = (approved /\ mark[q] # "withdraw")
  /\ mark' = [mark EXCEPT ![q] = "leave"]
  /\ Step(q, "idle")
  /\ UNCHANGED <<text, notes, foreign, work, next, past>>

clearAll(q) ==
  /\ Enters(q)
  /\ listed # {}
  /\ listed' = {}
  /\ review' = [k \in Req |-> "none"]
  /\ fresh' = {} /\ stale' = {} /\ question' = {} /\ conflict' = {}
  /\ Overtake(Req, "gone")
  /\ analysis' = "NOT_STARTED"
  /\ counted' = FALSE /\ approved' = FALSE
  /\ rejected' = FALSE
  /\ UNCHANGED <<foreign, rpc, next, mark, unmarked, unrecorded, restarts>>

\* An issue that is known is updated and flagged, a new one is added; the project is not touched.
jiraImport(q, k) ==
  /\ "jira" \in ReviewHazards
  /\ Enters(q)
  /\ listed' = listed \union {k}
  /\ stale' = IF k \in listed THEN stale \union {k} ELSE stale
  /\ fresh' = fresh \ {k}
  /\ Overtake({k}, "edited")
  /\ unmarked' = TRUE
  /\ UNCHANGED <<review, notes, projectRow, foreign, rpc, next, mark, rejected, unrecorded, restarts>>

--------------------------------------------------------------------------------
(* Approval and rejection.                                                    *)

CountedOnly ==   \* Slip: only the project's count is looked at, not its analysis
  /\ listed # {}
  /\ ~counted /\ stale = {}
  /\ \A k \in listed : review[k] # "blocked"
  /\ question = {} /\ conflict = {}

canApprove ==
  /\ analysis = "COMPLETED" /\ listed # {}
  /\ ~counted /\ stale = {}
  /\ \A k \in listed : review[k] # "blocked"
  /\ question = {} /\ conflict = {}

ApproveRead(q) ==
  /\ Enters(q)
  /\ canApprove
  /\ Step(q, "approve")
  /\ UNCHANGED <<text, notes, projectRow, foreign, work, next, mark, rejected, unmarked, unrecorded, restarts>>

ApproveWrite(q) ==
  /\ rpc[q] = "approve"
  /\ approved' = TRUE
  /\ Step(q, "idle")
  /\ UNCHANGED <<text, notes, analysis, counted, foreign, work, next, mark, past>>

RejectQuietly(q) ==   \* Slip: the question is thought to be enough
  /\ Enters(q)
  /\ approved' = FALSE
  /\ rejected' = TRUE
  /\ Step(q, "ask")
  /\ UNCHANGED <<text, notes, analysis, counted, foreign, work, next, mark, unmarked, unrecorded, restarts>>

Reject(q) ==
  /\ Enters(q)
  /\ analysis' = "STALE"
  /\ counted' = TRUE
  /\ approved' = FALSE
  /\ rejected' = TRUE
  /\ Step(q, "ask")
  /\ UNCHANGED <<text, notes, foreign, work, next, mark, unmarked, unrecorded, restarts>>

\* A HIGH blocking question on the first requirement.
RejectAsk(q) ==
  /\ rpc[q] = "ask"
  /\ question' = question \union {IF listed = {} THEN 0 ELSE First(listed)}
  /\ Step(q, "idle")
  /\ UNCHANGED <<text, conflict, projectRow, foreign, work, next, mark, past>>

--------------------------------------------------------------------------------
\* Another project is reviewed: the maps of the one service object are replaced.
ReviewElsewhere ==
  /\ "shared" \in ReviewHazards
  /\ ~foreign
  /\ foreign' = TRUE
  /\ UNCHANGED <<text, notes, projectRow, handlers, past>>

\* The API process dies with all its requests; the maps are empty again.
Restart ==
  /\ restarts < MaxRestarts
  /\ restarts' = restarts + 1
  /\ rpc' = [q \in Client |-> "idle"]
  /\ work' = [q \in Client |-> NoWork]
  /\ next' = [q \in Client |-> {}]
  /\ mark' = [q \in Client |-> "leave"]
  /\ foreign' = FALSE
  /\ crossed' = (crossed \/ ~AtRest)
  /\ UNCHANGED <<text, notes, projectRow, rejected, unmarked, unrecorded>>

ReviewStep(q) ==
  \/ ReviewStart(q) \/ ReviewClear(q) \/ ReviewLoad(q) \/ Analyse(q) \/ AllAnalysed(q)
  \/ DetectConflicts(q) \/ Unstale(q) \/ ReviewComplete(q) \/ ReviewReport(q)
  \/ ReviewThrows(q) \/ RecordFailure(q) \/ FailUnrecorded(q)

SomeStep(q) ==
  \/ ReadOne(q) \/ AnalyseOne(q) \/ AbandonOne(q)
  \/ ExtractReady(q) \/ MarkRead(q) \/ MarkWrite(q) \/ ApproveWrite(q) \/ RejectAsk(q)

RequestComes(q) ==
  \/ ReviewBegin(q) \/ clearAll(q) \/ ApproveRead(q) \/ Reject(q)
  \/ \E k \in Req :
       \/ reviewOne(q, k) \/ createManual(q, k) \/ updateManual(q, k) \/ deleteManual(q, k)
       \/ jiraImport(q, k)
       \/ \E related \in SUBSET (listed \ {k}) : answerQuestion(q, k, related)
  \/ \E ks \in SUBSET Req : ExtractReplace(q, ks)

ReviewNext ==
  \/ \E q \in Client : RequestComes(q) \/ ReviewStep(q) \/ SomeStep(q)
  \/ ReviewElsewhere \/ Restart

ReviewSpec == ReviewInit /\ [][ReviewNext]_reviewVars

--------------------------------------------------------------------------------
(* Properties.                                                                *)

Approves == approved' /\ ~approved

Persists(q) ==
  /\ rpc'[q] \notin {"idle", "fail"}
  /\ \E k \in Req : work[q][k] # "none" /\ work'[q][k] = "none"

\* Requirements are approved only when every one of them was analysed with the text it has,
\* and no blocking question and no conflict is open, in whatever order they were extracted,
\* edited, deleted, answered, rejected and reviewed: unless requests overlapped since the last
\* review, or rows were imported, which marks nothing on the project.
ApprovedAsAnalysed ==
  [][Approves /\ ~crossed /\ ~unmarked => fresh = listed /\ question = {} /\ conflict = {}]_reviewVars

\* An approval never outlives the text it was given for, while no requests overlap: an edit or
\* a deletion withdraws it.  Extraction and import do not.
ApprovalCoversText ==
  approved /\ AtRest /\ ~crossed /\ ~unmarked => fresh = listed

\* After a rejection there is no approval before a new analysis, also when the rejected rows
\* were replaced, answered or reviewed one by one in between.
RejectionNeedsAnalysis == [][Approves /\ ~crossed => ~rejected]_reviewVars

\* A running analysis ends, completed or failed, also when rows vanish under it; only a death
\* of the process, or a failure that could not be recorded, leaves the project RUNNING, which
\* refuses every later analysis.
ReviewSettles == analysis = "RUNNING" ~> analysis # "RUNNING" \/ unrecorded \/ restarts > 0

\* "Per-run structured semantics (LLM + heuristic), keyed by requirementKey"
\* (requirement-review.service.ts:72): an analysis uses what was extracted from its own project.
ReviewsOwnRequirement == [][(\E q \in Client : Persists(q)) => ~foreign]_reviewVars
=============================================================================
