---------------------------- MODULE ProjectCycles ----------------------------
(***************************************************************************)
(* The successive STLC runs of one project: "Start Planning", "Start next  *)
(* cycle", the approvals that live on the project row and therefore        *)
(* outlast the run they were given in, and the withdrawal of approvals     *)
(* when the requirements change.                                           *)
(*                                                                         *)
(* Within a run only what these operations depend on is kept: the three    *)
(* released gates, one state AWAITING_HELD for the held ones, and which    *)
(* design the test case rows of the run come from.  StlcRun has the rest.  *)
(*                                                                         *)
(* approval[g] is 0 when the column is null and otherwise the run at whose *)
(* gate the human was asked, which the code does not record.               *)
(***************************************************************************)
EXTENDS Integers, FiniteSets

CONSTANTS
  Request,         \* API requests that may be in flight at once
  MaxRuns,         \* bound: executions of the project
  PastCycles,      \* cycles the project has signed off before the behaviour begins
  MaxAttempts,     \* BullMQ attempts of a run-execution job
  MaxMishaps       \* bound: handlers that die between two writes, and withdrawals of the approvals, together

ASSUME CyclesAssumption ==
  /\ IsFiniteSet(Request)
  /\ MaxRuns \in Nat \ {0}
  /\ PastCycles \in 0..MaxRuns
  /\ MaxAttempts \in Nat \ {0}
  /\ MaxMishaps \in Nat

VARIABLES
  made,            \* number of executions; run 1 is the oldest
  status,          \* execution.status ("NONE" before the row exists)
  cycle,           \* execution.cycleNumber
  parent,          \* execution.parentExecutionId, 0 for a run made by start
  cases,           \* the run whose design wrote this run's test case rows (0: no rows), and whether all are there
  currentCycle,    \* project.currentCycle
  required,        \* project.requirementsApprovedAt is set
  approval,        \* the project's <gate>ApprovedAt columns
  jobs,            \* runs with a waiting run-execution job
  driving,         \* runs a worker slot is on
  tries,           \* attempts a run's failed jobs have used
  pc, run, seen,   \* API request: step, execution it is about, what it read
  settled,         \* history: the project row was reset for this run
  revived,         \* history: a FAILED run was taken up again by a retry
  crossed,         \* history: a run was active beside another, or came back after a newer one
  lost,            \* history: runs whose handler died and that nobody has resumed since
  mishaps

rows     == <<made, status, cycle, parent, cases>>
project  == <<currentCycle, required, approval>>
worker   == <<jobs, driving, tries>>
requests == <<pc, run, seen>>
history  == <<settled, revived, crossed, lost, mishaps>>
vars == <<rows, project, worker, requests, history>>

Runs     == 1..MaxRuns
Numbers  == 0..MaxRuns
Released == {"DESIGN", "ENV", "DATA"}

Awaiting == [DESIGN |-> "AWAITING_DESIGN", ENV |-> "AWAITING_ENV", DATA |-> "AWAITING_DATA"]
Waiting  == {Awaiting[g] : g \in Released} \union {"AWAITING_HELD"}
Ended    == {"COMPLETED", "FAILED", "CANCELLED"}
Statuses == {"NONE", "QUEUED", "RUNNING"} \union Waiting \union Ended
Pcs      == {"idle", "drop", "resume", "create", "reset", "enqueue",
             "check", "branch", "copy", "copying", "advance"}

NoApproval == [g \in Released |-> 0]
NoCases    == [from |-> 0, whole |-> TRUE]

Snapshots  == [status : Statuses, cycle : Nat, parent : Numbers]
NothingSeen == [status |-> "NONE", cycle |-> 1, parent |-> 0]

RowType ==
  /\ made \in Numbers
  /\ status \in [Runs -> Statuses]
  /\ \A i \in Runs : status[i] = "NONE" <=> i > made
  /\ cycle \in [Runs -> Nat]
  /\ parent \in [Runs -> Numbers]
  /\ cases \in [Runs -> [from : Numbers, whole : BOOLEAN]]

ProjectType == currentCycle \in Nat /\ required \in BOOLEAN /\ approval \in [Released -> Numbers]

WorkerType == jobs \subseteq Runs /\ driving \subseteq Runs /\ tries \in [Runs -> 0..(MaxAttempts - 1)]

RequestType ==
  /\ pc \in [Request -> Pcs]
  /\ run \in [Request -> Numbers]
  /\ seen \in [Request -> Snapshots]
  /\ \A q \in Request : pc[q] \notin {"idle", "create", "check", "branch"} => run[q] \in 1..made

HistoryType ==
  /\ settled \in [Runs -> BOOLEAN]
  /\ revived \in [Runs -> BOOLEAN]
  /\ crossed \in BOOLEAN
  /\ lost \subseteq Runs
  /\ mishaps \in 0..MaxMishaps

TypeOK == RowType /\ ProjectType /\ WorkerType /\ RequestType /\ HistoryType

\* A reviewed project that is at rest after p cycles: each signed off, all with the first one's design.
Rested(p) ==
  /\ made = p
  /\ status = [i \in Runs |-> IF i <= p THEN "COMPLETED" ELSE "NONE"]
  /\ cycle = [i \in Runs |-> IF i <= p THEN i ELSE 0]
  /\ parent = [i \in Runs |-> IF i <= p THEN i - 1 ELSE 0]
  /\ cases = [i \in Runs |-> IF i <= p THEN [from |-> 1, whole |-> TRUE] ELSE NoCases]
  /\ currentCycle = IF p = 0 THEN 1 ELSE p
  /\ approval = IF p = 0 THEN NoApproval ELSE [DESIGN |-> 1, ENV |-> 1, DATA |-> p]
  /\ settled = [i \in Runs |-> i <= p]

Init ==
  /\ Rested(PastCycles)
  /\ required = TRUE
  /\ jobs = {}
  /\ driving = {}
  /\ tries = [i \in Runs |-> 0]
  /\ pc = [q \in Request |-> "idle"]
  /\ run = [q \in Request |-> 0]
  /\ seen = [q \in Request |-> NothingSeen]
  /\ revived = [i \in Runs |-> FALSE]
  /\ crossed = FALSE
  /\ lost = {}
  /\ mishaps = 0

--------------------------------------------------------------------------------
(* What the handlers look up.                                                 *)

Made   == 1..made
Active == {i \in Made : status[i] \notin Ended}

\* Prefer a run that waits for a human, then a running one, then a queued one; then the newest.
Rank(i) == CASE status[i] \in Waiting -> 4 [] status[i] = "RUNNING" -> 3 [] OTHER -> 1

FoundActive(i) ==
  \A j \in Active \ {i} : Rank(i) > Rank(j) \/ (Rank(i) = Rank(j) /\ i > j)

\* The run with the highest cycle number, the newest of them.
LatestCycle(i) ==
  \A j \in Made \ {i} : cycle[i] > cycle[j] \/ (cycle[i] = cycle[j] /\ i > j)

PlanKept == [approval EXCEPT !["DATA"] = 0]   \* Slip: a new start keeps the design approval

\* A new start, a new analysis, a rejection and an edit clear every approval but the environment's.
Withdrawn ==
  [g \in Released |-> IF g = "ENV" THEN approval[g] ELSE 0]

DataReused == approval   \* Slip: the next cycle keeps the data approval

NextCycleApprovals ==
  [approval EXCEPT !["DATA"] = 0]

Goto(q, p) == pc' = [pc EXCEPT ![q] = p]

\* The handler is over and forgets what it knew.
Done(q) ==
  /\ pc' = [pc EXCEPT ![q] = "idle"]
  /\ run' = [run EXCEPT ![q] = 0]
  /\ seen' = [seen EXCEPT ![q] = NothingSeen]

NewRun(q, c, p) ==
  /\ made < MaxRuns
  /\ made' = made + 1
  /\ status' = [status EXCEPT ![made + 1] = "QUEUED"]
  /\ cycle' = [cycle EXCEPT ![made + 1] = c]
  /\ parent' = [parent EXCEPT ![made + 1] = p]
  /\ run' = [run EXCEPT ![q] = made + 1]
  /\ crossed' = (crossed \/ Active # {})
  /\ UNCHANGED <<cases, settled, revived, lost, mishaps>>

--------------------------------------------------------------------------------
(* Start Planning.                                                            *)

AnyTime == TRUE   \* Slip: start does not look for an active run

NoneActive == Active = {}

\* No run is active: one will be created.
StartFresh(q) ==
  /\ pc[q] = "idle"
  /\ required
  /\ NoneActive
  /\ Goto(q, "create")
  /\ UNCHANGED <<rows, project, worker, run, seen, history>>

\* A run is active: it is resumed.
StartAgain(q) ==
  /\ pc[q] = "idle"
  /\ required
  /\ \E i \in Active :
       /\ FoundActive(i)
       /\ run' = [run EXCEPT ![q] = i]
       /\ seen' = [seen EXCEPT ![q].status = status[i]]
  /\ Goto(q, "drop")
  /\ UNCHANGED <<rows, project, worker, history>>

\* Queued duplicates of the run to resume are cancelled.
DropDuplicates(q) ==
  /\ pc[q] = "drop"
  /\ status' = [i \in Runs |-> IF status[i] = "QUEUED" /\ i # run[q] THEN "CANCELLED" ELSE status[i]]
  /\ Goto(q, "resume")
  /\ UNCHANGED <<made, cycle, parent, cases, project, worker, run, seen, history>>

NoneQueued(q) == FALSE   \* Slip: a queued run is taken to be on its way

StillQueued(q) == seen[q].status = "QUEUED"

\* Only a run that was seen QUEUED is enqueued again.
Resume(q) ==
  /\ pc[q] = "resume"
  /\ jobs' = IF StillQueued(q) THEN jobs \union {run[q]} ELSE jobs
  /\ lost' = IF seen[q].status = "QUEUED" THEN lost \ {run[q]} ELSE lost
  /\ Done(q)
  /\ UNCHANGED <<rows, project, driving, tries, settled, revived, crossed, mishaps>>

Create(q) ==
  /\ pc[q] = "create"
  /\ NewRun(q, 1, 0)
  /\ Goto(q, "reset")
  /\ UNCHANGED <<project, worker, seen>>

\* The approvals of earlier runs are cleared, the environment's excepted.
Reset(q) ==
  /\ pc[q] = "reset"
  /\ approval' = Withdrawn
  /\ currentCycle' = 1
  /\ settled' = [settled EXCEPT ![run[q]] = TRUE]
  /\ Goto(q, "enqueue")
  /\ UNCHANGED <<rows, required, worker, run, seen, revived, crossed, lost, mishaps>>

\* The last step of start, of startNextCycle and of a released approval.
Enqueue(q) ==
  /\ pc[q] = "enqueue"
  /\ jobs' = jobs \union {run[q]}
  /\ Done(q)
  /\ UNCHANGED <<rows, project, driving, tries, history>>

--------------------------------------------------------------------------------
(* Start next cycle.                                                          *)

\* The project row is read once; the approvals are judged on that copy.
NextLoad(q) ==
  /\ pc[q] = "idle"
  /\ approval["DATA"] # 0 /\ approval["DESIGN"] # 0
  /\ seen' = [seen EXCEPT ![q].cycle = currentCycle]
  /\ Goto(q, "check")
  /\ UNCHANGED <<rows, project, worker, run, history>>

NextCheck(q) ==
  /\ pc[q] = "check"
  /\ IF NoneActive /\ made > 0
       THEN /\ \E i \in Made : LatestCycle(i) /\ seen' = [seen EXCEPT ![q].parent = i]
            /\ Goto(q, "branch")
            /\ UNCHANGED run
       ELSE Done(q)
  /\ UNCHANGED <<rows, project, worker, history>>

Larger(a, b) == IF a > b THEN a ELSE b

Branch(q) ==
  /\ pc[q] = "branch"
  /\ NewRun(q, Larger(seen[q].cycle, cycle[seen[q].parent]) + 1, seen[q].parent)
  /\ Goto(q, "copy")
  /\ UNCHANGED <<project, worker, seen>>

\* The parent's test cases are copied one row at a time, then the artifacts.
CopyFirst(q) ==
  /\ pc[q] = "copy"
  /\ cases' = [cases EXCEPT ![run[q]] =
                 [from |-> cases[parent[run[q]]].from, whole |-> cases[parent[run[q]]].from = 0]]
  /\ Goto(q, "copying")
  /\ UNCHANGED <<made, status, cycle, parent, project, worker, run, seen, history>>

CopyRest(q) ==
  /\ pc[q] = "copying"
  /\ cases' = [cases EXCEPT ![run[q]].whole = cases[parent[run[q]]].whole]
  /\ Goto(q, "advance")
  /\ UNCHANGED <<made, status, cycle, parent, project, worker, run, seen, history>>

Advance(q) ==
  /\ pc[q] = "advance"
  /\ currentCycle' = cycle[run[q]]
  /\ approval' = NextCycleApprovals
  /\ settled' = [settled EXCEPT ![run[q]] = TRUE]
  /\ Goto(q, "enqueue")
  /\ UNCHANGED <<rows, required, worker, run, seen, revived, crossed, lost, mishaps>>

--------------------------------------------------------------------------------
(* Approvals, cancel, and changes of the requirements.                        *)

\* The approval of a released gate sets the project column and the row, and then enqueues.
Approve(q, i, g) ==
  /\ pc[q] = "idle"
  /\ status[i] = Awaiting[g]
  /\ approval' = [approval EXCEPT ![g] = i]
  /\ status' = [status EXCEPT ![i] = "RUNNING"]
  /\ run' = [run EXCEPT ![q] = i]
  /\ Goto(q, "enqueue")
  /\ UNCHANGED <<made, cycle, parent, cases, currentCycle, required, worker, seen, history>>

\* The held gates keep their slot; the last answer completes the run.
SignOff(i) ==
  /\ status[i] = "AWAITING_HELD" /\ i \in driving
  /\ status' = [status EXCEPT ![i] = "COMPLETED"]
  /\ driving' = driving \ {i}
  /\ UNCHANGED <<made, cycle, parent, cases, project, jobs, tries, requests, history>>

Cancel(i) ==
  /\ i \in Active
  /\ status' = [status EXCEPT ![i] = "CANCELLED"]
  /\ driving' = driving \ {i}
  /\ UNCHANGED <<made, cycle, parent, cases, project, jobs, tries, requests, history>>

\* A new analysis, a rejection or an edit of a requirement withdraws every approval but the environment's.
Withdraw ==
  /\ mishaps < MaxMishaps
  /\ required' = FALSE
  /\ approval' = Withdrawn
  /\ mishaps' = mishaps + 1
  /\ UNCHANGED <<rows, currentCycle, worker, requests, settled, revived, crossed, lost>>

\* Clearing all requirements takes the environment approval as well.
ClearAll ==
  /\ mishaps < MaxMishaps
  /\ required' = FALSE
  /\ approval' = NoApproval
  /\ mishaps' = mishaps + 1
  /\ UNCHANGED <<rows, currentCycle, worker, requests, settled, revived, crossed, lost>>

ApproveRequirements ==
  /\ ~required
  /\ required' = TRUE
  /\ UNCHANGED <<rows, currentCycle, approval, worker, requests, history>>

\* The API process dies between two writes of a handler.
Die(q) ==
  /\ mishaps < MaxMishaps
  /\ pc[q] # "idle"
  /\ mishaps' = mishaps + 1
  /\ lost' = (lost \union {run[q]}) \ {0}
  /\ Done(q)
  /\ UNCHANGED <<rows, project, worker, settled, revived, crossed>>

--------------------------------------------------------------------------------
(* The worker.                                                                *)

\* A job of a run that is over is dropped; a FAILED run is taken up again.
Take(i) ==
  /\ i \in jobs
  /\ jobs' = jobs \ {i}
  /\ IF status[i] \in {"COMPLETED", "CANCELLED"}
       THEN UNCHANGED <<status, driving, revived, crossed>>
       ELSE /\ status' = [status EXCEPT ![i] = "RUNNING"]
            /\ driving' = driving \union {i}
            /\ revived' = [revived EXCEPT ![i] = @ \/ status[i] = "FAILED"]
            /\ crossed' = (crossed \/ (status[i] = "FAILED" /\ (i < made \/ Active # {})))
  /\ UNCHANGED <<made, cycle, parent, cases, project, tries, requests,
                 settled, lost, mishaps>>

Unapproved(g) == approval[g] = 0

\* The first released gate whose column is null, as loadGates reads it.
StopsAt(i, g) ==
  /\ Unapproved(g)
  /\ g = "ENV" => ~Unapproved("DESIGN")
  /\ g = "DATA" => ~Unapproved("DESIGN") /\ ~Unapproved("ENV")
  /\ status' = [status EXCEPT ![i] = Awaiting[g]]
  /\ driving' = driving \ {i}

\* Test design writes the run's cases and waits for review.
Design(i) ==
  /\ i \in driving /\ status[i] = "RUNNING"
  /\ StopsAt(i, "DESIGN")
  /\ cases' = [cases EXCEPT ![i] = [from |-> i, whole |-> TRUE]]
  /\ UNCHANGED <<made, cycle, parent, project, jobs, tries, requests, history>>

\* Environment and data stages wait for review; the cases stay.
Prepare(i, g) ==
  /\ i \in driving /\ status[i] = "RUNNING"
  /\ g \in {"ENV", "DATA"}
  /\ StopsAt(i, g)
  /\ UNCHANGED <<made, cycle, parent, cases, project, jobs, tries, requests, history>>

\* Every released gate has its approval: the cases are executed and the run goes to its held gates.
Execute(i) ==
  /\ i \in driving /\ status[i] = "RUNNING"
  /\ \A g \in Released : ~Unapproved(g)
  /\ status' = [status EXCEPT ![i] = "AWAITING_HELD"]
  /\ UNCHANGED <<made, cycle, parent, cases, project, worker, requests, history>>

OneAttemptMore(i) == tries[i] < MaxAttempts   \* Slip: off by one

AttemptLeft(i) == tries[i] + 1 < MaxAttempts

\* A stage throws: the row says FAILED, and BullMQ delivers the job again while attempts are left.
Fail(i) ==
  /\ i \in driving
  /\ status' = [status EXCEPT ![i] = "FAILED"]
  /\ driving' = driving \ {i}
  /\ IF AttemptLeft(i)
       THEN jobs' = jobs \union {i} /\ tries' = [tries EXCEPT ![i] = @ + 1]
       ELSE UNCHANGED <<jobs, tries>>
  /\ UNCHANGED <<made, cycle, parent, cases, project, requests, history>>

--------------------------------------------------------------------------------
StartStep(q) ==
  StartFresh(q) \/ StartAgain(q) \/ DropDuplicates(q) \/ Resume(q) \/ Create(q) \/ Reset(q)

NextCycleStep(q) ==
  NextLoad(q) \/ NextCheck(q) \/ Branch(q) \/ CopyFirst(q) \/ CopyRest(q) \/ Advance(q)

WorkerStep(i) ==
  Take(i) \/ Design(i) \/ Prepare(i, "ENV") \/ Prepare(i, "DATA") \/ Execute(i) \/ Fail(i)

RequestStep(q) ==
  StartStep(q) \/ NextCycleStep(q) \/ Enqueue(q) \/ (\E i \in Made, g \in Released : Approve(q, i, g)) \/ Die(q)

Next ==
  \/ \E q \in Request : RequestStep(q)
  \/ \E i \in Made : WorkerStep(i) \/ SignOff(i) \/ Cancel(i)
  \/ Withdraw \/ ClearAll \/ ApproveRequirements

Spec == Init /\ [][Next]_vars

--------------------------------------------------------------------------------
(* Properties.                                                                *)

Creating == {q \in Request : pc[q] \in {"create", "branch"}}
Fresh    == {i \in Active : ~revived[i]}

\* A run passes its last released gate.
Executes(i) == status[i] = "RUNNING" /\ status'[i] = "AWAITING_HELD"

\* The project row was reset for the run, and no other run has worked beside it.
Undisturbed(i) == settled[i] /\ ~crossed

\* Two starts that overlap may both create a run, and so may a retry that takes up a FAILED
\* run; apart from the revived ones there are never more active runs, made or about to be
\* made, than requests in flight (findActiveStlcExecution before create).
ActiveBounded == Cardinality(Fresh) + Cardinality(Creating) <= Cardinality(Request)

\* A run that reaches execution has had its test data approved for itself, however the run
\* was made, restarted, cancelled or withdrawn, unless the handler that made it died before
\* it reset the project row (start and startNextCycle create the row first).
DataPickedForRun ==
  [][\A i \in Runs : Executes(i) /\ Undisturbed(i) => approval["DATA"] = i]_vars

\* A run made by start executes the cases its own design wrote and a human approved.
StartedRunReviewed ==
  [][\A i \in Runs : Executes(i) /\ Undisturbed(i) /\ parent[i] = 0 =>
        approval["DESIGN"] = i /\ cases[i] = [from |-> i, whole |-> TRUE]]_vars

\* A QUEUED or RUNNING run that no job, slot or request moves is one whose handler died: after
\* its row was written and before the job was enqueued.  Pressing start again revives it when
\* it is QUEUED; a RUNNING one (died in an approval) start does not enqueue.
OnlyDeadHandlersStrand ==
  \A i \in Made :
    \/ status[i] \notin {"QUEUED", "RUNNING"}
    \/ i \in jobs \union driving \union lost
    \/ \E q \in Request : run[q] = i
=============================================================================
