------------------------------ MODULE StlcRun -------------------------------
(***************************************************************************)
(* One project's STLC runs: the API handlers that approve gates, continue  *)
(* after login and cancel, the BullMQ jobs they enqueue, the Redis flags   *)
(* and messages they publish, and the worker slots that drive a run from   *)
(* test design to QA sign-off.                                             *)
(*                                                                         *)
(* Gates are numbered in pipeline order.  At a "released" gate (design,    *)
(* environment, data) the worker ends its job and an approval enqueues a   *)
(* fresh one; at a "held" gate (login, execution, defects, automation,     *)
(* report, sign-off) the worker keeps its slot and blocks on Redis.  In    *)
(* the code LastReleased = 3 and LastGate = 9.                             *)
(*                                                                         *)
(* Every await of a handler or of the worker that separates two writes is  *)
(* a step boundary here.  A definition marked "Slip" is a mistake this     *)
(* code could have contained; no specification uses it.                    *)
(***************************************************************************)
EXTENDS Integers, FiniteSets

CONSTANTS
  Exec,            \* STLC executions of the project
  Worker,          \* worker slots (WORKER_CONCURRENCY)
  Request,         \* API requests that may be in flight at once
  NoExec,          \* "no execution"
  LastReleased,    \* number of released gates
  LastGate,        \* number of gates
  MaxAttempts,     \* BullMQ attempts of a run-execution job
  MaxQueued,       \* bound: waiting jobs per execution and attempt
  MaxCrashes,      \* bound: process deaths (worker slots and API handlers)
  Hazards          \* which of the environment's events may happen

AllHazards ==
  {"fault",        \* an agent or a database call of a stage throws
   "edge",         \* a call throws before the try block, between asking and waiting, or in the catch block
   "timer",        \* Redis TTLs and the 30 minute wait timer fire
   "cancel",       \* the user may cancel
   "impatient",    \* the user clicks Continue before the browser is up, or while RUNNING
   "overlap",      \* a request for a run arrives while another one for it is in flight
   "slow",         \* a handler may still be in flight when the run is at its next gate
   "edit"}         \* the user edits an approved case, or saves another application URL

ASSUME ConstantsAssumption ==
  /\ NoExec \notin Exec
  /\ LastReleased \in Nat /\ LastReleased > 1
  /\ LastGate \in Nat /\ LastGate > LastReleased + 1
  /\ MaxAttempts \in Nat \ {0}
  /\ MaxQueued \in Nat \ {0}
  /\ MaxCrashes \in Nat
  /\ Hazards \subseteq AllHazards

VARIABLES
  status,          \* execution.status, all AWAITING_* collapsed to "AWAITING"
  gate,            \* which gate an AWAITING execution names (0 otherwise)
  approved,        \* gates whose <gate>ApprovedAt column of the project is set
  stage,           \* project.stlcStage, as the number of the gate it shows
  cases,           \* testCase rows of an execution: what was last done to their steps
  contFlag,        \* Redis continue-flag
  cancelFlag,      \* Redis cancel-flag
  queued,          \* waiting run-execution jobs by execution and attempt
  wpc, wexec, wgate, wtry,   \* worker slot: step, execution, gate it works towards, attempt
  browser,         \* the slot's job has launched a browser
  orphan,          \* a finished job of the slot left its browser running
  rpc, rop, rexec, rgate,    \* API request: step, operation, execution, gate
  answered,        \* history: gates a human answered since they were last asked
  crashes

row      == <<status, gate>>
project  == <<approved, stage>>
flags    == <<contFlag, cancelFlag>>
slots    == <<wpc, wexec, wgate, wtry>>
tabs     == <<browser, orphan>>
requests == <<rpc, rop, rexec, rgate>>
vars == <<row, project, cases, flags, queued, slots, tabs, requests, answered, crashes>>

Released == 1..LastReleased
Login    == LastReleased + 1
Held     == Login..LastGate
Gates    == 1..LastGate
ApprovalGates == Gates \ {Login}      \* login has no approval column
Attempts == 1..MaxAttempts

\* The stlcStage a gate is shown under: login and results share EXECUTION.
StageOf(g) == IF g = Login + 1 THEN Login ELSE g

Statuses   == {"QUEUED", "RUNNING", "AWAITING", "COMPLETED", "FAILED", "CANCELLED"}
WorkerPcs  == {"idle", "row", "init", "context", "gates", "ground", "work", "show", "busy", "drafted", "release",
               "launch", "check", "wait", "woken", "stopped", "cancelled", "closing", "done", "ended"}
RequestPcs == {"idle", "grant", "mark", "signal", "publish"}

\* The steps of a run's cases: as design wrote them, as the design approval found
\* them, bound to the application's pages, approved in that form at the data gate,
\* or changed by the user after an approval.
CaseTexts == {"none", "draft", "reviewed", "grounded", "accepted", "changed"}

RowType == status \in [Exec -> Statuses] /\ gate \in [Exec -> 0..LastGate]

ProjectType ==
  /\ approved \subseteq ApprovalGates
  /\ stage \in 1..(LastGate + 1)
  /\ cases \in [Exec -> CaseTexts]
  /\ answered \in [Exec -> SUBSET Gates]

FlagType == contFlag \in [Exec -> BOOLEAN] /\ cancelFlag \in [Exec -> BOOLEAN]

QueueType == queued \in [Exec -> [Attempts -> 0..MaxQueued]] /\ crashes \in 0..MaxCrashes

SlotType ==
  /\ wpc \in [Worker -> WorkerPcs]
  /\ wexec \in [Worker -> Exec \union {NoExec}]
  /\ wgate \in [Worker -> Gates]
  /\ wtry \in [Worker -> Attempts]
  /\ \A w \in Worker : wpc[w] # "idle" => wexec[w] \in Exec

TabType == browser \in [Worker -> BOOLEAN] /\ orphan \in [Worker -> BOOLEAN]

RequestType ==
  /\ rpc \in [Request -> RequestPcs]
  /\ rop \in [Request -> {"approve", "continue", "cancel"}]
  /\ rexec \in [Request -> Exec \union {NoExec}]
  /\ rgate \in [Request -> 0..LastGate]
  /\ \A r \in Request : rpc[r] # "idle" => rexec[r] \in Exec
  /\ \A r \in Request : rpc[r] = "grant" => rgate[r] \in ApprovalGates

TypeOK ==
  RowType /\ ProjectType /\ FlagType /\ QueueType /\ SlotType /\ TabType /\ RequestType

\* Runs as phase1 start leaves them: row QUEUED, approvals null, one job enqueued.
Init ==
  /\ status = [e \in Exec |-> "QUEUED"]
  /\ gate = [e \in Exec |-> 0]
  /\ approved = {}
  /\ stage = 1
  /\ cases = [e \in Exec |-> "none"]
  /\ contFlag = [e \in Exec |-> FALSE]
  /\ cancelFlag = [e \in Exec |-> FALSE]
  /\ queued = [e \in Exec |-> [a \in Attempts |-> IF a = 1 THEN 1 ELSE 0]]
  /\ wpc = [w \in Worker |-> "idle"]
  /\ wexec = [w \in Worker |-> NoExec]
  /\ wgate = [w \in Worker |-> 1]
  /\ wtry = [w \in Worker |-> 1]
  /\ browser = [w \in Worker |-> FALSE]
  /\ orphan = [w \in Worker |-> FALSE]
  /\ rpc = [r \in Request |-> "idle"]
  /\ rop = [r \in Request |-> "approve"]
  /\ rexec = [r \in Request |-> NoExec]
  /\ rgate = [r \in Request |-> 0]
  /\ answered = [e \in Exec |-> {}]
  /\ crashes = 0

-----------------------------------------------------------------------------
(* Rows, jobs and flags *)

\* prisma.execution.update({ status }): unconditional, whatever the row holds.
SetStatus(e, s) ==
  /\ status' = [status EXCEPT ![e] = s]
  /\ gate' = [gate EXCEPT ![e] = 0]

SetAwaiting(e, g) ==
  /\ status' = [status EXCEPT ![e] = "AWAITING"]
  /\ gate' = [gate EXCEPT ![e] = g]

Enqueue(e, a) ==
  /\ queued[e][a] < MaxQueued
  /\ queued' = [queued EXCEPT ![e][a] = @ + 1]

Step(w, pc) == wpc' = [wpc EXCEPT ![w] = pc]

\* The slot goes back to BullMQ.
FreeSlot(w) ==
  /\ wpc' = [wpc EXCEPT ![w] = "idle"]
  /\ wexec' = [wexec EXCEPT ![w] = NoExec]
  /\ wgate' = [wgate EXCEPT ![w] = 1]
  /\ wtry' = [wtry EXCEPT ![w] = 1]

\* runStlcExecution keeps browserSessionId only once authenticationAgent has returned.
SessionRecorded(w) == wgate[w] > Login + 1 \/ (wgate[w] = Login + 1 /\ wpc[w] # "work")

\* The finally block destroys the browser it knows of; any other stays open.
CloseBrowser(w) ==
  /\ browser' = [browser EXCEPT ![w] = FALSE]
  /\ orphan' = [orphan EXCEPT ![w] = @ \/ (browser[w] /\ ~SessionRecorded(w))]

\* Slip: the loop over the gates runs one past its end.
PassGateNoEnd(w) == Step(w, "work") /\ wgate' = [wgate EXCEPT ![w] = @ + 1]

\* Slip: the run closes after the report gate.
PassGateEarlyEnd(w) ==
  IF wgate[w] = LastGate - 1
  THEN Step(w, "closing") /\ UNCHANGED wgate
  ELSE Step(w, "work") /\ wgate' = [wgate EXCEPT ![w] = @ + 1]

\* A wait returned: on to the next stage, or to the end of the run.
PassGate(w) ==
  IF wgate[w] = LastGate
  THEN Step(w, "closing") /\ UNCHANGED wgate
  ELSE Step(w, "work") /\ wgate' = [wgate EXCEPT ![w] = @ + 1]

-----------------------------------------------------------------------------
(* Worker: claiming a job and the released gates *)

\* BullMQ hands a waiting job to a free slot.
Claim(w, e, a) ==
  /\ wpc[w] = "idle"
  /\ queued[e][a] > 0
  /\ queued' = [queued EXCEPT ![e][a] = @ - 1]
  /\ Step(w, "row")
  /\ wexec' = [wexec EXCEPT ![w] = e]
  /\ wtry' = [wtry EXCEPT ![w] = a]
  /\ UNCHANGED <<row, project, cases, flags, wgate, tabs, requests, answered, crashes>>

\* Slip: a RUNNING row is taken for a run that another slot has in hand.
ReadRowSkipsRunning(w) ==
  /\ wpc[w] = "row"
  /\ IF status[wexec[w]] \in {"CANCELLED", "COMPLETED", "RUNNING"}
     THEN FreeSlot(w)
     ELSE Step(w, "init") /\ UNCHANGED <<wexec, wgate, wtry>>
  /\ UNCHANGED <<row, project, cases, flags, queued, tabs, requests, answered, crashes>>

\* processJob reads the row and skips a run that is over.
ReadRow(w) ==
  /\ wpc[w] = "row"
  /\ IF status[wexec[w]] \in {"CANCELLED", "COMPLETED"}
     THEN FreeSlot(w)
     ELSE Step(w, "init") /\ UNCHANGED <<wexec, wgate, wtry>>
  /\ UNCHANGED <<row, project, cases, flags, queued, tabs, requests, answered, crashes>>

StartRun(w) ==
  /\ wpc[w] = "init"
  /\ SetStatus(wexec[w], "RUNNING")
  /\ Step(w, "context")
  /\ UNCHANGED <<project, cases, flags, queued, wexec, wgate, wtry, tabs, requests, answered, crashes>>

\* subscribe and createAgentContext, the last calls before the try block.
OpenContext(w) ==
  /\ wpc[w] = "context"
  /\ Step(w, "gates")
  /\ UNCHANGED <<row, project, cases, flags, queued, wexec, wgate, wtry, tabs, requests, answered, crashes>>

\* Slip: one approval column stands for all of them.
LoadGatesAnyApproval(w) ==
  /\ wpc[w] = "gates"
  /\ LET g == wgate[w] IN
       IF approved # {}
       THEN /\ Step(w, IF g = LastReleased THEN "ground" ELSE "gates")
            /\ wgate' = [wgate EXCEPT ![w] = g + 1]
       ELSE Step(w, IF g = LastReleased THEN "ground" ELSE "work") /\ UNCHANGED wgate
  /\ UNCHANGED <<row, project, cases, flags, queued, wexec, wtry, tabs, requests, answered, crashes>>

\* Slip: the cases are grounded only once the data is approved, before the run executes.
LoadGatesGroundsLate(w) ==
  /\ wpc[w] = "gates"
  /\ LET g == wgate[w] IN
       IF g \in approved
       THEN /\ Step(w, IF g = LastReleased THEN "ground" ELSE "gates")
            /\ wgate' = [wgate EXCEPT ![w] = g + 1]
       ELSE Step(w, "work") /\ UNCHANGED wgate
  /\ UNCHANGED <<row, project, cases, flags, queued, wexec, wtry, tabs, requests, answered, crashes>>

\* loadGates: an approved gate is skipped, an open one gets its stage.  Whatever the
\* data gate is, the cases are grounded first.
LoadGates(w) ==
  /\ wpc[w] = "gates"
  /\ LET g == wgate[w] IN
       IF g \in approved
       THEN /\ Step(w, IF g = LastReleased THEN "ground" ELSE "gates")
            /\ wgate' = [wgate EXCEPT ![w] = g + 1]
       ELSE Step(w, IF g = LastReleased THEN "ground" ELSE "work") /\ UNCHANGED wgate
  /\ UNCHANGED <<row, project, cases, flags, queued, wexec, wtry, tabs, requests, answered, crashes>>

\* groundExecutionCases rewrites steps and preconditions for the application's pages;
\* cases that are bound to the same URL already stay as they are.
GroundCases(w) ==
  /\ wpc[w] = "ground"
  /\ cases' = [cases EXCEPT ![wexec[w]] = IF @ = "reviewed" THEN "grounded" ELSE @]
  /\ Step(w, "work")
  /\ UNCHANGED <<row, project, flags, queued, wexec, wgate, wtry, tabs, requests, answered, crashes>>

\* The design stage and the stages after execution approval write stlcStage.
ShowsStage(g) == g = 1 \/ g > Login + 1

\* First write of a stage: RUNNING.  The data stage may find nothing to generate.
EnterStage(w) ==
  /\ wpc[w] = "work"
  /\ wgate[w] # Login
  /\ \/ SetStatus(wexec[w], "RUNNING")
     \/ wgate[w] = LastReleased /\ UNCHANGED row
  /\ Step(w, IF ShowsStage(wgate[w]) THEN "show" ELSE "busy")
  /\ UNCHANGED <<project, cases, flags, queued, wexec, wgate, wtry, tabs, requests, answered, crashes>>

\* Second write of a stage: project.stlcStage.
ShowStage(w) ==
  /\ wpc[w] = "show"
  /\ stage' = StageOf(wgate[w])
  /\ Step(w, "busy")
  /\ UNCHANGED <<row, approved, cases, flags, queued, wexec, wgate, wtry, tabs, requests, answered, crashes>>

\* runAgent: every further agent of the stage writes RUNNING again.
RunAgent(w) ==
  /\ wpc[w] = "busy"
  /\ SetStatus(wexec[w], "RUNNING")
  /\ UNCHANGED <<project, cases, flags, queued, slots, tabs, requests, answered, crashes>>

\* Test design replaces the execution's testCase rows.
WriteCases(w) ==
  /\ wpc[w] = "busy"
  /\ wgate[w] = 1
  /\ cases' = [cases EXCEPT ![wexec[w]] = "draft"]
  /\ Step(w, "drafted")
  /\ UNCHANGED <<row, project, flags, queued, wexec, wgate, wtry, tabs, requests, answered, crashes>>

\* The stage's work is done and the gate may be asked.
StageDone(w) ==
  \/ wpc[w] = "drafted"
  \/ wpc[w] = "busy" /\ wgate[w] > 1
  \/ wpc[w] = "work" /\ wgate[w] = Login

\* Timing assumption unless "slow": a stage outlasts the tail of an API handler.
HandlersDone(e) ==
  "slow" \in Hazards \/ \A r \in Request : rexec[r] = e => rpc[r] = "idle"

\* AWAITING_*: a released gate ends the job, login launches a browser, the rest wait.
Ask(w) ==
  /\ StageDone(w)
  /\ HandlersDone(wexec[w])
  /\ LET g == wgate[w]
         e == wexec[w]
     IN /\ SetAwaiting(e, g)
        /\ answered' = [answered EXCEPT ![e] = @ \ {g}]
        /\ Step(w, CASE g \in Released -> "release" [] g = Login -> "launch" [] OTHER -> "check")
  /\ UNCHANGED <<project, cases, flags, queued, wexec, wgate, wtry, tabs, requests, crashes>>

\* AwaitingHumanError: the job completes and the slot is released.
Release(w) ==
  /\ wpc[w] = "release"
  /\ FreeSlot(w)
  /\ UNCHANGED <<row, project, cases, flags, queued, tabs, requests, answered, crashes>>

\* runAgent writes AWAITING_LOGIN once more and authenticationAgent opens the browser.
LaunchBrowser(w) ==
  /\ wpc[w] = "launch"
  /\ SetAwaiting(wexec[w], Login)
  /\ browser' = [browser EXCEPT ![w] = TRUE]
  /\ Step(w, "check")
  /\ UNCHANGED <<project, cases, flags, queued, wexec, wgate, wtry, orphan, requests, answered, crashes>>

-----------------------------------------------------------------------------
(* Worker: waitForContinueSignal *)

\* Slip: GET where the code has GETDEL, for the continue-flag.
CheckFlagsKeeps(w) ==
  /\ wpc[w] = "check"
  /\ LET e == wexec[w] IN
       \/ cancelFlag[e] /\ cancelFlag' = [cancelFlag EXCEPT ![e] = FALSE] /\ Step(w, "cancelled") /\ UNCHANGED wgate
       \/ ~cancelFlag[e] /\ contFlag[e] /\ PassGate(w) /\ UNCHANGED cancelFlag
       \/ ~cancelFlag[e] /\ ~contFlag[e] /\ Step(w, "wait") /\ UNCHANGED <<cancelFlag, wgate>>
  /\ UNCHANGED <<contFlag, row, project, cases, queued, wexec, wtry, tabs, requests, answered, crashes>>

\* Before subscribing: GETDEL cancel-flag, then GETDEL continue-flag.
CheckFlags(w) ==
  /\ wpc[w] = "check"
  /\ LET e == wexec[w] IN
       \/ /\ cancelFlag[e]
          /\ cancelFlag' = [cancelFlag EXCEPT ![e] = FALSE]
          /\ Step(w, "cancelled")
          /\ UNCHANGED <<contFlag, wgate>>
       \/ /\ ~cancelFlag[e] /\ contFlag[e]
          /\ contFlag' = [contFlag EXCEPT ![e] = FALSE]
          /\ PassGate(w)
          /\ UNCHANGED cancelFlag
       \/ /\ ~cancelFlag[e] /\ ~contFlag[e]
          /\ Step(w, "wait")
          /\ UNCHANGED <<flags, wgate>>
  /\ UNCHANGED <<row, project, cases, queued, wexec, wtry, tabs, requests, answered, crashes>>

\* Slip: the poll leaves the continue-flag behind.
PollKeepsContinue(w) ==
  /\ wpc[w] \in {"wait", "woken", "stopped"}
  /\ LET e == wexec[w] IN
       /\ cancelFlag[e] \/ contFlag[e]
       /\ cancelFlag' = [cancelFlag EXCEPT ![e] = FALSE]
       /\ IF cancelFlag[e] THEN Step(w, "cancelled") /\ UNCHANGED wgate ELSE PassGate(w)
  /\ UNCHANGED <<contFlag, row, project, cases, queued, wexec, wtry, tabs, requests, answered, crashes>>

\* The one-second poll takes both flags; a cancel settles the wait first.
Poll(w) ==
  /\ wpc[w] \in {"wait", "woken", "stopped"}
  /\ LET e == wexec[w] IN
       /\ cancelFlag[e] \/ contFlag[e]
       /\ contFlag' = [contFlag EXCEPT ![e] = FALSE]
       /\ cancelFlag' = [cancelFlag EXCEPT ![e] = FALSE]
       /\ IF cancelFlag[e] THEN Step(w, "cancelled") /\ UNCHANGED wgate ELSE PassGate(w)
  /\ UNCHANGED <<row, project, cases, queued, wexec, wtry, tabs, requests, answered, crashes>>

\* A published message settles the wait and deletes the flag it stands for.
TakeMessage(w) ==
  /\ LET e == wexec[w] IN
       \/ /\ wpc[w] = "woken"
          /\ contFlag' = [contFlag EXCEPT ![e] = FALSE]
          /\ PassGate(w)
          /\ UNCHANGED cancelFlag
       \/ /\ wpc[w] = "stopped"
          /\ cancelFlag' = [cancelFlag EXCEPT ![e] = FALSE]
          /\ Step(w, "cancelled")
          /\ UNCHANGED <<contFlag, wgate>>
  /\ UNCHANGED <<row, project, cases, queued, wexec, wtry, tabs, requests, answered, crashes>>

-----------------------------------------------------------------------------
(* Worker: the ends of a job *)

\* The sign-off wait is over: the project is DONE ...
CloseProject(w) ==
  /\ wpc[w] = "closing"
  /\ stage' = LastGate + 1
  /\ Step(w, "done")
  /\ UNCHANGED <<row, approved, cases, flags, queued, wexec, wgate, wtry, tabs, requests, answered, crashes>>

\* ... then the execution COMPLETED ...
Complete(w) ==
  /\ wpc[w] = "done"
  /\ SetStatus(wexec[w], "COMPLETED")
  /\ Step(w, "ended")
  /\ UNCHANGED <<project, cases, flags, queued, wexec, wgate, wtry, tabs, requests, answered, crashes>>

\* ... and the job ends, unless the last emit throws.
EndJob(w) ==
  /\ wpc[w] = "ended"
  /\ CloseBrowser(w)
  /\ FreeSlot(w)
  /\ UNCHANGED <<row, project, cases, flags, queued, requests, answered, crashes>>

\* ExecutionCancelledError: CANCELLED is written and the job ends without a retry.
StopRun(w) ==
  /\ wpc[w] = "cancelled"
  /\ SetStatus(wexec[w], "CANCELLED")
  /\ CloseBrowser(w)
  /\ FreeSlot(w)
  /\ UNCHANGED <<project, cases, flags, queued, requests, answered, crashes>>

\* BullMQ retries a job that threw, from the top.
Retry(w) == IF wtry[w] < MaxAttempts THEN Enqueue(wexec[w], wtry[w] + 1) ELSE UNCHANGED queued

\* Any other error: FAILED is written and the error goes on to BullMQ.
FailRun(w) ==
  /\ SetStatus(wexec[w], "FAILED")
  /\ Retry(w)
  /\ CloseBrowser(w)
  /\ FreeSlot(w)
  /\ UNCHANGED <<project, cases, flags, requests, answered, crashes>>

Throw(w) ==
  /\ \/ /\ "fault" \in Hazards
        /\ wpc[w] \in {"gates", "ground", "work", "show", "busy", "drafted", "launch", "closing", "done", "ended"}
     \/ "edge" \in Hazards /\ wpc[w] \in {"release", "check"}
  /\ FailRun(w)

\* What throws before the try block, or in the catch block, leaves the row as it is.
ThrowUnrecorded(w) ==
  /\ "edge" \in Hazards
  /\ wpc[w] \notin {"idle", "wait", "woken", "stopped"}
  /\ Retry(w)
  /\ CloseBrowser(w)
  /\ FreeSlot(w)
  /\ UNCHANGED <<row, project, cases, flags, requests, answered, crashes>>

\* Slip: only the login wait has a timer.
WaitTimeoutLoginOnly(w) ==
  /\ "timer" \in Hazards
  /\ wpc[w] = "wait" /\ wgate[w] = Login
  /\ FailRun(w)

\* Nobody answered for 30 minutes.
WaitTimeout(w) ==
  /\ "timer" \in Hazards
  /\ wpc[w] = "wait"
  /\ FailRun(w)

\* The process dies with its browsers; BullMQ finds the job stalled and requeues it.
Crash(w) ==
  /\ crashes < MaxCrashes
  /\ wpc[w] # "idle"
  /\ Enqueue(wexec[w], wtry[w])
  /\ FreeSlot(w)
  /\ browser' = [browser EXCEPT ![w] = FALSE]
  /\ orphan' = [orphan EXCEPT ![w] = FALSE]
  /\ crashes' = crashes + 1
  /\ UNCHANGED <<row, project, cases, flags, requests, answered>>

\* EX 3600 on both flags.
FlagExpires(e) ==
  /\ "timer" \in Hazards
  /\ \/ contFlag[e] /\ contFlag' = [contFlag EXCEPT ![e] = FALSE] /\ UNCHANGED cancelFlag
     \/ cancelFlag[e] /\ cancelFlag' = [cancelFlag EXCEPT ![e] = FALSE] /\ UNCHANGED contFlag
  /\ UNCHANGED <<row, project, cases, queued, slots, tabs, requests, answered, crashes>>

-----------------------------------------------------------------------------
(* API handlers: read and check the status, then write, then signal *)

Begin(r, op, e, g, pc) ==
  /\ rpc[r] = "idle"
  /\ "overlap" \in Hazards \/ \A q \in Request : rexec[q] # e
  /\ rpc' = [rpc EXCEPT ![r] = pc]
  /\ rop' = [rop EXCEPT ![r] = op]
  /\ rexec' = [rexec EXCEPT ![r] = e]
  /\ rgate' = [rgate EXCEPT ![r] = g]
  /\ UNCHANGED <<row, project, cases, flags, queued, slots, tabs, answered, crashes>>

\* Slip: the status is not checked.
BeginApproveUnchecked(r, e) == \E g \in ApprovalGates : Begin(r, "approve", e, g, "grant")

\* approveTestDesign ... approveQaSignoff: refused unless the row awaits that gate.
BeginApprove(r, e) ==
  /\ status[e] = "AWAITING"
  /\ gate[e] \in ApprovalGates
  /\ Begin(r, "approve", e, gate[e], "grant")

\* A patient user logs in first: the browser is up and the slot waits.
LoginOffered(e) ==
  "impatient" \in Hazards \/ \E w \in Worker : wexec[w] = e /\ wgate[w] = Login /\ wpc[w] \in {"check", "wait"}

\* continueAfterLogin accepts AWAITING_LOGIN, and RUNNING as well.
BeginContinue(r, e) ==
  \/ /\ status[e] = "AWAITING" /\ gate[e] = Login
     /\ LoginOffered(e)
     /\ Begin(r, "continue", e, Login, "mark")
  \/ /\ "impatient" \in Hazards
     /\ status[e] = "RUNNING"
     /\ Begin(r, "continue", e, 0, "mark")

\* cancel is a no-op on a run that is over.
BeginCancel(r, e) ==
  /\ "cancel" \in Hazards
  /\ status[e] \notin {"COMPLETED", "CANCELLED"}
  /\ Begin(r, "cancel", e, 0, "mark")

HandlerStep(r, pc) == rpc' = [rpc EXCEPT ![r] = pc] /\ UNCHANGED <<rop, rexec, rgate>>

EndHandler(r) ==
  /\ rpc' = [rpc EXCEPT ![r] = "idle"]
  /\ rop' = [rop EXCEPT ![r] = "approve"]
  /\ rexec' = [rexec EXCEPT ![r] = NoExec]
  /\ rgate' = [rgate EXCEPT ![r] = 0]

\* The steps a human approves: as designed at the design gate, grounded at the data gate.
Approved(c, g) ==
  CASE g = 1 /\ c \in {"none", "draft"} -> "reviewed"
    [] g = LastReleased /\ c = "grounded" -> "accepted"
    [] OTHER -> c

\* Slip: an approval shows the stage it approves instead of the next one.
GrantSameStage(r) ==
  /\ rpc[r] = "grant"
  /\ LET e == rexec[r]
         g == rgate[r]
     IN /\ approved' = approved \union {g}
        /\ stage' = StageOf(g)
        /\ answered' = [answered EXCEPT ![e] = @ \union {g}]
        /\ cases' = [cases EXCEPT ![e] = Approved(@, g)]
  /\ HandlerStep(r, "mark")
  /\ UNCHANGED <<row, flags, queued, slots, tabs, crashes>>

\* project.update: the approval column and the next stlcStage.
Grant(r) ==
  /\ rpc[r] = "grant"
  /\ LET e == rexec[r]
         g == rgate[r]
     IN /\ approved' = approved \union {g}
        /\ stage' = IF g = LastGate THEN LastGate + 1 ELSE StageOf(g + 1)
        /\ answered' = [answered EXCEPT ![e] = @ \union {g}]
        /\ cases' = [cases EXCEPT ![e] = Approved(@, g)]
  /\ HandlerStep(r, "mark")
  /\ UNCHANGED <<row, flags, queued, slots, tabs, crashes>>

\* execution.update: RUNNING, or CANCELLED, whatever the row holds by now.
Mark(r) ==
  /\ rpc[r] = "mark"
  /\ SetStatus(rexec[r], IF rop[r] = "cancel" THEN "CANCELLED" ELSE "RUNNING")
  /\ answered' = IF rop[r] = "continue" /\ rgate[r] = Login
                 THEN [answered EXCEPT ![rexec[r]] = @ \union {Login}] ELSE answered
  /\ HandlerStep(r, "signal")
  /\ UNCHANGED <<project, cases, flags, queued, slots, tabs, crashes>>

\* What publishContinue and publishCancel do first: set the durable flag.
SignalByFlag(r) ==
  /\ LET e == rexec[r] IN
       \/ rop[r] = "cancel" /\ cancelFlag' = [cancelFlag EXCEPT ![e] = TRUE] /\ UNCHANGED contFlag
       \/ rop[r] # "cancel" /\ contFlag' = [contFlag EXCEPT ![e] = TRUE] /\ UNCHANGED cancelFlag
  /\ HandlerStep(r, "publish")
  /\ UNCHANGED <<queued, row, project, cases, slots, tabs, answered, crashes>>

\* What a resume at a released gate does: enqueue a fresh job.
SignalByJob(r) ==
  /\ Enqueue(rexec[r], 1)
  /\ EndHandler(r)
  /\ UNCHANGED <<flags, row, project, cases, slots, tabs, answered, crashes>>

\* Slip: resumeStlc is called without requeue: false at the held gates.
SignalAlwaysRequeues(r) ==
  /\ rpc[r] = "signal"
  /\ IF rop[r] = "approve" THEN SignalByJob(r) ELSE SignalByFlag(r)

\* Slip: a requeued run is published a continue as well.
SignalRequeuesAndPublishes(r) ==
  /\ rpc[r] = "signal"
  /\ IF rop[r] = "approve" /\ rgate[r] \in Released
     THEN /\ Enqueue(rexec[r], 1)
          /\ contFlag' = [contFlag EXCEPT ![rexec[r]] = TRUE]
          /\ EndHandler(r)
          /\ UNCHANGED <<cancelFlag, row, project, cases, slots, tabs, answered, crashes>>
     ELSE SignalByFlag(r)

\* Slip: cancel is published without its durable flag.
SignalCancelUnflagged(r) ==
  /\ rpc[r] = "signal"
  /\ CASE rop[r] = "cancel" -> HandlerStep(r, "publish")
            /\ UNCHANGED <<flags, queued, row, project, cases, slots, tabs, answered, crashes>>
       [] rop[r] = "approve" /\ rgate[r] \in Released -> SignalByJob(r)
       [] OTHER -> SignalByFlag(r)

\* resumeStlc: a fresh job after a released gate, else the durable flag.
Signal(r) ==
  /\ rpc[r] = "signal"
  /\ IF rop[r] = "approve" /\ rgate[r] \in Released THEN SignalByJob(r) ELSE SignalByFlag(r)

\* The message reaches every slot that is waiting on the execution's channel.
Publish(r) ==
  /\ rpc[r] = "publish"
  /\ wpc' = [w \in Worker |->
               IF wpc[w] = "wait" /\ wexec[w] = rexec[r]
               THEN IF rop[r] = "cancel" THEN "stopped" ELSE "woken"
               ELSE wpc[w]]
  /\ EndHandler(r)
  /\ UNCHANGED <<row, project, cases, flags, queued, wexec, wgate, wtry, tabs, answered, crashes>>

\* The API process dies between two steps of a handler.
HandlerDies(r) ==
  /\ crashes < MaxCrashes
  /\ rpc[r] # "idle"
  /\ EndHandler(r)
  /\ crashes' = crashes + 1
  /\ UNCHANGED <<row, project, cases, flags, queued, slots, tabs, answered>>

\* The user edits an approved case or saves another application URL, which has the cases grounded anew.
EditCases(e) ==
  /\ "edit" \in Hazards
  /\ cases[e] \in {"reviewed", "grounded", "accepted"}
  /\ cases' = [cases EXCEPT ![e] = "changed"]
  /\ UNCHANGED <<row, project, flags, queued, slots, tabs, requests, answered, crashes>>

-----------------------------------------------------------------------------
ClaimAny(w) == \E e \in Exec, a \in Attempts : Claim(w, e, a)

\* What a slot does on its own once it has a job.
Drive(w) ==
  \/ ReadRow(w) \/ StartRun(w) \/ OpenContext(w) \/ LoadGates(w) \/ GroundCases(w)
  \/ EnterStage(w) \/ ShowStage(w) \/ WriteCases(w) \/ Ask(w) \/ Release(w) \/ LaunchBrowser(w)
  \/ CheckFlags(w) \/ Poll(w) \/ TakeMessage(w)
  \/ CloseProject(w) \/ Complete(w) \/ EndJob(w) \/ StopRun(w)

Handle(r) == Grant(r) \/ Mark(r) \/ Signal(r) \/ Publish(r)

User(r) == \E e \in Exec : BeginApprove(r, e) \/ BeginContinue(r, e) \/ BeginCancel(r, e)

Next ==
  \/ \E w \in Worker : ClaimAny(w) \/ Drive(w) \/ RunAgent(w) \/ Throw(w) \/ ThrowUnrecorded(w)
                     \/ WaitTimeout(w) \/ Crash(w)
  \/ \E r \in Request : User(r) \/ Handle(r) \/ HandlerDies(r)
  \/ \E e \in Exec : FlagExpires(e) \/ EditCases(e)

Spec == Init /\ [][Next]_vars

\* Workers and handlers keep going and the wait timer fires; users, faults and
\* crashes owe nothing.
Fairness ==
  /\ \A w \in Worker : WF_vars(Drive(w)) /\ WF_vars(WaitTimeout(w))
  /\ WF_vars(\E w \in Worker : ClaimAny(w))
  /\ \A r \in Request : WF_vars(Handle(r))

FairSpec == Spec /\ Fairness

-----------------------------------------------------------------------------
(* Properties *)

Cleared(g) == \A h \in Released : h < g => h \in approved

(* No slot works past a released gate, and no released gate is approved, unless *)
(* every released gate before it is approved: whatever fails, races or restarts. *)
ReleasedGatesInOrder ==
  /\ \A w \in Worker : wpc[w] # "idle" => Cleared(wgate[w])
  /\ \A g \in approved : Cleared(g)

(* A slot that is past a held gate got there on a human's answer to that gate, *)
(* given after this attempt asked for it.                                      *)
PassedOnAnswer ==
  \A w \in Worker : wpc[w] # "idle" =>
    /\ \A g \in Held : g < wgate[w] => g \in answered[wexec[w]]
    /\ wpc[w] \in {"closing", "done", "ended"} => LastGate \in answered[wexec[w]]

(* schema.prisma: each approval is "required before" the next stage, so no gate *)
(* is approved while an earlier one is not.                                     *)
ApprovalsInOrder ==
  \A g \in approved : \A h \in ApprovalGates : h < g => h \in approved

(* A COMPLETED run was signed off and every gate of it approved. *)
CompletedIsSignedOff ==
  \A e \in Exec : status[e] = "COMPLETED" => ApprovalGates \subseteq approved /\ LastGate \in answered[e]

(* A run has one driver: one slot short of releasing, or one waiting job. *)
OneDriver ==
  \A e \in Exec :
    LET drivers == {w \in Worker : wexec[w] = e /\ wpc[w] # "release"}
        waiting == {a \in Attempts : queued[e][a] > 0}
    IN Cardinality(drivers) + Cardinality(waiting) <= 1 /\ \A a \in waiting : queued[e][a] = 1

(* No slot is past the design gate with cases that design wrote again behind the *)
(* approval, and none is past the data gate with steps that a grounding of the    *)
(* run, and not the user, changed after they were approved there.                 *)
ExecutedCasesApproved ==
  \A w \in Worker : wpc[w] # "idle" =>
    /\ wgate[w] > 1 => cases[wexec[w]] \in {"reviewed", "grounded", "accepted", "changed"}
    /\ wgate[w] > LastReleased => cases[wexec[w]] \in {"accepted", "changed"}

(* While a gate is open and no handler is in flight, the stage shown is not behind it. *)
StageNotBehind ==
  \A e \in Exec :
    status[e] = "AWAITING" /\ (\A r \in Request : rexec[r] # e) => stage >= StageOf(gate[e])

(* executions.service.ts resumeStlc: "a leftover continue-flag would auto-skip later *)
(* waits": while one is set no job is left to meet it, and a slot on the run is       *)
(* waiting at a gate that was answered, or is being stopped.                          *)
NoLeftoverContinue ==
  \A e \in Exec : contFlag[e] =>
    /\ \A a \in Attempts : queued[e][a] = 0
    /\ \A w \in Worker : wexec[w] = e /\ wpc[w] # "release" =>
         \/ wpc[w] \in {"check", "wait", "woken", "stopped"} /\ wgate[w] \in answered[e]
         \/ wpc[w] = "cancelled"

(* "Cancelled by user - freeing worker for other STLC runs": a run that was CANCELLED stays so. *)
CancelledIsFinal ==
  [][\A e \in Exec : status[e] = "CANCELLED" => status'[e] = "CANCELLED"]_vars

(* Browser session flow, step 10: "Browser session destroyed" when the run is over. *)
NoOrphanBrowser == \A w \in Worker : ~orphan[w]

(* A run that is queued or running reaches a gate or an end. *)
RunSettles ==
  \A e \in Exec : status[e] \in {"QUEUED", "RUNNING"} ~> status[e] \notin {"QUEUED", "RUNNING"}

(* A cancel that is being published frees the slot that is on the run, *)
(* whatever the slot is doing at that moment.                          *)
CancelFreesSlot ==
  \A e \in Exec, w \in Worker, r \in Request :
    rpc[r] = "publish" /\ rop[r] = "cancel" /\ rexec[r] = e /\ wexec[w] = e ~> wexec[w] # e

(* No job keeps its slot for ever. *)
SlotFreed == \A w \in Worker : wpc[w] # "idle" ~> wpc[w] = "idle"

(* The gates, released ones whatever happens and all of them when users are *)
(* patient, are granted as the abstract ledger says.                        *)
OpenGates(S) ==
  {g \in S : \/ \E e \in Exec : status[e] = "AWAITING" /\ gate[e] = g
             \/ \E r \in Request : rpc[r] = "grant" /\ rgate[r] = g}

ReleasedLedger == INSTANCE GateLedger
  WITH Gate <- Released, open <- OpenGates(Released), granted <- approved \intersect Released

ApprovalLedger == INSTANCE GateLedger
  WITH Gate <- ApprovalGates, open <- OpenGates(ApprovalGates), granted <- approved

ImplementsReleasedLedger == ReleasedLedger!Spec
ImplementsApprovalLedger == ApprovalLedger!Spec
=============================================================================
