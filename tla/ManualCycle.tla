----------------------------- MODULE ManualCycle -----------------------------
(***************************************************************************)
(* A manual test cycle (an execution of runMode MANUAL) and everything     *)
(* that writes its row: the users' requests, the AI executor of a worker   *)
(* slot, and the local runners that poll the API for a waiting job.  The   *)
(* row has a status and a selection, a JSON column that each of them reads *)
(* and writes back whole.  Results and reports are left out: nothing here  *)
(* reads them.                                                             *)
(***************************************************************************)
EXTENDS Integers

CONSTANTS
  Slots,        \* worker slots that take AI executor jobs
  Runners,      \* local runner processes of the user who runs the cycle
  Requests,     \* API requests that may be in progress at once
  NumCases,     \* cases of an AI execution
  MaxRuns,      \* bound: AI executions the users ask for
  MaxCrashes,   \* bound: deaths of worker slots and local runners
  Hazards       \* what the environment may do: fault, timer

ASSUME CycleAssumption ==
  /\ NumCases \in Nat \ {0}
  /\ MaxRuns \in Nat /\ MaxCrashes \in Nat
  /\ Hazards \subseteq {"fault", "timer"}

VARIABLES
  status, sel,             \* the execution row
  pauseFlag, cancelFlag,   \* the flags in Redis
  jobs,                    \* AI executor jobs waiting in BullMQ
  epc, done,               \* AI executors: step, cases executed
  lpc, lout,               \* local runners: step, and the status their run ends with
  rpc, rop, rsel,          \* requests: step, operation, the selection they will write back
  runs, crashes,           \* bounded counts
  takes,                   \* history: claims since the cycle was last made PENDING
  since,                   \* history: cases each executor began since the pause
  last                     \* history: the last operation to end, or a failure after it

row == <<status, sel>>
flags == <<pauseFlag, cancelFlag>>
executor == <<epc, done, since>>
runner == <<lpc, lout>>
request == <<rpc, rop, rsel>>
bounds == <<runs, crashes>>
vars == <<row, flags, jobs, executor, runner, request, bounds, takes, last>>

Ends == {"COMPLETED", "CANCELLED"}
Statuses == {"PENDING", "RUNNING"} \union Ends

\* runnerTarget (CLOUD is a server job too) and whether claimedByRunnerId is set.
Selections == [target : {"NONE", "LOCAL", "SERVER"}, claimed : BOOLEAN]

\* isWaitingLocalRunner: the row offers a job to the local runners.
Waiting(st, s) == st = "PENDING" /\ s.target = "LOCAL" /\ ~s.claimed

\* assertCycleWritable.
Writable == status \notin Ends

Operations == {"none", "run", "pause", "resume", "edit", "stop", "complete", "LOCAL", "SERVER"}
ExecutorSteps == {"idle", "read", "launch", "check", "hold", "held", "free",
                  "case", "settle", "finish", "cancel"}

TypeOK ==
  /\ status \in Statuses /\ sel \in Selections
  /\ pauseFlag \in BOOLEAN /\ cancelFlag \in BOOLEAN
  /\ jobs \in Nat
  /\ epc \in [Slots -> ExecutorSteps] /\ done \in [Slots -> 0..NumCases]
  /\ lpc \in [Runners -> {"idle", "found", "taken", "work", "finish", "close"}]
  /\ lout \in [Runners -> {"RUNNING", "CANCELLED"}]
  /\ rpc \in [Requests -> {"idle", "reopen", "load", "row", "job", "flag"}]
  /\ rop \in [Requests -> Operations] /\ rsel \in [Requests -> Selections]
  /\ runs \in 0..MaxRuns /\ crashes \in 0..MaxCrashes
  /\ takes \in Nat
  /\ since \in [Slots -> 0..NumCases]
  /\ last \in {"stop", "run", "other", "failure"}

Unset == [target |-> "NONE", claimed |-> FALSE]

\* createTcmsRun: a cycle is created waiting or running.
Init ==
  /\ status \in {"PENDING", "RUNNING"} /\ sel = Unset
  /\ pauseFlag = FALSE /\ cancelFlag = FALSE
  /\ jobs = 0
  /\ epc = [s \in Slots |-> "idle"] /\ done = [s \in Slots |-> 0]
  /\ lpc = [l \in Runners |-> "idle"]
  /\ lout = [l \in Runners |-> "RUNNING"]
  /\ rpc = [q \in Requests |-> "idle"] /\ rop = [q \in Requests |-> "none"]
  /\ rsel = [q \in Requests |-> Unset]
  /\ runs = 0 /\ crashes = 0
  /\ takes = 0 /\ since = [s \in Slots |-> 0]
  /\ last = "other"

SetStatus(st) == status' = st /\ UNCHANGED sel

-----------------------------------------------------------------------------
(* Requests: each reads the row, refuses or goes on, and writes later *)

Begin(q, op, step) ==
  /\ rpc[q] = "idle"
  /\ rpc' = [rpc EXCEPT ![q] = step]
  /\ rop' = [rop EXCEPT ![q] = op]
  /\ rsel' = [rsel EXCEPT ![q] = IF op = "edit" \/ step = "reopen" THEN sel ELSE Unset]
  /\ UNCHANGED <<row, flags, jobs, executor, runner, bounds, takes, last>>

\* startTcmsRun: a waiting offer is left to the local runners.
BeginStart(q) == status = "PENDING" /\ ~Waiting(status, sel) /\ Begin(q, "run", "row")

\* upsertTestResult: the first result moves a PENDING cycle on, waiting or not.
BeginRecord(q) == status = "PENDING" /\ Begin(q, "run", "row")

BeginEdit(q) == Writable /\ Begin(q, "edit", "row")

BeginPause(q) == status = "RUNNING" /\ Begin(q, "pause", "flag")

BeginResume(q) == Writable /\ Begin(q, "resume", "flag")

BeginStop(q) == Writable /\ Begin(q, "stop", "flag")

BeginComplete(q) == status = "RUNNING" /\ Begin(q, "complete", "row")

\* aiExecuteTcmsRun, also on a cycle that is executing already.
BeginExecute(q) ==
  \E target \in {"LOCAL", "SERVER"} :
    runs < MaxRuns /\ Writable /\ Begin(q, target, "row")

\* executeAutomatedScripts on a cycle that is over: resolveLivingAutomationRun reopens it.
BeginReexecute(q) ==
  \E target \in {"LOCAL", "SERVER"} :
    runs < MaxRuns /\ status \in Ends /\ Begin(q, target, "reopen")

Goto(q, step) == rpc' = [rpc EXCEPT ![q] = step] /\ UNCHANGED <<rop, rsel>>

End(q, what) ==
  /\ rpc' = [rpc EXCEPT ![q] = "idle"]
  /\ rop' = [rop EXCEPT ![q] = "none"]
  /\ rsel' = [rsel EXCEPT ![q] = Unset]
  /\ last' = what

\* The reopened row keeps the target of the run before it.
Reopen(q) ==
  /\ rpc[q] = "reopen"
  /\ status' = "PENDING"
  /\ sel' = [rsel[q] EXCEPT !.claimed = FALSE]
  /\ takes' = 0
  /\ Goto(q, "load")
  /\ UNCHANGED <<flags, jobs, executor, runner, bounds, last>>

\* aiExecuteTcmsRun reads the reopened row again.
Load(q) ==
  /\ rpc[q] = "load" /\ Writable
  /\ rpc' = [rpc EXCEPT ![q] = "row"]
  /\ rsel' = [rsel EXCEPT ![q] = Unset]
  /\ UNCHANGED <<row, flags, jobs, executor, runner, bounds, rop, takes, last>>

\* It is refused: no plan quota, no runner online, or the cycle is over again.
Refuse(q) ==
  /\ rpc[q] = "load"
  /\ End(q, "other")
  /\ UNCHANGED <<row, flags, jobs, executor, runner, bounds, takes>>

\* a start or a result, and complete, write the status; edit writes back the selection it read.
WriteRow(q) ==
  /\ rpc[q] = "row" /\ rop[q] \in {"run", "complete", "edit"}
  /\ \/ rop[q] = "run" /\ SetStatus("RUNNING")
     \/ rop[q] = "complete" /\ SetStatus("COMPLETED")
     \/ rop[q] = "edit" /\ sel' = rsel[q] /\ UNCHANGED status
  /\ End(q, "other")
  /\ UNCHANGED <<flags, jobs, executor, runner, bounds, takes>>

\* aiExecuteTcmsRun makes the row PENDING for its target.
Offer(q) ==
  /\ rpc[q] = "row" /\ rop[q] \in {"LOCAL", "SERVER"}
  /\ runs < MaxRuns
  /\ runs' = runs + 1
  /\ status' = "PENDING"
  /\ sel' = [target |-> rop[q], claimed |-> FALSE]
  /\ takes' = 0
  /\ Goto(q, IF rop[q] = "SERVER" THEN "job" ELSE "flag")
  /\ UNCHANGED <<flags, jobs, executor, runner, crashes, last>>

Enqueue(q) ==
  /\ rpc[q] = "job"
  /\ jobs' = jobs + 1
  /\ Goto(q, "flag")
  /\ UNCHANGED <<row, flags, executor, runner, bounds, takes, last>>

\* publishPause, and clearPause of a resume or at the end of an execute.
WritePause(q) ==
  /\ rpc[q] = "flag" /\ rop[q] \in {"pause", "resume", "LOCAL", "SERVER"}
  /\ pauseFlag' = (rop[q] = "pause")
  /\ since' = [s \in Slots |-> 0]
  /\ End(q, IF rop[q] \in {"LOCAL", "SERVER"} THEN "run" ELSE "other")
  /\ UNCHANGED <<row, cancelFlag, jobs, epc, done, runner, bounds, takes>>

\* stopTcmsRun: publishCancel first, then the row, whatever it is by now.
StopSignal(q) ==
  /\ rpc[q] = "flag" /\ rop[q] = "stop"
  /\ cancelFlag' = TRUE
  /\ Goto(q, "row")
  /\ UNCHANGED <<row, pauseFlag, jobs, executor, runner, bounds, takes, last>>

StopRow(q) ==
  /\ rpc[q] = "row" /\ rop[q] = "stop"
  /\ SetStatus("CANCELLED")
  /\ End(q, "stop")
  /\ UNCHANGED <<flags, jobs, executor, runner, bounds, takes>>

-----------------------------------------------------------------------------
(* The AI executor: runAiExecuteJob on a worker slot *)

\* An idle slot keeps nothing of its last job.
ExecutorGoto(s, step) ==
  /\ epc' = [epc EXCEPT ![s] = step]
  /\ done' = IF step = "idle" THEN [done EXCEPT ![s] = 0] ELSE done
  /\ since' = IF step = "idle" THEN [since EXCEPT ![s] = 0] ELSE since
ExecutorOnly == UNCHANGED <<flags, runner, request, bounds, takes>>

TakeJob(s) ==
  /\ epc[s] = "idle" /\ jobs > 0
  /\ jobs' = jobs - 1
  /\ ExecutorGoto(s, "read")
  /\ UNCHANGED <<row, last>> /\ ExecutorOnly

\* Slip: only a RUNNING cycle is executed.
ReadCycleRunning(s) ==
  /\ epc[s] = "read"
  /\ ExecutorGoto(s, IF status = "RUNNING" THEN "launch" ELSE "idle")
  /\ UNCHANGED <<row, jobs, last>> /\ ExecutorOnly

\* A job of a cycle that is over is dropped.
ReadCycle(s) ==
  /\ epc[s] = "read"
  /\ ExecutorGoto(s, IF status \in Ends THEN "idle" ELSE "launch")
  /\ UNCHANGED <<row, jobs, last>> /\ ExecutorOnly

\* The status is not read again, however long the browser took.
StartCases(s) ==
  /\ epc[s] = "launch"
  /\ SetStatus("RUNNING")
  /\ ExecutorGoto(s, "check")
  /\ UNCHANGED <<jobs, last>> /\ ExecutorOnly

\* throwIfCancelled, before the pause is looked at.
CheckCancel(s) ==
  /\ epc[s] = "check"
  /\ ExecutorGoto(s, IF cancelFlag THEN "cancel" ELSE "hold")
  /\ UNCHANGED <<row, jobs, last>> /\ ExecutorOnly

\* waitWhilePaused reads the pause-flag, then the cancel-flag.
Hold(s) ==
  /\ epc[s] = "hold"
  /\ ExecutorGoto(s, IF pauseFlag THEN "held" ELSE "free")
  /\ UNCHANGED <<row, jobs, last>> /\ ExecutorOnly

\* Slip: a paused executor waits for the resume alone.
HeldUntilResume(s) ==
  /\ epc[s] = "held"
  /\ ExecutorGoto(s, "hold")
  /\ UNCHANGED <<row, jobs, last>> /\ ExecutorOnly

Held(s) ==
  /\ epc[s] = "held"
  /\ ExecutorGoto(s, IF cancelFlag THEN "cancel" ELSE "hold")
  /\ UNCHANGED <<row, jobs, last>> /\ ExecutorOnly

\* The cancel-flag is read twice more, and the next case begins.
BeginCase(s) ==
  /\ epc[s] = "free"
  /\ IF cancelFlag THEN ExecutorGoto(s, "cancel")
     ELSE /\ epc' = [epc EXCEPT ![s] = "case"]
          /\ since' = [since EXCEPT ![s] = IF pauseFlag THEN @ + 1 ELSE 0]
          /\ UNCHANGED done
  /\ UNCHANGED <<row, jobs, last>> /\ ExecutorOnly

\* Slip: there is always one more case.
CaseDoneNoEnd(s) ==
  /\ epc[s] = "case"
  /\ done' = [done EXCEPT ![s] = @ + 1]
  /\ epc' = [epc EXCEPT ![s] = "check"]
  /\ UNCHANGED <<row, jobs, last, since>> /\ ExecutorOnly

\* Slip: flags are looked at before the first case only.
CaseDoneRunsOn(s) ==
  /\ epc[s] = "case"
  /\ done' = [done EXCEPT ![s] = @ + 1]
  /\ epc' = [epc EXCEPT ![s] = IF done'[s] = NumCases THEN "settle" ELSE "free"]
  /\ UNCHANGED <<row, jobs, last, since>> /\ ExecutorOnly

CaseDone(s) ==
  /\ epc[s] = "case"
  /\ done' = [done EXCEPT ![s] = @ + 1]
  /\ epc' = [epc EXCEPT ![s] = IF done'[s] = NumCases THEN "settle" ELSE "check"]
  /\ UNCHANGED <<row, jobs, last, since>> /\ ExecutorOnly

\* After the cases the status is read, and written in a later step.
Settle(s) ==
  /\ epc[s] = "settle"
  /\ ExecutorGoto(s, CASE status = "CANCELLED" -> "cancel"
                       [] status = "COMPLETED" -> "idle"
                       [] OTHER                -> "finish")
  /\ UNCHANGED <<row, jobs, last>> /\ ExecutorOnly

\* A stopped executor writes CANCELLED over anything.
WriteCancelled(s) ==
  /\ epc[s] = "cancel"
  /\ SetStatus("CANCELLED")
  /\ ExecutorGoto(s, "idle")
  /\ UNCHANGED <<jobs, last>> /\ ExecutorOnly

\* Slip: the last update does not name the statuses it may replace.
WriteFinishedAnyway(s) ==
  /\ epc[s] = "finish"
  /\ SetStatus("RUNNING")
  /\ ExecutorGoto(s, "idle")
  /\ UNCHANGED <<jobs, last>> /\ ExecutorOnly

\* The cycle stays RUNNING, for a human to complete.
WriteFinished(s) ==
  /\ epc[s] = "finish"
  /\ IF status \in Ends THEN UNCHANGED row ELSE SetStatus("RUNNING")
  /\ ExecutorGoto(s, "idle")
  /\ UNCHANGED <<jobs, last>> /\ ExecutorOnly

\* No cases or URL, no browser, or a throw between cases: RUNNING with an error text.
ExecutorFails(s) ==
  /\ "fault" \in Hazards
  /\ epc[s] \in {"launch", "check", "hold", "held", "free", "case"}
  /\ SetStatus("RUNNING")
  /\ ExecutorGoto(s, "idle")
  /\ last' = "failure"
  /\ UNCHANGED jobs /\ ExecutorOnly

\* A throw outside both try blocks writes nothing: the start update, the report, the last read.
ExecutorThrows(s) ==
  /\ "fault" \in Hazards
  /\ epc[s] \in {"read", "launch", "settle", "cancel", "finish"}
  /\ ExecutorGoto(s, "idle")
  /\ last' = "failure"
  /\ UNCHANGED <<row, jobs>> /\ ExecutorOnly

\* The worker dies; BullMQ finds the job stalled and hands it out again.
ExecutorCrash(s) ==
  /\ epc[s] # "idle" /\ crashes < MaxCrashes
  /\ crashes' = crashes + 1
  /\ jobs' = jobs + 1
  /\ ExecutorGoto(s, "idle")
  /\ UNCHANGED <<row, flags, runner, request, runs, takes, last>>

-----------------------------------------------------------------------------
(* Local runners: claimNext, heartbeat, recordCaseEvent and completeJob *)

RunnerGoto(l, step) ==
  /\ lpc' = [lpc EXCEPT ![l] = step]
  /\ lout' = IF step = "idle" THEN [lout EXCEPT ![l] = "RUNNING"] ELSE lout
RunnerOnly == UNCHANGED <<flags, jobs, executor, request, bounds, last>>

\* claimNext reads the candidates (expireWaitingLocalJobs changes no status).
Find(l) ==
  /\ lpc[l] = "idle" /\ Waiting(status, sel)
  /\ RunnerGoto(l, "found")
  /\ UNCHANGED <<row, takes>> /\ RunnerOnly

\* Slip: the claim names the row and not its status.
ClaimAnyway(l) ==
  /\ lpc[l] = "found"
  /\ SetStatus("RUNNING")
  /\ takes' = takes + 1
  /\ RunnerGoto(l, "taken")
  /\ RunnerOnly

\* The claim is a conditional update of the status.
Claim(l) ==
  /\ lpc[l] = "found"
  /\ IF status = "PENDING"
     THEN SetStatus("RUNNING") /\ takes' = takes + 1 /\ RunnerGoto(l, "taken")
     ELSE UNCHANGED <<row, takes>> /\ RunnerGoto(l, "idle")
  /\ RunnerOnly

\* claimNext and completeJob read a selection for LOCAL, and put it back with the runner in it.
Claimed == [target |-> "LOCAL", claimed |-> TRUE]

WriteClaim(l) ==
  /\ lpc[l] = "taken"
  /\ sel' = Claimed
  /\ UNCHANGED status
  /\ RunnerGoto(l, "work")
  /\ UNCHANGED takes /\ RunnerOnly

\* The cases.  A heartbeat between two of them sees a stop; the run ends as well after
\* the last case, by a failure, and when recordCaseEvent refuses a result.
EndWork(l) ==
  /\ lpc[l] = "work"
  /\ lpc' = [lpc EXCEPT ![l] = "finish"]
  /\ \E outcome \in {"RUNNING"} \union (IF status = "CANCELLED" THEN {status} ELSE {}) :
       lout' = [lout EXCEPT ![l] = outcome]
  /\ UNCHANGED <<row, takes>> /\ RunnerOnly

\* completeJob reads the row; a refusal is swallowed by the runner.
BeginClose(l) ==
  /\ lpc[l] = "finish"
  /\ RunnerGoto(l, IF status \in Ends \/ sel.target # "LOCAL" THEN "idle" ELSE "close")
  /\ UNCHANGED <<row, takes>> /\ RunnerOnly

\* Slip: completeJob updates the row by its id alone.
CloseAnyway(l) ==
  /\ lpc[l] = "close"
  /\ status' = lout[l] /\ sel' = Claimed
  /\ RunnerGoto(l, "idle")
  /\ UNCHANGED takes /\ RunnerOnly

\* Its update spares a cycle that was completed or stopped in between.
Close(l) ==
  /\ lpc[l] = "close"
  /\ IF status \in Ends THEN UNCHANGED row ELSE status' = lout[l] /\ sel' = Claimed
  /\ RunnerGoto(l, "idle")
  /\ UNCHANGED takes /\ RunnerOnly

\* The runner is closed, or its last call is lost: nobody takes the job over.
RunnerCrash(l) ==
  /\ lpc[l] # "idle" /\ crashes < MaxCrashes
  /\ crashes' = crashes + 1
  /\ RunnerGoto(l, "idle")
  /\ UNCHANGED <<row, flags, jobs, executor, request, runs, takes, last>>

-----------------------------------------------------------------------------

\* Both flags expire after an hour, far longer than a stop takes to write the row.
\* The expiry of a pause is a resume; that of a cancel has no other name.
FlagExpires ==
  /\ "timer" \in Hazards
  /\ \A q \in Requests : rpc[q] = "row" => rop[q] # "stop"
  /\ cancelFlag /\ cancelFlag' = FALSE /\ UNCHANGED pauseFlag
  /\ last' = "failure"
  /\ UNCHANGED <<row, jobs, executor, runner, request, bounds, takes>>

UserStep(q) ==
  \/ BeginStart(q) \/ BeginRecord(q) \/ BeginEdit(q) \/ BeginPause(q) \/ BeginResume(q)
  \/ BeginStop(q) \/ BeginComplete(q) \/ BeginExecute(q) \/ BeginReexecute(q)

HandlerStep(q) ==
  \/ Reopen(q) \/ Load(q) \/ Refuse(q) \/ WriteRow(q) \/ Offer(q) \/ Enqueue(q)
  \/ WritePause(q) \/ StopSignal(q) \/ StopRow(q)

ExecutorStep(s) ==
  \/ TakeJob(s) \/ ReadCycle(s) \/ StartCases(s)
  \/ CheckCancel(s) \/ Hold(s) \/ Held(s) \/ BeginCase(s) \/ CaseDone(s)
  \/ Settle(s) \/ WriteCancelled(s) \/ WriteFinished(s)

RunnerStep(l) ==
  \/ Find(l) \/ Claim(l) \/ WriteClaim(l) \/ EndWork(l) \/ BeginClose(l) \/ Close(l)

Next ==
  \/ \E q \in Requests : UserStep(q) \/ HandlerStep(q)
  \/ \E s \in Slots : ExecutorStep(s) \/ ExecutorFails(s) \/ ExecutorThrows(s) \/ ExecutorCrash(s)
  \/ \E l \in Runners : RunnerStep(l) \/ RunnerCrash(l)
  \/ FlagExpires

Spec == Init /\ [][Next]_vars

\* A worker slot and a handler go on; users, local runners and failures need not happen.
Fairness ==
  /\ \A q \in Requests : WF_vars(HandlerStep(q))
  /\ \A s \in Slots : WF_vars(ExecutorStep(s))

-----------------------------------------------------------------------------
(* Properties *)

\* claimNext: several runner processes poll at once and a cycle is offered again and
\* again, but of each time it is made PENDING at most one runner makes it its own.
OneRunnerPerOffer == takes <= 1

\* pauseTcmsRun with waitWhilePaused: a pause lets an executor begin at most the one case
\* it was about to begin.
PauseHolds == \A s \in Slots : pauseFlag => since[s] <= 1

\* completeJob and claimNext: what a local runner does never takes a cycle out of
\* COMPLETED or CANCELLED, though it reads the row long before it writes it.
RunnersSpareEnds ==
  [][(status \in Ends /\ UNCHANGED <<request, executor>>) => status' = status]_vars

\* publishCancel with throwIfCancelled and waitWhilePaused: a stop ends the executor that
\* is on the cycle, also one that is paused.
StopEndsExecutor ==
  \A s \in Slots : (cancelFlag /\ epc[s] # "idle") ~> (epc[s] = "idle" \/ ~cancelFlag)

\* runAiExecuteJob: a cycle that was queued for the server does not stay PENDING.
RunLeavesQueue == (status = "PENDING" /\ jobs > 0) ~> (status # "PENDING" \/ last = "failure")

\* stopTcmsRun: a cycle whose last request was a stop ends up CANCELLED whatever executor
\* and runners were doing, unless an executor fails or the flag expires afterwards.
StopWins == <>[](last = "stop") => <>[](status = "CANCELLED")

\* resolveLivingAutomationRun, on a cycle in progress: "Pause/stop it or wait before
\* re-executing".  Once a stopped cycle is executed again, it is not cancelled unless
\* someone stops it again.
FreshRunNotStopped ==
  [][(last = "run" /\ last' = "run" /\ \A q \in Requests : rop[q] # "stop")
       => (status' = "CANCELLED" => status = "CANCELLED")]_vars
=============================================================================
