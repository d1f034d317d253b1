# QAForge STLC pipeline: a verification project

QAForge runs a software-testing life cycle (STLC) for a web application. An API
(`apps/api`, NestJS) and a worker (`apps/worker`, BullMQ) share a PostgreSQL
database and Redis. A run goes through stages that agents carry out, and after
each stage a human approves, continues or cancels. What is hard is that a
run is driven from two sides: the worker is inside a stage or blocked in a wait,
the API changes the same rows, enqueues jobs and publishes messages, and neither
takes a lock.

Around the pipeline stand services of the same kind: requirement review, clarification,
AI generate runs, manual cycles with their executors, the case library and its healing
scripts, plan limits and the Stripe subscription. Each is a set of handlers and jobs
that read, work for a while, and write.

The modules here model these protocols, TLC checks them on small instances, and the
TLA+ proof system proves the central parts for every instance.

## 1. The system's parts

| part | state it keeps | operations | what makes it correct |
|---|---|---|---|
| executions API (`apps/api/src/executions/executions.service.ts`) | `execution.status`, the project's `*ApprovedAt` columns, `project.stlcStage` | nine `approve*` handlers, `continueAfterLogin`, `cancel`, `clarify`, `create` | a gate is granted only when it was asked, in order; a cancel is final |
| job queue (`apps/api/src/queue/queue.service.ts`) | BullMQ queue `executions`, flags and channels in Redis | `enqueueRunExecution`, `publishContinue`, `publishCancel`, `publishClarify`, pause | a signal is neither lost nor left over |
| worker loop (`apps/worker/src/main.ts`) | BullMQ slots | claim, skip a finished run, release the slot, retry | a run has one driver; slots are given back |
| STLC orchestrator (`apps/worker/src/phase1-orchestrator.ts`) | position in the pipeline, browser session, test-case rows | stages 1 to 10, ask, release, wait, complete, fail | passes a gate only on an answer; a run settles |
| Redis signals (`apps/worker/src/redis.ts`) | `continue-flag`, `cancel-flag`, channel, subscription | `waitForContinueSignal`, `waitForClarifySignal`, `throwIfCancelled`, `waitWhilePaused` | an answer ends its own wait, cancel wins |
| browser sessions (`packages/browser-session/src/manager.ts`) | open browsers by session | launch, signal, destroy | no browser outlives its run |
| STLC start, next cycle (`phase1.service.ts` `start`, `stlc.service.ts` `startNextCycle`) | executions of a project, approvals | create, reset gates, enqueue | one active run of a project; old approvals do not count |
| clarification loop (orchestrators, `clarify`, `waitForClarifySignal`) | `clarify-flag`, rounds of questions | ask, answer or skip, wait, resume | an answer carries the run on; a run waits only for a question that is open |
| manual cycles (`phase1.service.ts`), AI executor (`ai-execute-job.ts`), local runners (`runners.service.ts`) | `MANUAL` executions, results, `selection` JSON, runner tokens | start, pause, stop, record, complete, claim, expire | a completed cycle is not reopened; one runner per job |
| automated scripts and healing (`failure-pipeline.ts`, `qa-agent-router.ts`, `recordCaseEvent`) | script rows with `stability`, `healCount`, action log; heal logs | record, replay, heal, quarantine, approve or reject a heal, clear, re-record | heals without a human are bounded; a quarantine holds |
| test case library (`phase1.service.ts`, `ground-cases-job.ts`) | case rows with `caseStatus` and `readyForExecution` | create, edit, mark, import, apply, ground, select, execute | what runs as READY is what a human made READY |
| AI generate runs (`ai-generate-job.ts`, `ai-generate-run.processor.ts`) | run, suggestions, library cases | start, generate inline or in a job, decide, apply | one generation on show; decisions are not lost |
| requirement extraction and review (`requirement-*.service.ts`) | requirement rows, questions, conflicts, `analysisStatus`, `requirementsApprovedAt` | extract, edit, import, review all or one, answer, approve, reject | approved means analysed as it stands |
| plan limits and billing (`plan-usage.service.ts`, `billing.service.ts`) | usage events, the subscription row | check, record; Stripe's webhooks | the quota holds up to what overlaps; the plan follows Stripe |
| phase documents (`stlc-phase-docs.ts`, `stlc.service.ts`) | one JSON column | persist, edit, accept | not modelled (section 5) |
| organisations, artifacts, reports, integrations, agents, event stream, web UI | rows of their own, or none | see `PROJECT.json` | not modelled (section 5) |

How they interact: a handler reads the execution row, refuses it unless it awaits
the handler's gate, updates the project, updates the execution, and then signals
the worker. The signal depends on the gate:

* At a **released** gate (design, environment, data) the worker has thrown
  `AwaitingHumanError` and its job has completed. The handler enqueues a fresh job,
  which starts the orchestrator from the top; gates that are approved are skipped.
* At a **held** gate (login, execution results, defects, automation, report,
  sign-off) the worker still owns its slot, and its browser, and is inside
  `waitForContinueSignal`. The handler sets a durable flag in Redis and publishes a
  message. The worker consumes whichever it sees first.

A cancel writes `CANCELLED` and signals like a held gate. Every status write is an
unconditional `update`, by the worker as well as by the API.

The hard behaviours, with the line where each bites and the property that
covers it, are the `hazards` of `PROJECT.json`.

## 2. The modules

| module | what it is |
|---|---|
| `GateLedger` | abstract specification: a gate is put to a human only after every earlier gate is granted, and only such a gate is granted |
| `StlcRun` | the pipeline: API handlers, queue, flags, worker slots, browsers, one step per write |
| `ContinueSignal` | `waitForContinueSignal`, one step per Redis command, reply and message |
| `ProjectCycles` | the runs of one project: start, next cycle, approvals on the project row, withdrawal, and the death of a handler between two of its writes |
| `Clarification` | rounds of questions of an STLC run, the single wait of a FULL run, and the handlers of both routes |
| `RequirementReview` | requirements from extraction to approval, one step per query |
| `AiGenerateRun` | one AI generate run, its job, its suggestions and what becomes of them |
| `ManualCycle` | a manual test cycle: user requests, AI executor, local runners, one step per write |
| `ScriptHealing` | the automated script of one case: replays, heals, quarantine, LEAD decisions |
| `CaseLibrary` | one test case: its two readiness columns, edits, grounding, selection, execution |
| `PlanUsage` | the monthly limit of one usage type: checked first, recorded last |
| `Subscription` | the plan of an organisation and Stripe's webhooks |
| `MCStlcRun`, `MCProjectCycles` | symmetry, a view and constraints for TLC |
| `MCManualCycle` | two environments of `ManualCycle`, one chosen by each behaviour |
| `MCSettles` | four environments of `StlcRun` under one fairness assumption, one chosen by each behaviour |
| `MCServices` | `ContinueSignal`, `PlanUsage`, `ScriptHealing`, `CaseLibrary`, `RequirementReview`, `AiGenerateRun`, `Clarification` and `Subscription`, which it extends, and further instances of them |
| `GateLedgerProofs`, `StlcRunProofs`, `StlcGatesProofs` | the ledger's invariant; the pipeline's types and released gates; its held gates (section 4) |
| `ProjectCyclesProofs`, `ManualCycleProofs` | theorems of these two modules |
| `AnswerProofs` | theorems of `ContinueSignal`, `Clarification` and `RequirementReview` |
| `BillingProofs`, `LibraryProofs` | theorems of `PlanUsage` and `Subscription`; of `CaseLibrary`, `AiGenerateRun` and `ScriptHealing` |

`MCSettles`, `MCManualCycle` and `MCServices` choose a *subject* in their initial state and let only the subject
act. The subjects share no row, key or slot (slots are shared in the code; a slot that is busy
elsewhere is one that takes no step yet), so their product would add states and no
behaviour. Where two parts do share rows they are in one module: the runs of a
project in `ProjectCycles`, server jobs and laptops on one script in `ScriptHealing`, requests,
executor and runners of a cycle in `ManualCycle`.

### StlcRun

Gates are numbered in pipeline order: 1 design, 2 environment, 3 data (the
released ones), 4 login, 5 execution results, 6 defects, 7 automation, 8 report,
9 sign-off (the held ones). `LastReleased` and `LastGate` are constants, so that
smaller pipelines of the same shape can be checked; in the code they are 3 and 9.

| variable | in the code |
|---|---|
| `status`, `gate` | `execution.status`; every `AWAITING_*` is `"AWAITING"` with the gate it names |
| `approved` | the project's `*ApprovedAt` columns (login has none) |
| `stage` | `project.stlcStage` |
| `cases` | what was last done to the steps of the execution's `testCase` rows: `"none"`, `"draft"` (design wrote them), `"reviewed"` (design approved), `"grounded"` (rewritten for the application's pages), `"accepted"` (approved as grounded, at the data gate), `"changed"` (by the user, after an approval) |
| `contFlag`, `cancelFlag` | the Redis keys of the same names |
| `queued` | waiting BullMQ jobs, by execution and attempt |
| `wpc`, `wexec`, `wgate`, `wtry` | a worker slot: where it is in `processJob` and `runStlcExecution`, for which run, towards which gate, at which attempt |
| `browser`, `orphan` | the job has a browser; an earlier job of the slot left one open |
| `rpc`, `rop`, `rexec`, `rgate` | an API request between two of its awaits |
| `answered` | history: gates a human answered since they were last asked |

The worker's steps in the order of the code: `Claim`, `ReadRow` (skip a run that is
over), `StartRun`, `OpenContext`, `LoadGates` (skip approved gates), `GroundCases`, the
stage's `RUNNING` and its `stlcStage` (`EnterStage`, `ShowStage`), `RunAgent`, `WriteCases`,
`Ask`, then `Release` at a released gate, or `LaunchBrowser` and `CheckFlags`, `Poll`,
`TakeMessage` at a held one. After the last one come the project's `DONE`, the execution's
`COMPLETED` and the end of the job (`CloseProject`, `Complete`, `EndJob`); a throw of the emit
in between writes `FAILED` over `COMPLETED`. Other ends are `StopRun`, `Throw` (the `catch` block writes `FAILED`) and
`ThrowUnrecorded` (a call before the `try` block throws, or the `catch` block's own update: the row
stays as it is). A handler is
`BeginApprove`, `BeginContinue` or `BeginCancel` (read and check), `Grant` (project
row), `Mark` (execution row), `Signal` (job or flag) and `Publish` (message).
`Crash` is the death of a worker, after which BullMQ finds the job stalled;
`HandlerDies` is the death of the API inside a handler.

*Grounding.* `runStlcExecution` calls `groundExecutionCases` twice (lines 844 and 961), on the way to
the data gate and, in the job that follows its approval, on the way to the login. It rewrites steps and
preconditions of the rows the design approval was given for, and leaves alone a row that is grounded and mentions the
application's URL; so under one URL the second call changes nothing, and a job has one step `GroundCases`, before
the data stage if that gate is open and after it if not. The data approval is thus the one that covers the steps
that are executed. It is refused without a usable URL (lines 424-433), so a run passes the data gate with
rows no grounding has touched only if a URL is saved while the gate is open. Saving one, the first or another, and
editing a case are the user's doing: the hazard `edit`, after which the rows are `"changed"`. The code asks the user to wait
for the grounding that follows ("wait for cases to update, review Ready, then Accept") and does
not enforce it: who accepts earlier has the run execute steps that were rewritten after the acceptance. What else an edit
does to a row is the subject of `CaseLibrary`.

`Hazards` selects what the environment may do, so that a property can be
checked under the weakest assumptions it holds under:

| hazard | meaning |
|---|---|
| `fault` | an agent or a database call of a stage throws |
| `edge` | a throw before the `try` block, in the `catch` block, or between asking a gate and waiting at it |
| `timer` | the one-hour TTL of the flags and the 30 minute wait |
| `cancel` | the user may cancel |
| `impatient` | Continue is pressed before the browser is up or while the run is `RUNNING` |
| `slow` | a handler may still be in flight when the run reaches its next gate |
| `overlap` | a request for a run comes while another one for it is in flight |
| `edit` | the user edits a case that was approved, or saves another application URL |

Without `slow`, a stage (minutes of agent work) outlasts the tail of the handler
that started it (two Redis commands); without `overlap`, one person at a time acts on a run. Both are
assumptions of the code, not guarantees: a handler that has set the flag and not yet
published wakes the worker at the next gate. The released gates and the freeing of slots are
checked under every hazard, the effect of a cancel with `fault cancel slow`; section 3 says what
each hazard breaks of the rest.

### ContinueSignal

`StlcRun` takes a check of the flags, a poll and a message to be one step each.
`ContinueSignal` is one run with all of that spelled out: commands travel on the
worker's shared connection in order and are executed one at a time, replies come
back in order, `SUBSCRIBE` takes time, a message that is published before it is
lost, and the poll sends two `GETDEL`s whose replies arrive when they arrive,
possibly after the wait is over. `publishEvent` uses the same connection and is
awaited between waits; that round trip is what drains the commands of a wait that
has ended (`NoStaleCommand`), and an un-awaited `publishEvent` would break it.

### ManualCycle

A manual cycle is a row with a status and a selection, a JSON column that requests and
runners read and write back whole. It shares the queue and the flags with the pipeline
and nothing else, so it is a module of its own.

| variable | in the code |
|---|---|
| `status`, `sel` | `execution.status`; `runnerTarget` of the selection and whether `claimedByRunnerId` is set |
| `pauseFlag`, `cancelFlag` | the Redis keys; the AI executor reads them and deletes neither |
| `jobs` | waiting `ai-execute-run` jobs |
| `epc`, `done` | a worker slot inside `runAiExecuteJob`, and the cases it has executed |
| `lpc`, `lout` | a local runner between its API calls, and the status its run will end with |
| `rpc`, `rop`, `rsel` | a request between two of its awaits, its operation, the selection it will write back |
| `takes`, `since`, `last` | history: claims of the current offer, cases begun under a pause, the last operation to end or a failure after it |

`ReadCycle`, `StartCases`, `CheckCancel`, `Hold`, `Held`, `BeginCase`, `CaseDone`,
`Settle`, `WriteFinished` and `WriteCancelled` follow `runAiExecuteJob`; `Find`, `Claim`,
`WriteClaim`, `EndWork`, `BeginClose` and `Close` follow `claimNext`, the runner's loop and
`completeJob`. A re-execution of a cycle that is over first reopens it (`Reopen`), then
reads it again (`Load`) and may be refused there (`Refuse`), which leaves it `PENDING`.
A first result and a start have the same effect and differ in whether they spare a
cycle that waits for a local runner. An expired pause is a resume, so only the expiry of
the cancel-flag is a step.

### ProjectCycles

`start` looks for an active execution and creates one several awaits later; `startNextCycle`
creates the row, copies the cases one by one, updates the project, and enqueues. Approvals are
columns of the project, not of a run, so one set of them serves every run in turn.

| variable | in the code |
|---|---|
| `status`, `cycle`, `parent`, `made` | the execution rows of the project, oldest first |
| `cases` | `testCase` rows of a run: the run whose design wrote them, and whether the copy is whole |
| `currentCycle`, `required`, `approval` | project columns; `approval[g]` is the run that was asked, which the code does not record |
| `jobs`, `driving`, `tries` | BullMQ job, slot and failed attempts of a run |
| `pc`, `run`, `seen` | a request between two awaits, and the row it read |
| `settled`, `revived`, `crossed`, `lost` | history: what each property excuses |

`StartFresh`, `StartAgain`, `DropDuplicates`, `Resume`, `Create` and `Reset` follow `start`; `NextLoad`,
`NextCheck`, `Branch`, `CopyFirst`, `CopyRest` and `Advance` follow `startNextCycle`; `Enqueue` ends both.
`Approve` is a whole approval (its steps are `StlcRun`'s subject), `Withdraw`, `ClearAll` and
`ApproveRequirements` what the requirement routes do to the same columns, `Die` an API
process that ends inside a handler. `Take`, `Design`, `Prepare`, `Execute` and `Fail` are the worker.

### Clarification

`Mode` selects the pipeline. An STLC run writes its status, then a row for the round, then throws
`AwaitingHumanError` and gives its slot back; the handler that takes an answer marks the row,
sets `RUNNING`, sets the flag, publishes, and enqueues (`AnswerRounds`, `MarkRunning`, `SetClarifyFlag`, `PublishClarify`, `Resume`). The new job walks the
rounds from the first (`FindAnswered`, `FindOpen`, `FindNone`). A FULL run asks once and blocks in
`waitForClarifySignal` (`Check`, `Poll`, `Timeout`); the same handler also enqueues a job for it,
which the models have too. The project's own route (`ClarifyProject`) publishes and enqueues
nothing: it is a hazard of its own, because an STLC run that has given its slot back does not hear it.

### RequirementReview

`review`, `stale`, `question` and `listed` are the rows, `conflict` the conflicts by pair of requirements, `analysis`, `counted` and `approved` the
project's columns, `foreign` the maps the service keeps between its methods. `ReviewBegin` to
`ReviewComplete` follow `runReviewAll`, and `ReviewReport` what is left of the `try` block after `COMPLETED`: audit line, summary, phase
document, where a throw still turns `COMPLETED` into `FAILED`. `ReviewThrows` and `RecordFailure` are the `catch` block, `FailUnrecorded` the
same block when its own update throws; `reviewOne`, `answerQuestion`,
`createManual`, `updateManual`, `deleteManual`, `clearAll`, `ExtractReplace` and `jiraImport` the other
routes; `MarkRead` and `MarkWrite` are `markProjectAnalysisStale`. What an analysis finds is a free
choice; `fresh` records whether it saw the text the row has now.

### AiGenerateRun

The worker deletes the old suggestions, inserts the new ones and marks the run READY in three writes
(`DeleteOld`, `InsertNew`, `MarkReady`); the API's inline copy does it in a transaction
(`ReplaceInline`). `CrashSlot` is a death after which BullMQ delivers once more, `Stall` the same with a
slot that is still alive. `FailRun` is a throw inside the `try` block, which ends in `FAILED` and a job that has returned; `LoseRun` one
of the claim's queries before it, or of the `catch` block's update: the job fails on its only attempt and the run is
left as it was. `FindSuggestion` and `DecideSuggestion` are the two queries of a PATCH.

### ScriptHealing

A server job reads the row when it comes to the case; a runner works with the payload it got when it
claimed the job (`Snapshot`, `Known`), by which it also skips a quarantined case. A replay works for minutes on that copy (`copy`), then writes over the row as it is by
then. A server job writes the heal log first and increments `healCount` (`ServerLogs`,
`ServerWrites`); a runner's report sets `healCount` to its copy's plus one and writes the log after
(`LaptopReports`, `LaptopLogs`). `runFailurePipeline` is `routeQaAgent`'s ladder: one rule heal, then
proposals of the language model, then quarantine. `decideHeal`, `RecordDecision` and `ApplyDecision`
are a LEAD's decision, `clearQuarantine` and `rerecordScript` the two resets. `auto` counts rule
heals committed with no human since `healCount` was last zero.

### CaseLibrary

One case `tc` with `caseStatus` and `readyForExecution`, which most writers set together and some do
not: the grounding clears only the older column, the copy of a next cycle takes only that one, and the pipeline reads only that one. A case comes into
being by a user, an import, an applied suggestion, the design stage of a run (`designStage`) or the copy (`startNextCycle`). `BeginUpdate`
and `updateTestCase` are the two halves of an edit, `resolveRunCaseIds` and `createTcmsRun` of a
selection, `GroundRead` and `GroundWrite` of a grounding. `marked` is the text a human last made READY,
`excused` whether a write overlapped another since, a grounding rewrote the steps, or nobody but the design agent called the case ready. A
case that is deleted for good leaves nothing of its row.

### PlanUsage and Subscription

`PlanUsage` has `assertPlanLimit`, the operation and `recordUsage` as three steps, or two where
`executions.create` records in its transaction; `startAiGenerateRun` checks and never records.
`Subscription` keeps Stripe's subscriptions beside the one row that names one of them; an event
carries the state of the moment it was sent, comes late, and comes again when the answer to it
was lost.

## 3. What TLC checks

| run | instance | properties | shows |
|---|---|---|---|
| `storm` | 1 execution, 2 slots, 2 requests, 2 released and 2 held gates, 1 attempt, 1 crash, every hazard; at most three of slots and requests busy | `ReleasedGatesInOrder`, `ImplementsReleasedLedger` | whatever fails, races or restarts, two drivers and a revived row included, released gates are granted in order |
| `settles` | `contested`: the nine gates, 2 slots, 2 attempts, `fault cancel edit`. `patient`: the same with `fault` only. `cancel`: 5 gates, 2 slots, 2 attempts, `fault cancel slow`. `storm`: 5 gates, 1 slot, 1 attempt, 1 crash, every hazard but `edit`. One execution and one request each; fair | `OneDriver`, `NoLeftoverContinue`, `PassedOnAnswer`, `CompletedIsSignedOff`, `ExecutedCasesApproved`, `StageNotBehind`, `ImplementsApprovalLedger` (contested, patient); `RunReachesGateOrEnd` (patient); `CancelFreesItsSlot` (cancel); `EverySlotFreed` (storm) | one driver, answers only, signed off gate by gate; no run stuck, no slot kept |
| `cycle` | 1 slot, 1 request, 2 cases, 2 executions. `alone`: 1 local runner, 1 crash, `fault timer`. `pair`: 2 local runners, `fault`. Fair | `OneRunnerPerOffer`, `PauseHolds`, `RunnersSpareEnds`, `StopEndsExecutor`, `RunLeavesQueue`, `StopWins` | one runner for an offer; a pause and a stop that hold; ends that runners spare |
| `projects` | 3 runs of a project with one signed-off cycle, 2 requests, 2 attempts, 1 mishap | `ActiveBounded`, `OnlyDeadHandlersStrand`, `DataPickedForRun`, `StartedRunReviewed` | runs that overlap and reuse each other's approvals: how many there can be, and what each was approved for |
| `services` | sixteen subjects, see below; fair | `ServicesType`; `PassedOnAnswer`, `NoStaleCommand`, `AnswerEndsWait` (ContinueSignal); `OverrunBounded` (PlanUsage); `ApprovalCoversText`, `ApprovedAsAnalysed`, `RejectionNeedsAnalysis`, `ReviewSettles` (RequirementReview); `ReadyIsOneBatch`, `DecisionsKept`, `GenerateSettles` (AiGenerateRun); `WaitsForAQuestion`, `AnswerMovesRun` (Clarification); `PlanFollowsStripe` (Subscription); `AutoHealsBounded`, `QuarantineHolds` (ScriptHealing); `ReadyAsMarked` (CaseLibrary) | each service under the overlaps, deaths and repetitions it meets |

The subjects of `services`: `signal` (3 waits, 2 pending commands, every command of Redis a step),
`usage` (3 requests of a limit of 3, up to 2 units each), `alone` (2 requirements, one user, Jira),
`race` (1 requirement, two users), `broken` (1 requirement, throws, in the `catch` block too, one restart), `generate`
(2 drafts, 2 slots, a death, throwing queries), `stalled` (1 draft, a live slot that loses its job, queries that throw
outside the `try` block too),
`rounds` (2 slots, 2 rounds), `faults` (1 slot, 3 rounds, 2 attempts, a death, both routes), `once` (a
FULL run, a death, timer and faults), `billing` (2 subscriptions, 2 deliveries, 3 changes), `heals` (a
server job and a LEAD, heals reviewed), `runners` (a laptop and a LEAD, heals committed, quarantined
scripts let through), `overlap` (a server job beside a laptop), `edits` (an edit that overlaps single
requests), `grounds` (a grounding that overlaps them, two URLs).

A behaviour of `settles`, `cycle` or `services` is of one subject. In `settles` the first two are on
`StlcRun`'s own variables, on which its safety properties are stated; the other two, where none of
those holds, are on variables of their own (`x...`). In `services` the properties are those of the
modules; every instance of a module acts on the same variables, and each property is
checked of all of them.

Type invariants: `ServicesType` is a run's; those of `StlcRun`, `ManualCycle` and `ProjectCycles` are
proved (section 4) and not checked again.

`CHECK_DEADLOCK FALSE` everywhere: a run ends, and a gate nobody answers waits.

**Bounds.** `MaxQueued` bounds waiting jobs of one execution and attempt,
`MaxCrashes` process deaths, `MaxPending` commands in flight when the poll fires;
`MaxAttempts` is the code's own `attempts: 3`. Two slots are enough for two drivers of
one run to meet, one execution because the executions of a project share approval columns
only (`ProjectCycles`), and two released and two or three held gates are enough for a signal of
one gate to reach the next and the one after it. `patient` and `contested` have the code's
nine gates. The bounds cut behaviours only at a full queue. In `cycle`, `MaxRuns` bounds the executions
the users ask for; two are what it takes for an executor or a runner of one execution
to meet the next, and two runners for two claims to race. A crash and an expired flag are
explored with one runner and not with two: a runner that dies leaves its claim, whoever else
polls. One user acts at a time, but at any moment of what executor and runners do.

In `storm`, `OverlapBound` (`MCStlcRun`) lets two slots be on the run while one request is in
flight, and two requests be in flight while one slot is on the run, and leaves out two of each at once.
The run's properties are safety, so the constraint cuts no behaviour they would need to be seen
whole; both are proved without it.

In `projects`, three runs are an old one, a current one and one that starts beside it; `MaxMishaps`
bounds handlers that die and withdrawals together. `OverlapBound` (`MCProjectCycles`) keeps the
instance in reach: two handlers overlap anywhere in `start` and `startNextCycle` as long as no
worker is on a run and nothing has died, been withdrawn or retried; after that one hand acts at
a time, and one run has its job retried, unless something has died or been withdrawn. The proofs
have neither bound.

In `services`, `MaxQuantity` bounds the units of a request and `MaxUsed` the month; `MaxStalls` is
BullMQ's own 1; `MaxJobs` and `MaxRows` bound jobs and rounds of a clarification; `HealLog` the
heal logs a LEAD can see at once, `heals` 0, 1, 2-and-more is what the router tells apart; two
or three texts of a case are what an edit between a mark and a use needs.

**Symmetry and view.** Executions, slots and requests are interchangeable and no
`CHOOSE` picks one. `storm` checks safety only and identifies states up to
`ControlView`: only `EditCases`, a stutter under the view, has a guard that reads `stage`, `cases`, `answered` or `orphan`;
`browser` is read only to compute `orphan`, and neither property of the run mentions them.

**Fairness.** Weak fairness of each slot's own steps and of each handler (they are
asynchronous functions on a running event loop), of the queue as a whole (BullMQ
serves a free slot), and of the wait timer. Users, failures, crashes and `RunAgent`
have none. In `ContinueSignal` the worker's event loop, its interval, Redis and the
handlers are fair; the 30 minute timer is not, so an answer has to end the wait
by itself. In `ManualCycle` worker slots and handlers are fair, users and local runners (a
program on somebody's laptop) are not. In `services` a handler that has begun goes on until
it returns or throws, a slot works on the job it has, and a waiting job finds a slot; nobody
has to answer, nothing has to fail, and no 30 minute timer has to fire.

**Mutants.** Every property has a definition marked *Slip* that a mistake in the
code could have produced (a flag read without being deleted, an unchecked status, a
job where a message belongs); with the slip in place TLC finds the property
violated.

### Disagreements between the code and what it says of itself

Seven runs expect a violation; the quotes are in `PROJECT.json`.

1. `doubleclick`: `continueAfterLogin` accepts a `RUNNING` run. Continue pressed twice
   leaves a flag that opens the next held gate, and a later approval is on record
   while an earlier one is missing (`ApprovalsInOrder`).
2. `resurrect`: `setExecution` is unconditional, so a worker in the middle of a stage
   overwrites `CANCELLED` with `RUNNING` (`CancelledIsFinal`).
3. `orphan`: a login wait that times out or is cancelled leaves its browser open,
   because `browserSessionId` is assigned after the agent returns (`NoOrphanBrowser`).
4. `cancelwins`: a poll's `GETDEL` that took the cancel-flag loses to a message that
   settles the wait before its reply arrives, and the cancel is gone (`CancelWins`).
5. `restop`: the cancel-flag of a stop outlives it by up to an hour, and the AI executor
   never deletes it, so a cycle that is stopped and executed again on the server is
   cancelled before its first case (`FreshRunNotStopped`).

6. `shared`: `RequirementReviewService` keeps the semantics it extracted in fields of a
   singleton; an analysis of another project replaces them between two awaits
   (`ReviewsOwnRequirement`).
7. `unready`: readiness is looked at when a roster is written and not when it is executed, so
   a case that went back to DRAFT runs all the same (`OnlyReadyRun`).

What holds only under an assumption is as telling:

* `RunSettles` needs `edge` off: an error before the `try` block of `runStlcExecution`, or of the
  update in its `catch` block, leaves the row `RUNNING`, and nothing writes `FAILED` once the attempts are used up.
* `ReleasedGatesInOrder` and `ImplementsReleasedLedger` hold under every hazard, and that is all they say of two
  drivers, of a row that comes back and of an answer that races the timer: the order of the gates survives them. That a
  run has two drivers, or is revived, they do not exclude, and nothing in the code does.
* `ExecutedCasesApproved` speaks of what the run does to its cases. Steps that the user changes after the approval, by an
  edit or by saving another URL, are executed as they are then.
* What is said of held gates needs some hazards off. With 1 execution, 2 slots and 2 requests, on
  top of `fault` and `cancel` (`crash` is `MaxCrashes = 1`), TLC finds:

  | property | violated by each of | holds under |
  |---|---|---|
  | `PassedOnAnswer`, `NoLeftoverContinue`, `CompletedIsSignedOff`, `ImplementsApprovalLedger` | `edge`, `timer`, `impatient`, `overlap`, `slow`, crash | |
  | `OneDriver` | `edge`, `overlap`, crash | `timer`, `impatient` and `slow` together |
  | `ExecutedCasesApproved` | `edge`, crash | `timer`, `impatient` and `slow` together |
  | `StageNotBehind` | `edge`, crash, `impatient` with `slow` | `timer` with either of `impatient` and `slow` |

  A crash or throw between asking a released gate and ending the job leaves the retry beside the job
  of the approval; two approvals at once enqueue two jobs; an answer that races the 30 minute timeout
  is followed by a retry that starts over.
* with `PromptHandlers` FALSE (`ContinueSignal`'s counterpart of `slow`) `PassedOnAnswer`
  fails: the message that follows the flag wakes the next wait.
* `StopWins` excuses what follows an executor's failure: its `catch` blocks write `RUNNING`
  over any status, a `CANCELLED` or `COMPLETED` one included.
* `ActiveBounded` counts no run that a retry revived: BullMQ takes up a FAILED run while `start`,
  which no longer sees it as active, has created another.
* `DataPickedForRun` and `StartedRunReviewed` ask that no other run was active beside the run: two
  active runs share one set of approvals. They also ask that the project row was reset for the
  run; a handler that dies before it leaves the old approvals to the new run.
* A next cycle whose handler died half way through its copies is a run like any other, and may be
  the parent of the next.
* `ApprovedAsAnalysed` and `ApprovalCoversText` exclude rows that came in by extraction or Jira import: the
  import marks nothing stale, and extraction keeps `requirementsApprovedAt`.
* `ReviewSettles` needs the API alive and the `catch` block's own update to succeed: a restart, or a throw
  there, leaves the project `RUNNING`, which refuses every later analysis.
* `GenerateSettles` speaks of a job that BullMQ has not given up. `enqueueAiGenerate` allows one attempt; a claim query
  that throws before the `try` block, or the `catch` block's update, spends it and leaves the run `PENDING` or
  `RUNNING`, and nobody takes it up again. So do the same throws of the API's inline run, which is outside the
  property.
* `WaitsForAQuestion` needs one slot at a time; two slots on a run find no open round each, and an
  answer that comes before the round is written closes none.
* `AnswerMovesRun` holds on the execution's route. On the project's the answer is published only.
* `PlanFollowsStripe` needs events in order: a `deleted` that is handled before its `completed` leaves
  the organisation PRO.
* `DecisionsKept` and `ReadyIsOneBatch` need the slot that lost its job to be dead.
* `AutoHealsBounded` is one heal for each executor and not one: server jobs and runners count
  differently, both long after they read. A rule heal that fails is never counted.
* `QuarantineHolds` speaks of executors that read the script before the quarantine: their writes, a
  passing laptop's STABLE included, lift it. And a LEAD's decision on an old heal overwrites a
  newer recording; no version is compared.
* `ReadyAsMarked` excuses an edit over a row that had changed since it was read, groundings, which
  leave `caseStatus` READY, and a case that the design agent called ready and no human has marked since.
* `OverrunBounded` excuses owners, who are never checked; AI generate runs are checked and not
  recorded.
* `RunLeavesQueue` is about server jobs of one cycle: a slot that a paused executor of another cycle holds is not explored; in
  the code the TTL of the pause-flag ends that wait. A job that waits for a local runner may wait for ever
  (`expireWaitingLocalJobs` changes its error text only).

## 4. What is proved

`StlcRunProofs` proves, from `ConstantsAssumption` alone and for any sets of
executions, slots and requests, any number of gates and any hazards:

* `TypeCorrect`: `Spec => []TypeOK`.
* `ReleasedGatesOrdered`: `Spec => []ReleasedGatesInOrder`.
* `RefinesReleasedLedger`: `Spec => ImplementsReleasedLedger`, the refinement of
  `GateLedger` restricted to the released gates.

`GateLedgerProofs` proves `LedgerInOrder`, which the pipeline inherits through that
refinement.

The argument. `ReleasedGatesInOrder` speaks of slots and approvals, but an approval
is given on the word of a request, which took its gate from a row, which a slot
wrote. The inductive invariant `IInv` therefore says of all four that the gate they
name is cleared (`GateOrder`), and where a slot can stand for the gate it works
towards (`SlotPlace`: before `LoadGates` a slot is at a gate up to the first held one,
and only a slot at a held gate waits). `TypeStep` has one step for each action.
`StepMoves` then reduces every action to one of four moves (nothing about gates
changes; a slot's own gate is asked; the login is offered; a gate is granted), so
that the preservation of the order (`OrderStep`) and the step to the ledger
(`LedgerStep`) are argued once for each move and not once for each action. `Cleared`
is monotone because approvals are never taken back within a run.

`ManualCycleProofs` proves, from `CycleAssumption` alone and for any numbers of slots,
runners, requests and cases:

* `TypeCorrect`: `Spec => []TypeOK`.
* `OneRunner`: `Spec => []OneRunnerPerOffer`. A claim is counted on a `PENDING` row only, and every
  step that makes the row `PENDING` starts a new count (`OfferOpen`); this needs the
  outcome of a local run never to be `PENDING`, hence the types.
* `PauseIsKept`: `Spec => []PauseHolds`. An executor gets past its look at the flag only while it is
  down, and a case begun under the flag is behind that look (`PauseSeen`).
* `EndsAreSpared`: `Spec => RunnersSpareEnds`. Every step that leaves requests and executors where they
  are is a runner's or an expiry, and those check the status in the update itself.

`MoveExecutor` says once what any move of an executor preserves, and `ExecutorStepIInv`
only has to say which move each action is.

`ProjectCyclesProofs` proves, from `CyclesAssumption` alone, for any numbers of requests and runs:

* `CyclesTyped`: `Spec => []TypeOK`, and `CyclesInvariance`: `Spec => []CyclesInv`.
* `RunsBounded`: `Spec => []ActiveBounded`. Each request that is about to create found no active run, or
  counted for one; a run that is active was created by a request that still is, or by one after
  which nobody could create.
* `StrandedByDeath`: `Spec => []OnlyDeadHandlersStrand`, from `AllMoved`: a queued or running run has a job, a
  slot, a request at work on it, or a handler that died.
* `DataIsOwn` and `DesignIsOwn`: `Spec => DataPickedForRun` and `Spec => StartedRunReviewed`. `OneRun` (a run
  with no other beside it is the newest), `Picked` (what the project row grants was granted to
  that run) and `Sourced` (a design under review or approved wrote the run's cases) are the parts of
  `CyclesInv` these need; none of them follows from the properties themselves.

`StlcGatesProofs` proves what `settles` checks of the held gates, for any numbers of executions, slots,
requests, gates and attempts, in one of three environments. `Timely` has no hazard but `fault` and `cancel`, and
no crash; `Orderly` has every hazard except `edge` and `overlap`, and no crash; `Steady` is `Orderly` without
`impatient` or without `slow`. What they exclude is what breaks the properties (section 3).

* `NoContinueLeftOver`, `HeldGatesAnswered`, `CompletedSignedOff` (`Timely`): `Spec => []P` for
  `NoLeftoverContinue`, `PassedOnAnswer` and `CompletedIsSignedOff`.
* `RefinesApprovalLedger` (`Timely`): `Spec => ImplementsApprovalLedger`, the ledger of all gates.
* `OneDriverAlways` (`Orderly`): `Spec => []OneDriver`.
* `CasesApproved` (`Orderly`) and `StageShown` (`Steady`): `ExecutedCasesApproved` and `StageNotBehind`, where there is
  one execution (`OneRun`): the project's approvals and its stage are shared, so an approval of one run moves the
  other's. The runs of a project are `ProjectCycles`' subject.

The argument. `GInv` adds to `IInv` (proved before) what each execution's parts say of each other,
`RunInv(e)`: jobs, slots and requests that carry the run on are one at most (`Alone`); what an awaiting row implies about the
slot behind it (`Awaits`), and a request in flight about the gate it answers (`Answers`); a
continue-flag is an answer to the gate the slot waits at (`Flagged`); a slot has passed only what was
answered (`Passed`); a run that is over was signed off, or stopped (`Over`); an answer of an approval
gate is recorded as an approval (`Recorded`). None of these is inductive alone: that one job drives
the run is what makes the flag that run's, and that flags are answers is what keeps a second job
from coming. The proof sorts actions by what they do to a run (`GoOn`, `GiveBack`, `StayAtGate`, `PassOn`, ...)
and shows that other runs stand still (`SlotStill`, `RequestStill`).

`DriverInv`, for the wider environment, says nothing of answers: beside `Alone`, only that nothing drives a run
while a released gate is open or is being resumed (`Parked`), so the job that the handler enqueues
is the only one. A question at a released gate and a retry give the run's place to what follows, and
everything else is `Quiet`. Flags and messages that go astray move the driver, and never make a second one.

`RunCases` follows the cases on top of it. Nobody works on design once it is approved (`Designing`); the data stage
works on grounded cases (`DataStage`), and so do the row that awaits the data gate and the approval on its way
(`CasesInv`): hence what is accepted there is what a later grounding leaves alone. Both rest on the one driver: with
a second job, one slot could design, or another ground, behind the approval the first one asked for.

`StageInv` adds what `project.stlcStage` follows when no other run moves it. Under `Steady` a slot may be past a
gate whose answer is still under way, so gates, slots and rows need not agree as `GInv` has it; what matters is
that a grant never shows a stage behind a slot or row. `Near` and `NextRow` say so: when a gate is about to be
granted, the slot is at most one gate past it, and so is what its row awaits. A slot gets a second gate ahead only by a
continue that was meant for an earlier one. Where handlers are prompt, a gate is asked only when none is in flight. Where
users are patient, `FlagInPlace` counts the flags instead: while an answer is on its way, a flag that is set is taken at
the gate it was set for or not at all. Past execution approval a stage is written when it is entered, and until then
(`Entering`) a slot may be ahead of what is shown, since its gate cannot be open yet.

`BillingProofs`:

* `UsageTypeCorrect`, and `UsageBounded`: `UsageSpec => []OverrunBounded`, from `UsageAssumption`. The bound is
  not inductive, because a request between its check and its record will still add its units;
  `Covered` counts each request in flight for all it may ask, except one whose units are counted
  as they are.
* `SubscriptionTyped`, and `PlanFollows`: `SubscriptionSpec => []PlanFollowsStripe`, from `SubscriptionAssumption`, for any
  numbers of subscriptions, deliveries and changes. An event on its way hides what the plan will be. While events are taken in order and one
  at a time (`TakenInOrder`, `OneAtATime`), the last event of a subscription tells its state (`LastIsCurrent`), and the plan
  is right where no event is in the way (`CaughtUp`).

`LibraryProofs`:

* `HealingTyped`, `AutoHealsAreBounded` and `QuarantineIsKept`, for any finite set of executors and any settings
  of the project. `HealsCounted` is what is missing in the bound: a
  count of zero means no rule heal; once it is positive, the heals so far and the executors
  that read zero earlier (`Late`) are together no more than the executors, since whoever commits
  leaves `Late` and nobody joins. `FoundAsRead` ties an outcome to the row it was found on.
* `CaseTyped` and `ReadyKeepsText`: `CaseSpec => []ReadyAsMarked`. An edit that finds the
  row as it read it knows whether the case is READY, so it either takes it back or keeps the text;
  `Vouched` is the part a single write has to establish.
* `GenTyped`, `ReadyShowsOneBatch` and `DecisionsStay`: `[]ReadyIsOneBatch` and `[]DecisionsKept`, from `GenAssumption`. Batches
  are bounded by what BullMQ may deliver again (`Budget`); without a stalled slot that lives, only one
  slot is at work (`OneSlot`), and then what is shown is one row for each draft (`OneEach`).

`AnswerProofs`:

* `SignalTyped` and `NoCommandIsStale` for any constants, and `PassesOnAnswer` where `PromptHandlers`, which it needs: `[]TypeOK`,
  `[]NoStaleCommand`, `[]PassedOnAnswer` of `ContinueSignal`. `LineInv` is about the two queues: commands are
  answered in the order they were sent, no command is behind that of an event that is being
  published, and a new wait's first command is alone on the line. That is what drains an old wait's polls. `AnswerInv` adds where the evidence of
  an answer can be, the flag, a message or a reply on the way, at each step of wait and handler.
* `ClarifyTyped` and `AQuestionIsOpen`: `[]ClarifyType` and `[]WaitsForAQuestion`, from `ClarifyAssumption`. Jobs, slots
  and handlers at work are bounded together (`JobBudget`), which the type of `jobs` needs; while
  there is one slot at a time, a run that is not over has an open round, a job or an answer under way (`Going`, in `Single`).
* `ReviewTyped`, `ApprovalCovers`, `ApprovedWasAnalysed` and `RejectionHolds`, for any finite set of requirements and any
  users and hazards (`ReviewAssumption`): `[]ReviewType`, `[]ApprovalCoversText`, `ApprovedAsAnalysed` and
  `RejectionNeedsAnalysis`. `Reads` ties what a request has in hand to the rows that are listed. While no requests have
  overlapped, one at most is under way (`Undisturbed`), a review has withdrawn approval and rejection (`Decided`), and
  a completed analysis has seen every row as it is, except that of an edit which is about to mark it (`Covered`).

Each of these invariants was an invariant of TLC first, on instances of the runs' size.

Only model-checked: liveness (`RunReachesGateOrEnd`, `CancelFreesItsSlot`,
`EverySlotFreed`, `AnswerEndsWait`, `StopEndsExecutor`, `RunLeavesQueue`, `StopWins`, `ReviewSettles`,
`GenerateSettles`, `AnswerMovesRun`), which is out of the prover's reach, and `ServicesType` of the composition, whose
parts are proved one by one. Every other property of a passing run is a theorem.


## 5. What is abstracted

* Agents: a stage's work succeeds or throws. Documents, scores, events, audit rows and
  wording are left out.
* `StlcRun` starts from reviewed requirements, so design comes first; the
  clarification loop is a module of its own.
* `StlcRun`'s `Init` is a project's first run. What later runs inherit is `ProjectCycles`' subject.
* A slot stands for a worker process when it crashes: its browsers go with it.
* Grounding changes a run's cases as one step, where the code updates them one by one; a throw between two of them is
  retried, and what was grounded already is left alone. The crawl that feeds it is browser I/O.
* A browser that was launched and whose first navigation fails is not distinguished from
  one that never started (`orphan` is then an underestimate).
* A queue that is unavailable (`enqueueRunExecution` returning null) is not modelled.
* In `ManualCycle`: results, scripts and reports (nothing in the protocol reads them),
  archived cycles, several cycles of a project, a refused first execution (it has no
  effect), and the queue being unavailable.
* Regression and plan approval are legacy gates of older rows and are left out.
* `ProjectCycles`: the held gates are one state, artifacts are not copied, and an approval is one
  step; `StlcRun` has these apart.
* `Clarification`: the agents of a FULL run after the merge are one step. `throwIfCancelled` is not
  read in the wait of a FULL run, in the code as in the model.
* `RequirementReview`: feature groups, relations other than conflicts, and confirmations.
* `ScriptHealing`: the patch a rule heal makes, and whether it would have been right.
* `CaseLibrary`: one case, so neither duplicates nor the order of a suite.

### Not modelled

* **Phase documents.** The API and the worker read, change and write back one JSON column, so one
  update can be lost; `patchDocument` compares a version and does not write it in the same
  statement; `acceptPhase` marks a document `ACCEPTED` before the approval it stands for is
  accepted. Nothing else reads the column, and neither code nor docs promise more of it than the
  version check, so it is listed as a hazard without a property.
* **Suites, fields, templates, test plans.** Rows a page edits and no protocol reads. Two moves of
  suites at once can exceed two levels or close a cycle, and `externalId`s repeat after a
  permanent delete (`count + 1`).
* **Results of a cycle.** The AI executor writes results into a cycle that has been completed
  meanwhile, and the evidence list of a result is read and written back whole.
* **Organisations and projects.** Operations on single rows; the schemas keep OWNER out of
  invitations and role changes.
* **Artifacts, reports, exports; integrations other than the Jira import; agents.** Formatting and
  calls to outside services. To the pipeline an agent returns or throws, which is modelled.
* **Event stream, web UI.** No state depends on the stream; the UI is a client, and users call
  handlers in any order.

## 6. Plan

1. `CycleResults`: the results of a cycle and their evidence, written by users, executor and runners,
   also after completion.
2. `PhaseDocs`, once there is a promise to hold it to.
3. Larger instances of `projects`, with two handlers overlapping while a worker is on a run, and of `storm`,
   with two slots and two requests at once, where there is time for them.
