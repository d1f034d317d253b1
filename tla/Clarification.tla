---------------------------- MODULE Clarification ----------------------------
(***************************************************************************)
(* How one execution asks its user to clarify the requirements.            *)
(*                                                                         *)
(* An STLC run whose requirements were not approved asks in up to three    *)
(* rounds.  Each round is a row of the database, and the worker slot is    *)
(* given back while the user thinks: an answer enqueues a fresh job, which *)
(* walks the rounds again from the first one.  A FULL run asks once and    *)
(* keeps its slot, blocked on a Redis flag and message.  Both share the    *)
(* handler that takes the answer.                                          *)
(***************************************************************************)
EXTENDS Integers, Sequences, FiniteSets

CONSTANTS
  Mode,              \* execution.runMode: "STLC" or "FULL"
  Slot,              \* worker slots
  Caller,            \* API requests that may be in flight at once
  MaxClarifyRounds,  \* MAX_CLARIFY_ROUNDS, 3 in the code
  MaxAttempts,       \* BullMQ attempts of a job, 3 in the code
  MaxJobs,           \* bound: jobs of the run, waiting, worked on or about to be enqueued
  MaxRows,           \* bound: rows of questions
  MaxDeaths,         \* bound: workers that die
  ClarifyHazards     \* "fault": an agent throws; "timer": the 30 minutes pass; "project": the project's route

ASSUME ClarifyAssumption ==
  /\ IsFiniteSet(Slot) /\ IsFiniteSet(Caller)
  /\ MaxClarifyRounds \in Nat \ {0} /\ MaxAttempts \in Nat \ {0} /\ MaxJobs \in Nat \ {0}
  /\ MaxRows \in Nat /\ MaxDeaths \in Nat

VARIABLES
  cstatus,           \* execution.status
  rounds,            \* clarificationRound rows in order of createdAt
  flag,              \* Redis clarify-flag
  jobs,              \* waiting run-execution jobs by attempt
  cpc, cround, ctry, \* slot: step, round it looks at, attempt of its job
  hpc, route,        \* request: step, and the route it came by
  doubled,           \* history: two slots have been on the run at once
  deaths

clarifyVars == <<cstatus, rounds, flag, jobs, cpc, cround, ctry, hpc, route, doubled, deaths>>
slot    == <<cpc, cround, ctry>>
handler == <<hpc, route>>
tally   == <<doubled, deaths>>

Attempt  == 1..MaxAttempts
Round    == 1..MaxClarifyRounds
RoundRow == [round : Round, asks : BOOLEAN, answered : BOOLEAN, skipped : BOOLEAN]

ClarifyType ==
  /\ cstatus \in {"QUEUED", "RUNNING", "CLARIFY", "PLAN", "COMPLETED", "FAILED"}
  /\ rounds \in Seq(RoundRow) /\ Len(rounds) <= MaxRows
  /\ flag \in BOOLEAN
  /\ jobs \in [Attempt -> 0..MaxJobs]
  /\ cpc \in [Slot -> {"idle", "init", "requirements", "find", "ask", "open", "clear",
                       "check", "wait", "woken", "taken", "rest", "failing", "failed"}]
  /\ cround \in [Slot -> Round] /\ ctry \in [Slot -> Attempt]
  /\ hpc \in [Caller -> {"idle", "answer", "mark", "flag", "publish", "resume"}]
  /\ route \in [Caller -> {"execution", "project"}]
  /\ doubled \in BOOLEAN /\ deaths \in 0..MaxDeaths

ClarifyInit ==
  /\ cstatus = "QUEUED"
  /\ rounds = <<>>
  /\ flag = FALSE
  /\ jobs = [a \in Attempt |-> IF a = 1 THEN 1 ELSE 0]
  /\ cpc = [s \in Slot |-> "idle"]
  /\ cround = [s \in Slot |-> 1] /\ ctry = [s \in Slot |-> 1]
  /\ hpc = [q \in Caller |-> "idle"] /\ route = [q \in Caller |-> "execution"]
  /\ doubled = FALSE /\ deaths = 0

--------------------------------------------------------------------------------
(* Worker *)

Busy == {s \in Slot : cpc[s] # "idle"}
Go(s, step) == cpc' = [cpc EXCEPT ![s] = step]

\* The newest row of a round, if there is one.
RowsOf(r)  == {i \in DOMAIN rounds : rounds[i].round = r}
Latest(r)  == CHOOSE i \in RowsOf(r) : \A j \in RowsOf(r) : j <= i
IsOpen(i)  == ~rounds[i].answered

\* Slip: no last round.
ClearWhenAnswered(i) == rounds[i].skipped \/ ~rounds[i].asks

requirementsSeemClear(i) ==
  rounds[i].skipped \/ rounds[i].round >= MaxClarifyRounds \/ ~rounds[i].asks

\* main.ts: a job of a run that is over is dropped.
Take(s, a) ==
  /\ cpc[s] = "idle" /\ jobs[a] > 0
  /\ jobs' = [jobs EXCEPT ![a] = @ - 1]
  /\ IF cstatus = "COMPLETED"
       THEN UNCHANGED <<slot, doubled>>
       ELSE /\ Go(s, "init")
            /\ ctry' = [ctry EXCEPT ![s] = a]
            /\ cround' = [cround EXCEPT ![s] = 1]
            /\ doubled' = (doubled \/ Busy # {})
  /\ UNCHANGED <<cstatus, rounds, flag, handler, deaths>>

Begin(s) ==
  /\ cpc[s] = "init"
  /\ cstatus' = "RUNNING"
  /\ Go(s, "requirements")
  /\ UNCHANGED <<rounds, flag, jobs, cround, ctry, handler, tally>>

\* The requirement agent is done.  A FULL run goes on to its clarification agent, for which
\* the row says AWAITING_CLARIFICATION already.
Analysed(s) ==
  /\ cpc[s] = "requirements"
  /\ IF Mode = "STLC" THEN Go(s, "find") /\ UNCHANGED cstatus
                      ELSE Go(s, "ask") /\ cstatus' = "CLARIFY"
  /\ UNCHANGED <<rounds, flag, jobs, cround, ctry, handler, tally>>

\* A round that was answered is passed over, one that is open is waited for.
FindAnswered(s) ==
  LET i == Latest(cround[s]) IN
  /\ cpc[s] = "find" /\ RowsOf(cround[s]) # {} /\ ~IsOpen(i)
  /\ IF requirementsSeemClear(i)
       THEN Go(s, "clear") /\ UNCHANGED cround
       ELSE cround' = [cround EXCEPT ![s] = @ + 1] /\ UNCHANGED cpc
  /\ UNCHANGED <<cstatus, rounds, flag, jobs, ctry, handler, tally>>

FindOpen(s) ==
  /\ cpc[s] = "find" /\ RowsOf(cround[s]) # {} /\ IsOpen(Latest(cround[s]))
  /\ Go(s, "open")
  /\ UNCHANGED <<cstatus, rounds, flag, jobs, cround, ctry, handler, tally>>

\* A new round: runAgent writes AWAITING_CLARIFICATION before the agent has asked anything.
FindNone(s) ==
  /\ cpc[s] = "find" /\ RowsOf(cround[s]) = {}
  /\ cstatus' = "CLARIFY"
  /\ Go(s, "ask")
  /\ UNCHANGED <<rounds, flag, jobs, cround, ctry, handler, tally>>

\* The agent's questions become a row.
Ask(s) ==
  /\ Mode = "STLC" /\ cpc[s] = "ask" /\ Len(rounds) < MaxRows
  /\ \E asks \in BOOLEAN :
       /\ rounds' = Append(rounds, [round |-> cround[s], asks |-> asks,
                                    answered |-> FALSE, skipped |-> FALSE])
       /\ Go(s, IF asks THEN "open" ELSE "clear")
  /\ UNCHANGED <<cstatus, flag, jobs, cround, ctry, handler, tally>>

\* AwaitingHumanError: the job completes and its slot is free.
Await(s) ==
  /\ cpc[s] = "open"
  /\ cstatus' = "CLARIFY"
  /\ Go(s, "idle")
  /\ UNCHANGED <<rounds, flag, jobs, cround, ctry, handler, tally>>

\* Planning starts and ends at its own gate.
Plan(s) ==
  /\ cpc[s] = "clear"
  /\ cstatus' = "PLAN"
  /\ Go(s, "idle")
  /\ UNCHANGED <<rounds, flag, jobs, cround, ctry, handler, tally>>

\* FULL: the questions are published and the row awaits an answer.
AskOnce(s) ==
  /\ Mode = "FULL" /\ cpc[s] = "ask"
  /\ cstatus' = "CLARIFY"
  /\ Go(s, "check")
  /\ UNCHANGED <<rounds, flag, jobs, cround, ctry, handler, tally>>

\* waitForClarifySignal looks for a flag that was set before it subscribes.
Check(s) ==
  /\ cpc[s] = "check"
  /\ Go(s, IF flag THEN "taken" ELSE "wait")
  /\ flag' = FALSE
  /\ UNCHANGED <<cstatus, rounds, jobs, cround, ctry, handler, tally>>

\* The poll of each second finds the flag.
Poll(s) ==
  /\ cpc[s] = "wait" /\ flag
  /\ flag' = FALSE
  /\ Go(s, "woken")
  /\ UNCHANGED <<cstatus, rounds, jobs, cround, ctry, handler, tally>>

Timeout(s) ==
  /\ "timer" \in ClarifyHazards /\ cpc[s] = "wait"
  /\ Go(s, "failing")
  /\ UNCHANGED <<cstatus, rounds, flag, jobs, cround, ctry, handler, tally>>

\* A wait that was woken deletes the flag; the answers are merged and login comes next.
Merge(s) ==
  /\ cpc[s] \in {"woken", "taken"}
  /\ flag' = (flag /\ cpc[s] = "taken")
  /\ cstatus' = "RUNNING"
  /\ Go(s, "rest")
  /\ UNCHANGED <<rounds, jobs, cround, ctry, handler, tally>>

\* Login, exploration, test cases, automation, execution and report.
Finish(s) ==
  /\ cpc[s] = "rest"
  /\ cstatus' = "COMPLETED"
  /\ Go(s, "idle")
  /\ UNCHANGED <<rounds, flag, jobs, cround, ctry, handler, tally>>

AgentThrows(s) ==
  /\ "fault" \in ClarifyHazards /\ cpc[s] \in {"requirements", "ask", "rest"}
  /\ Go(s, "failing")
  /\ UNCHANGED <<cstatus, rounds, flag, jobs, cround, ctry, handler, tally>>

RecordRunFailure(s) ==
  /\ cpc[s] = "failing"
  /\ cstatus' = "FAILED"
  /\ Go(s, "failed")
  /\ UNCHANGED <<rounds, flag, jobs, cround, ctry, handler, tally>>

\* BullMQ queues the job again, or gives it up after its last attempt.
Requeue(a) == IF a \in Attempt THEN [jobs EXCEPT ![a] = @ + 1] ELSE jobs

Retry(s) ==
  /\ cpc[s] = "failed"
  /\ jobs' = Requeue(ctry[s] + 1)
  /\ Go(s, "idle")
  /\ UNCHANGED <<cstatus, rounds, flag, cround, ctry, handler, tally>>

\* A worker dies: BullMQ finds the job stalled and hands it out again.
Die(s) ==
  /\ deaths < MaxDeaths /\ cpc[s] # "idle"
  /\ deaths' = deaths + 1
  /\ jobs' = Requeue(ctry[s])
  /\ Go(s, "idle")
  /\ UNCHANGED <<cstatus, rounds, flag, cround, ctry, handler, doubled>>

--------------------------------------------------------------------------------
(* API *)

Respond(q, step) == hpc' = [hpc EXCEPT ![q] = step]

Waiting  == {x \in Attempt \X (1..MaxJobs) : x[2] <= jobs[x[1]]}
Answering == {q \in Caller : hpc[q] # "idle"}
HasRoom  == Cardinality(Waiting) + Cardinality(Busy) + Cardinality(Answering) < MaxJobs

\* POST executions/:id/clarify: refused unless the row awaits clarification.
ClarifyExecution(q) ==
  /\ hpc[q] = "idle" /\ cstatus = "CLARIFY" /\ HasRoom
  /\ Respond(q, "answer") /\ route' = [route EXCEPT ![q] = "execution"]
  /\ UNCHANGED <<cstatus, rounds, flag, jobs, slot, tally>>

\* updateMany: every open round of the execution, which may be none.
AnswerRounds(q) ==
  /\ hpc[q] = "answer"
  /\ Respond(q, "mark")
  /\ \E skip \in BOOLEAN :
       rounds' = [i \in DOMAIN rounds |->
                    IF IsOpen(i) THEN [rounds[i] EXCEPT !.answered = TRUE, !.skipped = skip] ELSE rounds[i]]
  /\ UNCHANGED <<cstatus, flag, jobs, slot, route, tally>>

MarkRunning(q) ==
  /\ hpc[q] = "mark"
  /\ cstatus' = "RUNNING"
  /\ Respond(q, "flag")
  /\ UNCHANGED <<rounds, flag, jobs, slot, route, tally>>

\* POST projects/:id/clarify: the newest STLC run that awaits clarification, publish only.
ClarifyProject(q) ==
  /\ "project" \in ClarifyHazards /\ Mode = "STLC"
  /\ hpc[q] = "idle" /\ cstatus = "CLARIFY"
  /\ Respond(q, "flag") /\ route' = [route EXCEPT ![q] = "project"]
  /\ UNCHANGED <<cstatus, rounds, flag, jobs, slot, tally>>

\* Slip: a message without a flag behind it.
SetNoFlag(q) ==
  /\ hpc[q] = "flag"
  /\ Respond(q, "publish")
  /\ UNCHANGED <<cstatus, rounds, flag, jobs, slot, route, tally>>

SetClarifyFlag(q) ==
  /\ hpc[q] = "flag"
  /\ flag' = TRUE
  /\ Respond(q, "publish")
  /\ UNCHANGED <<cstatus, rounds, jobs, slot, route, tally>>

\* The message wakes the slots that listen for it.
PublishClarify(q) ==
  /\ hpc[q] = "publish"
  /\ cpc' = [s \in Slot |-> IF cpc[s] = "wait" THEN "woken" ELSE cpc[s]]
  /\ Respond(q, IF route[q] = "execution" THEN "resume" ELSE "idle")
  /\ UNCHANGED <<cstatus, rounds, flag, jobs, cround, ctry, route, tally>>

\* Slip: an answer to an STLC run is published like a continue.
ResumePublishes(q) ==
  /\ hpc[q] = "resume"
  /\ Respond(q, "idle")
  /\ UNCHANGED <<cstatus, rounds, flag, jobs, slot, route, tally>>

\* resumeStlc without options enqueues a job, whatever the mode of the run.
Resume(q) ==
  /\ hpc[q] = "resume"
  /\ jobs' = [jobs EXCEPT ![1] = @ + 1]
  /\ Respond(q, "idle")
  /\ UNCHANGED <<cstatus, rounds, flag, slot, route, tally>>

\* Quiet: nothing is on its way that could still change the run.
Quiet ==
  /\ \A s \in DOMAIN cpc : cpc[s] = "idle"
  /\ \A a \in DOMAIN jobs : jobs[a] = 0
  /\ \A q \in DOMAIN hpc : hpc[q] = "idle"

\* A key of Redis lives one hour: no job waits that long for a slot.
FlagExpires ==
  /\ "timer" \in ClarifyHazards /\ flag /\ Quiet
  /\ flag' = FALSE
  /\ UNCHANGED <<cstatus, rounds, jobs, slot, handler, tally>>

SlotWorks(s) ==
  \/ \E a \in Attempt : Take(s, a)
  \/ Begin(s) \/ Analysed(s)
  \/ FindAnswered(s) \/ FindOpen(s) \/ FindNone(s) \/ Ask(s) \/ Await(s) \/ Plan(s)
  \/ AskOnce(s) \/ Check(s) \/ Poll(s) \/ Merge(s) \/ Finish(s)
  \/ RecordRunFailure(s) \/ Retry(s)

HandlerWorks(q) == AnswerRounds(q) \/ MarkRunning(q) \/ SetClarifyFlag(q) \/ PublishClarify(q) \/ Resume(q)

ClarifyNext ==
  \/ \E s \in Slot : SlotWorks(s) \/ Timeout(s) \/ AgentThrows(s) \/ Die(s)
  \/ \E q \in Caller : HandlerWorks(q) \/ ClarifyExecution(q) \/ ClarifyProject(q)
  \/ FlagExpires

ClarifySpec == ClarifyInit /\ [][ClarifyNext]_clarifyVars

--------------------------------------------------------------------------------
\* A run that waits for its user has a question open, so that an answer has an effect: no
\* order of answers, retries and deaths leaves it waiting for nothing, unless two slots were
\* on the run at once (findFirst of the round and setExecution are two steps).
WaitsForAQuestion ==
  Mode = "STLC" /\ Quiet /\ cstatus = "CLARIFY" /\ ~doubled => \E i \in DOMAIN rounds : IsOpen(i)

\* An answer that the handler has taken carries the run on, in either mode: a job finds the
\* answered round, a waiting slot the flag or the message, and the run does not stay RUNNING.
AnswerMovesRun ==
  \A q \in Caller :
    hpc[q] = "mark" ~> cstatus \in {"PLAN", "COMPLETED", "FAILED"} \/ (cstatus = "CLARIFY" /\ hpc[q] = "idle")
=============================================================================
