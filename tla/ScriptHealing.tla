---------------------------- MODULE ScriptHealing ----------------------------
(***************************************************************************)
(* The automated script of one test case: it is recorded, replayed by      *)
(* server jobs and laptop runners, patched by the rule healer, and         *)
(* quarantined; a human decides on pending heals, clears the quarantine    *)
(* and asks for a new recording.                                           *)
(*                                                                         *)
(* A replay works for minutes on a copy of the row, and writes what it     *)
(* found over the row as it is by then.  A server job reads the row when   *)
(* it comes to the case; a runner has what its payload said when it was    *)
(* claimed.  A server job writes the heal log first and adds to healCount; *)
(* a runner's report writes the row first and sets healCount to a number   *)
(* of its own.                                                             *)
(***************************************************************************)
EXTENDS Integers, FiniteSets

CONSTANTS
  Server,        \* slots with an AI execute job on the case
  Laptop,        \* local runner processes with a job on the case
  Human,         \* requests of LEADs deciding on a heal
  HealLog,       \* bound: heal logs that may be of interest at once
  LlmApproval,   \* project.llmHealRequiresApproval
  Allow,         \* project.allowExecuteQuarantined
  MustReview     \* project.healRequiresReview, or the case is P0

Executor == Server \union Laptop

VARIABLES
  script,        \* automatedScript: there, status, heals (healCount: 2 stands for more), log (actionLog)
  healLog,       \* automationHealLog of interest: none, pending, decided
  xpc,           \* executor: idle, taken, recording, replaying, found, logged, reported
  copy,          \* executor: what it read of the row: status, heals and whether there is a log
  outcome,       \* executor: what runFailurePipeline returned
  hand, held,    \* decideHeal: idle, approve, reject, approved, rejected; and its heal log
  auto           \* history: rule heals committed with no human since healCount was last zero

scripts  == <<script, healLog>>
executor == <<xpc, copy, outcome>>
deciding == <<hand, held>>
healingVars == <<scripts, executor, deciding, auto>>

Stability == {"STABLE", "WATCH", "FLAKY", "QUARANTINED"}
Outcomes  == {"passed", "failed", "unverified", "pending", "committed", "quarantined"}
Seen      == [status : Stability, heals : 0..2, log : BOOLEAN]
Unseen    == [status |-> "STABLE", heals |-> 0, log |-> FALSE]

HealingType ==
  /\ script \in [there : BOOLEAN, status : Stability, heals : 0..2, log : {"none", "recorded", "patched"}]
  /\ healLog \in [HealLog -> {"none", "pending", "decided"}]
  /\ xpc \in [Executor -> {"idle", "taken", "recording", "replaying", "found", "logged", "reported"}]
  /\ copy \in [Executor -> Seen]
  /\ outcome \in [Executor -> Outcomes]
  /\ hand \in [Human -> {"idle", "approve", "reject", "approved", "rejected"}]
  /\ held \in [Human -> HealLog]
  /\ auto \in Nat

HealingInit ==
  /\ script = [there |-> FALSE, status |-> "STABLE", heals |-> 0, log |-> "none"]
  /\ healLog = [i \in HealLog |-> "none"]
  /\ xpc = [x \in Executor |-> "idle"]
  /\ copy = [x \in Executor |-> Unseen]
  /\ outcome = [x \in Executor |-> "passed"]
  /\ hand = [h \in Human |-> "idle"]
  /\ held = [h \in Human |-> CHOOSE i \in HealLog : TRUE]
  /\ auto = 0

XGoto(x, p) == xpc' = [xpc EXCEPT ![x] = p]

\* The executor is done with the case; what it read is forgotten.
Finished(x) ==
  /\ XGoto(x, "idle")
  /\ copy' = [copy EXCEPT ![x] = Unseen]
  /\ outcome' = [outcome EXCEPT ![x] = "passed"]

Capped(n, top) == IF n > top THEN top ELSE n

--------------------------------------------------------------------------------
(* A job is taken, and comes to the case.                                     *)

Snapshot == [status |-> script.status, heals |-> script.heals, log |-> script.log # "none"]

\* The payload of a runner's job holds the script of every case.
TakeCase(x) ==
  /\ xpc[x] = "idle"
  /\ XGoto(x, "taken")
  /\ copy' = IF x \in Laptop THEN [copy EXCEPT ![x] = Snapshot] ELSE copy
  /\ UNCHANGED <<scripts, outcome, deciding, auto>>

\* The script as the executor finds it.
Known(x) == IF x \in Laptop THEN copy[x] ELSE Snapshot

\* A runner leaves a quarantined case out.
Skips(x) == x \in Laptop /\ Known(x).status = "QUARANTINED" /\ ~Allow

\* A recording has no use for what was read.
Records(x) ==
  /\ XGoto(x, "recording")
  /\ copy' = [copy EXCEPT ![x] = Unseen]
  /\ UNCHANGED outcome

\* A cycle that is no automation run, or is in mode RECORD, records whatever is there.
ForceRecord(x) ==
  /\ xpc[x] = "taken" /\ ~Skips(x)
  /\ Records(x)
  /\ UNCHANGED <<scripts, deciding, auto>>

ReadScript(x) ==
  /\ xpc[x] = "taken" /\ Known(x).log /\ ~Skips(x)
  /\ copy' = [copy EXCEPT ![x] = Known(x)]
  /\ XGoto(x, "replaying")
  /\ UNCHANGED <<scripts, outcome, deciding, auto>>

\* Without a log a runner records one; a server job runs the steps and writes no script.
ReadNoScript(x) ==
  /\ xpc[x] = "taken" /\ ~Known(x).log /\ ~Skips(x)
  /\ IF x \in Laptop THEN Records(x) ELSE Finished(x)
  /\ UNCHANGED <<scripts, deciding, auto>>

SkipQuarantined(x) ==
  /\ xpc[x] = "taken" /\ Skips(x)
  /\ Finished(x)
  /\ UNCHANGED <<scripts, deciding, auto>>

\* The upsert leaves stability and healCount alone.  Steps that threw leave an empty log: a
\* server job stores it, a runner's report does not.
RecordScript(x) ==
  /\ xpc[x] = "recording"
  /\ \E log \in {"recorded", IF x \in Server THEN "none" ELSE script.log} :
       script' = [script EXCEPT !.there = TRUE, !.log = log]
  /\ Finished(x)
  /\ UNCHANGED <<healLog, deciding, auto>>

--------------------------------------------------------------------------------
(* runFailurePipeline, as routeQaAgent leads it.                              *)

\* One rule heal, then proposals of the language model, then quarantine.
Heals(seen) ==
  CASE seen.heals = 0 -> {"unverified", IF MustReview THEN "pending" ELSE "committed"}
    [] seen.heals = 1 -> {IF LlmApproval THEN "pending" ELSE "failed"}
    [] OTHER          -> {"quarantined"}

\* Slip: a quarantined script is replayed like any other.
Replayed(seen) == {"passed", "failed"} \union Heals(seen)

runFailurePipeline(seen) ==
  IF seen.status = "QUARANTINED" THEN {"quarantined"}
  ELSE {"passed", "failed"} \union Heals(seen)

Replay(x) ==
  /\ xpc[x] = "replaying"
  /\ \E o \in runFailurePipeline(copy[x]) : outcome' = [outcome EXCEPT ![x] = o]
  /\ XGoto(x, "found")
  /\ UNCHANGED <<scripts, copy, deciding, auto>>

--------------------------------------------------------------------------------
(* The outcome is written.                                                    *)

Leaves(o) == o \in {"pending", "committed", "quarantined"}

Held == {held[h] : h \in {g \in Human : hand[g] # "idle"}}

\* A heal log is of interest when a human may decide on it.
CreateHealLog(o) ==
  IF o = "pending"
    THEN \E i \in HealLog \ Held : healLog[i] # "pending" /\ healLog' = [healLog EXCEPT ![i] = "pending"]
    ELSE UNCHANGED healLog

\* Nothing but the status of the last run is written.
NothingToWrite(x) ==
  /\ xpc[x] = "found" /\ ~Leaves(outcome[x])
  /\ x \in Server \/ outcome[x] # "passed"
  /\ Finished(x)
  /\ UNCHANGED <<scripts, deciding, auto>>

ServerLogs(x) ==
  /\ x \in Server /\ xpc[x] = "found" /\ Leaves(outcome[x])
  /\ CreateHealLog(outcome[x])
  /\ XGoto(x, "logged")
  /\ UNCHANGED <<script, copy, outcome, deciding, auto>>

\* Slip: the heal is committed and not counted.
Uncounted(x) == script.heals

CountHeal(x) == Capped(script.heals + 1, 2)

\* A proposal that waits for review writes back the stability that was read.
ServerWrites(x) ==
  /\ xpc[x] = "logged"
  /\ script' = CASE outcome[x] = "committed" ->
                      [script EXCEPT !.status = "WATCH", !.heals = CountHeal(x), !.log = "patched"]
                 [] outcome[x] = "quarantined" ->
                      [script EXCEPT !.status = "QUARANTINED", !.heals = CountHeal(x)]
                 [] OTHER -> [script EXCEPT !.status = copy[x].status]
  /\ auto' = IF outcome[x] = "committed" THEN auto + 1 ELSE auto
  /\ Finished(x)
  /\ UNCHANGED <<healLog, deciding>>

\* A runner's report: the row is written first, and its heal log after it.
LaptopReports(x) ==
  /\ x \in Laptop /\ xpc[x] = "found"
  /\ outcome[x] = "passed" \/ Leaves(outcome[x])
  /\ script' = CASE outcome[x] = "passed"      -> [script EXCEPT !.status = "STABLE"]
                 [] outcome[x] = "committed"   -> [script EXCEPT !.status = "WATCH", !.log = "patched",
                                                                 !.heals = copy[x].heals + 1]
                 [] outcome[x] = "quarantined" -> [script EXCEPT !.status = "QUARANTINED"]
                 [] OTHER                      -> script
  /\ auto' = IF outcome[x] = "committed" THEN auto + 1 ELSE auto
  /\ XGoto(x, "reported")
  /\ UNCHANGED <<healLog, copy, outcome, deciding>>

LaptopLogs(x) ==
  /\ xpc[x] = "reported"
  /\ CreateHealLog(outcome[x])
  /\ Finished(x)
  /\ UNCHANGED <<script, deciding, auto>>

\* The job is stopped, its browser fails or its process dies.
LoseCase(x) ==
  /\ xpc[x] # "idle"
  /\ Finished(x)
  /\ UNCHANGED <<scripts, deciding, auto>>

--------------------------------------------------------------------------------
(* Humans.                                                                    *)

\* Only a heal that awaits review is decided on ...
decideHeal(h, i, decision) ==
  /\ hand[h] = "idle" /\ healLog[i] = "pending"
  /\ hand' = [hand EXCEPT ![h] = decision]
  /\ held' = [held EXCEPT ![h] = i]
  /\ UNCHANGED <<scripts, executor, auto>>

RecordDecision(h) ==
  /\ hand[h] \in {"approve", "reject"}
  /\ healLog' = [healLog EXCEPT ![held[h]] = "decided"]
  /\ hand' = [hand EXCEPT ![h] = IF hand[h] = "approve" THEN "approved" ELSE "rejected"]
  /\ UNCHANGED <<script, executor, held, auto>>

\* ... and what was decided goes into the script as it is by then.
ApplyDecision(h) ==
  /\ hand[h] \in {"approved", "rejected"}
  /\ script' = IF hand[h] = "approved" THEN [script EXCEPT !.log = "patched", !.status = "WATCH"]
                                       ELSE [script EXCEPT !.status = "QUARANTINED"]
  /\ hand' = [hand EXCEPT ![h] = "idle"]
  /\ UNCHANGED <<healLog, executor, held, auto>>

clearQuarantine ==
  /\ script.there
  /\ script' = [script EXCEPT !.status = "WATCH"]
  /\ UNCHANGED <<healLog, executor, deciding, auto>>

rerecordScript ==
  /\ script.there
  /\ script' = [script EXCEPT !.log = "none", !.status = "WATCH", !.heals = 0]
  /\ auto' = 0
  /\ UNCHANGED <<healLog, executor, deciding>>

--------------------------------------------------------------------------------
ExecutorStep(x) ==
  \/ TakeCase(x) \/ ForceRecord(x) \/ ReadScript(x) \/ ReadNoScript(x) \/ SkipQuarantined(x)
  \/ RecordScript(x) \/ Replay(x) \/ NothingToWrite(x)
  \/ ServerLogs(x) \/ ServerWrites(x) \/ LaptopReports(x) \/ LaptopLogs(x) \/ LoseCase(x)

Decides(h) == RecordDecision(h) \/ ApplyDecision(h)

HealingNext ==
  \/ \E x \in Executor : ExecutorStep(x)
  \/ \E h \in Human : Decides(h) \/ \E i \in HealLog, d \in {"approve", "reject"} : decideHeal(h, i, d)
  \/ clearQuarantine \/ rerecordScript

HealingSpec == HealingInit /\ [][HealingNext]_healingVars

--------------------------------------------------------------------------------
\* Between two resets of healCount a script is patched with no human at most as often as
\* executors overlap: once, when they do not ("LLM healer is not auto-applied", and the rule
\* healer only starts from a count of zero).  Server jobs count from the row, runners from
\* what they read.
AutoHealsBounded == auto <= Cardinality(DOMAIN xpc)

\* The executor read the script when it was not quarantined, and has not written yet.
Behind(x) == xpc[x] \in {"replaying", "found", "logged"} /\ copy[x].status # "QUARANTINED"

\* A quarantine is lifted by humans only, apart from executors that were on the case when it
\* was imposed: no run that finds the script quarantined brings it back.
QuarantineHolds ==
  [][script.status = "QUARANTINED" /\ script'.status # "QUARANTINED" =>
       UNCHANGED executor \/ \E x \in DOMAIN xpc : Behind(x)]_healingVars
=============================================================================
