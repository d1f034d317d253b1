------------------------------ MODULE MCServices ------------------------------
(***************************************************************************)
(* The services around the STLC run, each on an instance of its own.  They *)
(* share neither rows nor keys, so nothing is gained from their product:   *)
(* a behaviour has one subject, chosen at the start, and the rest stands   *)
(* still.                                                                  *)
(***************************************************************************)
EXTENDS ContinueSignal, Clarification, RequirementReview, AiGenerateRun, PlanUsage, Subscription,
        ScriptHealing, CaseLibrary

VARIABLE subject

\* Beside two rounds of an STLC run with two slots: one slot that may die, and every fault; and
\* a FULL run, which keeps its slot while it asks.
Faults == INSTANCE Clarification
  WITH Slot <- {"w1"}, MaxClarifyRounds <- 3, MaxAttempts <- 2, MaxRows <- 3, MaxDeaths <- 1,
       ClarifyHazards <- {"fault", "project"}
Once == INSTANCE Clarification
  WITH Mode <- "FULL", Slot <- {"w1"}, MaxClarifyRounds <- 1, MaxAttempts <- 2, MaxJobs <- 3,
       MaxRows <- 1, MaxDeaths <- 1, ClarifyHazards <- {"fault", "timer"}

\* Beside two users on one requirement: one user on two, with Jira imports; one user, whose
\* requests may throw and whose API may die.
Alone == INSTANCE RequirementReview
  WITH Req <- {1, 2}, Client <- {"q1"}, ReviewHazards <- {"jira"}
Broken == INSTANCE RequirementReview
  WITH Client <- {"q1"}, MaxRestarts <- 1, ReviewHazards <- {"throw", "outage"}

\* Beside one draft, slots that die or lose their job while they are alive, and queries that
\* throw: two drafts, without the lost jobs.
Drafted == INSTANCE AiGenerateRun WITH Drafts <- {"d1", "d2"}, GenHazards <- {"fail"}

\* Beside the server job and the LEAD that the configuration gives: a runner and a LEAD, heals
\* of the language model and quarantined scripts let through; a server job beside a runner.
Runners == INSTANCE ScriptHealing
  WITH Server <- {}, Laptop <- {"l1"}, Human <- {"h1"}, HealLog <- {"i1"},
       LlmApproval <- TRUE, Allow <- TRUE, MustReview <- FALSE
Overlap == INSTANCE ScriptHealing
  WITH Server <- {"s1"}, Laptop <- {"l1"}, Human <- {}, HealLog <- {"i1"},
       LlmApproval <- TRUE, Allow <- FALSE, MustReview <- FALSE

\* Beside the form of the configuration: a grounding that overlaps other requests, with a new URL.
Grounds == INSTANCE CaseLibrary
  WITH Editor <- {}, Grounder <- {"g1"}, Urls <- {"a", "b"}, MaxText <- 3

ServicesInit ==
  /\ subject \in {"signal", "usage", "race", "alone", "broken",
                 "generate", "stalled", "rounds", "faults", "once", "billing",
                 "heals", "runners", "overlap", "edits", "grounds"}
  /\ Init /\ UsageInit /\ SubscriptionInit
  /\ CASE subject = "alone"  -> Alone!ReviewInit
       [] subject = "broken" -> Broken!ReviewInit
       [] OTHER              -> ReviewInit
  /\ IF subject = "generate" THEN Drafted!GenInit ELSE GenInit
  /\ CASE subject = "faults" -> Faults!ClarifyInit
       [] subject = "once"   -> Once!ClarifyInit
       [] OTHER              -> ClarifyInit
  /\ CASE subject = "runners" -> Runners!HealingInit
       [] subject = "overlap" -> Overlap!HealingInit
       [] OTHER               -> HealingInit
  /\ IF subject = "grounds" THEN Grounds!CaseInit ELSE CaseInit

ServicesNext ==
  /\ UNCHANGED subject
  /\ \/ /\ subject = "signal" /\ Next
        /\ UNCHANGED <<usageVars, reviewVars, genVars, clarifyVars, subscriptionVars, healingVars, caseVars>>
     \/ /\ subject = "usage" /\ UsageNext
        /\ UNCHANGED <<vars, reviewVars, genVars, clarifyVars, subscriptionVars, healingVars, caseVars>>
     \/ /\ \/ subject = "race" /\ ReviewNext
           \/ subject = "alone" /\ Alone!ReviewNext
           \/ subject = "broken" /\ Broken!ReviewNext
        /\ UNCHANGED <<vars, usageVars, genVars, clarifyVars, subscriptionVars, healingVars, caseVars>>
     \/ /\ \/ subject = "generate" /\ Drafted!GenNext
           \/ subject = "stalled" /\ GenNext
        /\ UNCHANGED <<vars, usageVars, reviewVars, clarifyVars, subscriptionVars, healingVars, caseVars>>
     \/ /\ \/ subject = "rounds" /\ ClarifyNext
           \/ subject = "faults" /\ Faults!ClarifyNext
           \/ subject = "once" /\ Once!ClarifyNext
        /\ UNCHANGED <<vars, usageVars, reviewVars, genVars, subscriptionVars, healingVars, caseVars>>
     \/ /\ subject = "billing" /\ SubscriptionNext
        /\ UNCHANGED <<vars, usageVars, reviewVars, genVars, clarifyVars, healingVars, caseVars>>
     \/ /\ \/ subject = "heals" /\ HealingNext
           \/ subject = "runners" /\ Runners!HealingNext
           \/ subject = "overlap" /\ Overlap!HealingNext
        /\ UNCHANGED <<vars, usageVars, reviewVars, genVars, clarifyVars, subscriptionVars, caseVars>>
     \/ /\ \/ subject = "edits" /\ CaseNext
           \/ subject = "grounds" /\ Grounds!CaseNext
        /\ UNCHANGED <<vars, usageVars, reviewVars, genVars, clarifyVars, subscriptionVars, healingVars>>

\* Redis, the worker's event loop, its interval timer and the handlers keep going; the
\* 30 minute timer is not assumed to fire.
SignalFair ==
  /\ WF_vars(subject = "signal" /\ Worker) /\ WF_vars(subject = "signal" /\ PollTick)
  /\ WF_vars(subject = "signal" /\ Redis) /\ WF_vars(subject = "signal" /\ Api)

\* A handler that has begun goes on until it returns or throws.  A behaviour has one subject,
\* so what is assumed of a handler or a slot of each subject is one assumption.
ReviewFair ==
  /\ WF_reviewVars(\/ subject = "race"   /\ (ReviewStep("q1") \/ SomeStep("q1"))
                   \/ subject = "alone"  /\ (Alone!ReviewStep("q1") \/ Alone!SomeStep("q1"))
                   \/ subject = "broken" /\ (Broken!ReviewStep("q1") \/ Broken!SomeStep("q1")))
  /\ WF_reviewVars(subject = "race" /\ (ReviewStep("q2") \/ SomeStep("q2")))

\* A slot that has a job works on it, and a waiting job finds a slot.
GenerateFair ==
  WF_genVars(\/ subject = "generate" /\ \E w \in {"w1", "w2"} : Drafted!SlotStep(w)
             \/ subject = "stalled"  /\ \E w \in {"w1", "w2"} : SlotStep(w))

\* A slot and a handler go on; nobody has to answer, and nothing has to fail.
ClarifyFair ==
  /\ WF_clarifyVars(\/ subject = "rounds" /\ SlotWorks("w1")
                    \/ subject = "faults" /\ Faults!SlotWorks("w1")
                    \/ subject = "once"   /\ Once!SlotWorks("w1"))
  /\ WF_clarifyVars(subject = "rounds" /\ SlotWorks("w2"))
  /\ WF_clarifyVars(\/ subject = "rounds" /\ HandlerWorks("q1")
                    \/ subject = "faults" /\ Faults!HandlerWorks("q1")
                    \/ subject = "once"   /\ Once!HandlerWorks("q1"))

ServicesSpec ==
  /\ ServicesInit
  /\ [][ServicesNext]_<<subject, vars, usageVars, reviewVars, genVars, clarifyVars, subscriptionVars, healingVars, caseVars>>
  /\ SignalFair /\ ReviewFair /\ GenerateFair /\ ClarifyFair

--------------------------------------------------------------------------------
(* The properties are those of the modules, and each is checked of every instance: none     *)
(* speaks of a constant that differs between the instances of its module, except two.       *)
(* ReadyIsOneBatch speaks of the first of Drafted's two drafts, and they are alike;         *)
(* WaitsForAQuestion takes Once, a FULL run, for one of STLC, and holds of it all the same. *)

\* Every module's variables keep their types.
ServicesType ==
  /\ TypeOK /\ UsageType /\ SubscriptionType
  /\ CASE subject = "alone"  -> Alone!ReviewType
       [] subject = "broken" -> Broken!ReviewType
       [] OTHER              -> ReviewType
  /\ IF subject = "generate" THEN Drafted!GenType ELSE GenType
  /\ CASE subject = "faults" -> Faults!ClarifyType
       [] subject = "once"   -> Once!ClarifyType
       [] OTHER              -> ClarifyType
  /\ CASE subject = "runners" -> Runners!HealingType
       [] subject = "overlap" -> Overlap!HealingType
       [] OTHER               -> HealingType
  /\ IF subject = "grounds" THEN Grounds!CaseType ELSE CaseType
=============================================================================
