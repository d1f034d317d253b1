---------------------------- MODULE AiGenerateRun ----------------------------
(***************************************************************************)
(* One AI generate run: the request that creates it, the job that writes   *)
(* its suggestions, the human who accepts or rejects them, and the apply   *)
(* that turns the accepted ones into library cases.                        *)
(*                                                                         *)
(* The worker (ai-generate-job.ts) deletes the old suggestions, inserts    *)
(* the new ones and marks the run READY in three writes; the API's inline  *)
(* copy, used when there is no Redis, does so in one transaction.  A job   *)
(* whose slot dies is delivered once more (BullMQ's stalled check), and    *)
(* with "stall" also one whose slot is alive but did not renew its lock.   *)
(* It has one attempt: what throws past the handler is not tried again.    *)
(***************************************************************************)
EXTENDS Integers, FiniteSets

CONSTANTS
  Slots,           \* worker slots
  Drafts,          \* test cases one generation produces
  MaxStalls,       \* deliveries BullMQ makes again after a stall (1)
  MaxCrashes,      \* bound: slots that die
  GenHazards       \* "fail": a query throws; "outage": one that nothing catches; "stall": a live slot loses its lock

ASSUME GenAssumption ==
  /\ IsFiniteSet(Slots)
  /\ MaxStalls \in Nat /\ MaxCrashes \in Nat

VARIABLES
  state,           \* aiGenerateRun.status, "NONE" before the row is there
  inline,          \* the request works on the run itself
  job,             \* the job: none, waiting, active, gone, failed
  stalls,          \* deliveries made again so far
  gpc,             \* slot: idle, claimed, writing, inserting, closing
  rows,            \* aiGenerateSuggestion rows: draft, batch, decision
  batches,         \* insertions so far; names the batch a row belongs to
  patched,         \* the suggestion a PATCH has found and is about to update
  library,         \* test cases that apply created
  twin,            \* history: a job was delivered again while its first slot was alive
  decided,         \* history: what a human accepted while the run was READY
  gcrashes

genVars == <<state, inline, job, stalls, gpc, rows, batches, patched, library, decided, twin, gcrashes>>

States  == {"NONE", "PENDING", "RUNNING", "READY", "FAILED"}
Settled == {"READY", "FAILED"}
MaxBatches == 1 + MaxStalls
Rows == [draft : Drafts, batch : 1..MaxBatches, decision : {"pending", "accepted", "rejected"}]

GenType ==
  /\ state \in States
  /\ inline \in BOOLEAN
  /\ job \in {"none", "waiting", "active", "gone", "failed"}
  /\ stalls \in 0..MaxStalls
  /\ gpc \in [Slots -> {"idle", "claimed", "writing", "inserting", "closing"}]
  /\ rows \subseteq Rows
  /\ batches \in 0..MaxBatches
  /\ patched \subseteq Rows /\ Cardinality(patched) <= 1
  /\ library \subseteq [draft : Drafts, batch : 1..MaxBatches]
  /\ decided \subseteq Rows
  /\ twin \in BOOLEAN
  /\ gcrashes \in 0..MaxCrashes

GenInit ==
  /\ state = "NONE"
  /\ inline = FALSE
  /\ job = "none"
  /\ stalls = 0
  /\ gpc = [w \in Slots |-> "idle"]
  /\ rows = {}
  /\ batches = 0
  /\ patched = {}
  /\ library = {}
  /\ decided = {}
  /\ twin = FALSE
  /\ gcrashes = 0

GenGoto(w, p) == gpc' = [gpc EXCEPT ![w] = p]

--------------------------------------------------------------------------------
(* The request.                                                               *)

StartRun ==
  /\ state = "NONE"
  /\ state' = "PENDING"
  /\ UNCHANGED <<inline, job, stalls, gpc, rows, batches, patched, library, decided, twin, gcrashes>>

EnqueueRun ==
  /\ state = "PENDING" /\ job = "none" /\ ~inline
  /\ job' = "waiting"
  /\ UNCHANGED <<state, inline, stalls, gpc, rows, batches, patched, library, decided, twin, gcrashes>>

\* Without a queue the request claims the run for itself.
ClaimInline ==
  /\ state = "PENDING" /\ job = "none" /\ ~inline
  /\ inline' = TRUE
  /\ state' = "RUNNING"
  /\ UNCHANGED <<job, stalls, gpc, rows, batches, patched, library, decided, twin, gcrashes>>

NewBatch == {[draft |-> d, batch |-> batches + 1, decision |-> "pending"] : d \in Drafts}

\* The drafts that duplicate a library case are rejected from the start.
Inserted(rejected) ==
  {IF r.draft \in rejected THEN [r EXCEPT !.decision = "rejected"] ELSE r : r \in NewBatch}

\* One transaction: the old rows out, the new ones in, the run READY.
ReplaceInline(rejected) ==
  /\ inline /\ state = "RUNNING"
  /\ rows' = Inserted(rejected)
  /\ batches' = batches + 1
  /\ state' = "READY"
  /\ UNCHANGED <<inline, job, stalls, gpc, patched, library, decided, twin, gcrashes>>

FailInline ==
  /\ inline /\ state = "RUNNING"
  /\ state' = "FAILED"
  /\ UNCHANGED <<inline, job, stalls, gpc, rows, batches, patched, library, decided, twin, gcrashes>>

--------------------------------------------------------------------------------
(* The job.                                                                   *)

NotFailed == state # "FAILED"   \* Slip: a run that is READY is generated again

OnlyPending == state = "PENDING"   \* Slip: a RUNNING run is nobody's to take over

\* PENDING is claimed; RUNNING is taken over from a delivery that must have died.
Claimable == state \in {"PENDING", "RUNNING"}

DeliverJob(w) ==
  /\ job = "waiting" /\ gpc[w] = "idle"
  /\ IF Claimable
       THEN job' = "active" /\ state' = "RUNNING" /\ GenGoto(w, "claimed")
       ELSE job' = "gone" /\ UNCHANGED <<state, gpc>>
  /\ UNCHANGED <<inline, stalls, rows, batches, patched, library, decided, twin, gcrashes>>

\* Slip: the suggestions of an earlier delivery are left.
KeepOld(w) ==
  /\ gpc[w] = "claimed"
  /\ GenGoto(w, "writing")
  /\ UNCHANGED <<state, inline, job, stalls, rows, batches, patched, library, decided, twin, gcrashes>>

\* The model is asked, then the old suggestions are deleted.
DeleteOld(w) ==
  /\ gpc[w] = "claimed"
  /\ rows' = {}
  /\ GenGoto(w, "writing")
  /\ UNCHANGED <<state, inline, job, stalls, batches, patched, library, decided, twin, gcrashes>>

InsertNew(w, rejected) ==
  /\ gpc[w] = "writing"
  /\ rows' = rows \union Inserted(rejected)
  /\ batches' = batches + 1
  /\ GenGoto(w, "inserting")
  /\ UNCHANGED <<state, inline, job, stalls, patched, library, decided, twin, gcrashes>>

MarkReady(w) ==
  /\ gpc[w] = "inserting"
  /\ state' = "READY"
  /\ GenGoto(w, "closing")
  /\ UNCHANGED <<inline, job, stalls, rows, batches, patched, library, decided, twin, gcrashes>>

\* Any query of the try block throws; the handler catches it, so BullMQ sees no failure.
FailRun(w) ==
  /\ "fail" \in GenHazards
  /\ gpc[w] \in {"claimed", "writing", "inserting"}
  /\ state' = "FAILED"
  /\ GenGoto(w, "closing")
  /\ UNCHANGED <<inline, job, stalls, rows, batches, patched, library, decided, twin, gcrashes>>

\* A query before the try block throws, or the update of the catch block: the job has failed,
\* its only attempt is spent, and the run stays as it is.
LoseRun(w) ==
  /\ "outage" \in GenHazards
  /\ \/ job = "waiting" /\ gpc[w] = "idle" /\ job' = "failed" /\ UNCHANGED gpc
     \/ /\ gpc[w] \in {"claimed", "writing", "inserting"}
        /\ job' = IF job = "active" THEN "failed" ELSE job
        /\ GenGoto(w, "idle")
  /\ UNCHANGED <<state, inline, stalls, rows, batches, patched, library, decided, twin, gcrashes>>

\* The handler returns; a slot that lost its lock has nothing left to complete.
CompleteJob(w) ==
  /\ gpc[w] = "closing"
  /\ GenGoto(w, "idle")
  /\ job' = IF job = "active" THEN "gone" ELSE job
  /\ UNCHANGED <<state, inline, stalls, rows, batches, patched, library, decided, twin, gcrashes>>

\* The slot dies; the stalled check puts the job back while it may, and fails it after that.
CrashSlot(w) ==
  /\ gcrashes < MaxCrashes
  /\ gpc[w] # "idle" /\ job = "active"
  /\ gcrashes' = gcrashes + 1
  /\ GenGoto(w, "idle")
  /\ IF stalls < MaxStalls
       THEN job' = "waiting" /\ stalls' = stalls + 1
       ELSE job' = "failed" /\ UNCHANGED stalls
  /\ UNCHANGED <<state, inline, rows, batches, patched, library, decided, twin>>

\* The slot is alive and too busy to renew its lock: a second slot may get the job.
Stall ==
  /\ "stall" \in GenHazards
  /\ job = "active" /\ stalls < MaxStalls
  /\ job' = "waiting"
  /\ stalls' = stalls + 1
  /\ twin' = TRUE
  /\ UNCHANGED <<state, inline, gpc, rows, batches, patched, library, decided, gcrashes>>

--------------------------------------------------------------------------------
(* The human.                                                                 *)

Undecided(r) == [r EXCEPT !.decision = "pending"]

\* patchAiSuggestion looks the row up, then updates it by id.
FindSuggestion(r) ==
  /\ patched = {}
  /\ r \in rows
  /\ patched' = {r}
  /\ UNCHANGED <<state, inline, job, stalls, gpc, rows, batches, library, decided, twin, gcrashes>>

\* An update of a row that has been deleted throws.
DecideSuggestion(d) ==
  \E r \in patched :
    /\ patched' = {}
    /\ IF r \in rows
         THEN /\ rows' = (rows \ {r}) \union {[r EXCEPT !.decision = d]}
              /\ decided' = IF state = "READY"
                              THEN {x \in decided : Undecided(x) # Undecided(r)}
                                     \union (IF d = "accepted" THEN {[r EXCEPT !.decision = d]} ELSE {})
                              ELSE decided
         ELSE UNCHANGED <<rows, decided>>
    /\ UNCHANGED <<state, inline, job, stalls, gpc, batches, library, twin, gcrashes>>

\* Apply creates a case per accepted suggestion; nothing marks them as applied.
ApplyRun ==
  LET accepted == {r \in rows : r.decision = "accepted"}
  IN  /\ accepted # {}
      /\ library' = library \union {[draft |-> r.draft, batch |-> r.batch] : r \in accepted}
      /\ UNCHANGED <<state, inline, job, stalls, gpc, rows, batches, patched, decided, twin, gcrashes>>

--------------------------------------------------------------------------------
SlotStep(w) ==
  \/ DeliverJob(w) \/ DeleteOld(w) \/ MarkReady(w) \/ FailRun(w) \/ LoseRun(w) \/ CompleteJob(w)
  \/ \E rejected \in SUBSET Drafts : InsertNew(w, rejected)

InlineStep == FailInline \/ \E rejected \in SUBSET Drafts : ReplaceInline(rejected)

HumanStep == (\E r \in rows : FindSuggestion(r)) \/ (\E d \in {"accepted", "rejected"} : DecideSuggestion(d)) \/ ApplyRun

GenNext ==
  \/ StartRun \/ EnqueueRun \/ ClaimInline \/ InlineStep \/ HumanStep \/ Stall
  \/ \E w \in Slots : SlotStep(w) \/ CrashSlot(w)

GenSpec == GenInit /\ [][GenNext]_genVars

--------------------------------------------------------------------------------
\* A READY run shows the drafts of one generation, each once, also after a slot died half way
\* through the three writes (they are not a transaction in the worker); a live slot that lost
\* its job to another may double them.
ReadyIsOneBatch ==
  state = "READY" /\ ~twin => \A d \in Drafts : Cardinality({r \in rows : r.draft = d}) = 1

\* What a human accepted on a READY run is not taken away by a late or repeated delivery.
DecisionsKept == ~twin => decided \subseteq rows

\* A run that has been queued is READY or FAILED in the end, also when a query of the generation
\* throws and when a slot dies half way; what nothing catches, and a second death, have BullMQ
\* fail the job instead, and leave the run PENDING or RUNNING.
GenerateSettles == job = "waiting" ~> state \in Settled \/ job = "failed"
=============================================================================
