-------------------------- MODULE ManualCycleProofs --------------------------
(***************************************************************************)
(* What a manual cycle guarantees for any number of local runners, worker  *)
(* slots, requests and cases, and whatever fails, expires or crashes: its  *)
(* types, one runner for each offer, a pause that holds, and ends that     *)
(* local runners spare.                                                    *)
(***************************************************************************)
EXTENDS ManualCycle, TLAPS

\* Where an executor stands bounds what it has done, and so the type of done.
Progress ==
  \A s \in Slots :
    epc[s] \in {"idle", "read", "launch", "check", "hold", "held", "free", "case"} => done[s] < NumCases

\* Why a pause holds: the step to "free" needs the flag down, and a case begun under the
\* flag is behind its executor's last look at it.
PauseSeen ==
  \A s \in Slots : since[s] \in {0, 1} /\ (since[s] = 1 => pauseFlag /\ epc[s] # "free")

\* Why a claim is exclusive: it is made on a PENDING row only, and each step that makes
\* the row PENDING starts an offer of its own.
OfferOpen ==
  /\ takes \in {0, 1}
  /\ status = "PENDING" => takes = 0

IInv == TypeOK /\ Progress /\ PauseSeen /\ OfferOpen

LEMMA InitIInv == Init => IInv
<1> SUFFICES ASSUME Init PROVE IInv
  OBVIOUS
<1> USE CycleAssumption DEF Init
<1>1. status \in Statuses /\ sel \in Selections /\ Unset \in Selections
  BY DEF Statuses, Selections, Unset
<1>2. epc \in [Slots -> ExecutorSteps] /\ rop \in [Requests -> Operations]
  BY DEF ExecutorSteps, Operations
<1>3. TypeOK
  <2>1. /\ done \in [Slots -> 0..NumCases] /\ since \in [Slots -> 0..NumCases]
        /\ lpc \in [Runners -> {"idle", "found", "taken", "work", "finish", "close"}]
        /\ lout \in [Runners -> {"RUNNING", "CANCELLED"}]
    OBVIOUS
  <2>2. /\ rpc \in [Requests -> {"idle", "reopen", "load", "row", "job", "flag"}]
        /\ rsel \in [Requests -> Selections]
    BY <1>1
  <2>3. /\ jobs \in Nat /\ takes \in Nat /\ runs \in 0..MaxRuns /\ crashes \in 0..MaxCrashes
        /\ last \in {"stop", "run", "other", "failure"}
    OBVIOUS
  <2>4. pauseFlag \in BOOLEAN /\ cancelFlag \in BOOLEAN
    OBVIOUS
  <2> QED BY <1>1, <1>2, <2>1, <2>2, <2>3, <2>4 DEF TypeOK
<1>4. Progress /\ PauseSeen
  BY DEF Progress, PauseSeen
<1>5. OfferOpen
  BY DEF OfferOpen
<1> QED BY <1>3, <1>4, <1>5 DEF IInv

-----------------------------------------------------------------------------
(* The steps of an executor that write no row, and those that do *)

\* A move of an executor keeps the parts of the invariant that speak of executors, where
\* the move to "free" comes with the pause-flag down and a move on keeps done in bounds.
LEMMA MoveExecutor ==
  ASSUME IInv, NEW s \in Slots, NEW step \in ExecutorSteps, ExecutorGoto(s, step),
         UNCHANGED pauseFlag,
         step = "free" => ~pauseFlag,
         epc[s] \in {"idle", "read", "launch", "check", "hold", "held", "free", "case"}
           \/ step \in {"idle", "cancel", "settle", "finish"}
  PROVE  /\ epc' \in [Slots -> ExecutorSteps]
         /\ done' \in [Slots -> 0..NumCases]
         /\ since' \in [Slots -> 0..NumCases]
         /\ Progress' /\ PauseSeen'
<1> USE CycleAssumption DEF IInv, TypeOK
<1>1. epc' = [epc EXCEPT ![s] = step] /\ epc' \in [Slots -> ExecutorSteps]
  BY DEF ExecutorGoto
<1>2. done' \in [Slots -> 0..NumCases] /\ since' \in [Slots -> 0..NumCases]
  BY DEF ExecutorGoto
<1>3. ASSUME NEW t \in Slots
      PROVE  epc'[t] \in {"idle", "read", "launch", "check", "hold", "held", "free", "case"}
               => done'[t] < NumCases
  <2>1. CASE t = s /\ step = "idle"
    BY <1>1, <2>1 DEF ExecutorGoto
  <2>2. CASE t = s /\ step # "idle"
    BY <1>1, <2>2 DEF ExecutorGoto, Progress
  <2>3. CASE t # s
    BY <1>1, <2>3 DEF ExecutorGoto, Progress
  <2> QED BY <2>1, <2>2, <2>3
<1>4. ASSUME NEW t \in Slots
      PROVE  since'[t] \in {0, 1} /\ (since'[t] = 1 => pauseFlag' /\ epc'[t] # "free")
  <2>1. CASE t = s /\ step = "idle"
    BY <1>1, <2>1 DEF ExecutorGoto
  <2>2. CASE t = s /\ step # "idle"
    BY <1>1, <2>2 DEF ExecutorGoto, PauseSeen
  <2>3. CASE t # s
    BY <1>1, <2>3 DEF ExecutorGoto, PauseSeen
  <2> QED BY <2>1, <2>2, <2>3
<1> QED BY <1>1, <1>2, <1>3, <1>4 DEF Progress, PauseSeen

\* What an executor step leaves alone, with the row it may write, keeps its part of IInv.
LEMMA ExecutorKeeps ==
  ASSUME IInv, status' \in Statuses, status' = "PENDING" => status = "PENDING",
         jobs' \in Nat, crashes' \in 0..MaxCrashes,
         last' \in {"stop", "run", "other", "failure"},
         UNCHANGED <<sel, flags, runner, request, runs, takes>>,
         epc' \in [Slots -> ExecutorSteps],
         done' \in [Slots -> 0..NumCases], since' \in [Slots -> 0..NumCases],
         Progress', PauseSeen'
  PROVE  IInv'
  BY DEF IInv, TypeOK, OfferOpen, flags, runner, request

LEMMA ExecutorStepIInv ==
  ASSUME IInv, NEW s \in Slots, ExecutorStep(s) PROVE IInv'
<1> USE DEF ExecutorOnly, row, flags, bounds
<1> TypeOK /\ "idle" \in ExecutorSteps
  BY DEF IInv, ExecutorSteps
<1>1. CASE TakeJob(s)
  <2>1. ExecutorGoto(s, "read") /\ "read" \in ExecutorSteps /\ epc[s] = "idle" /\ UNCHANGED pauseFlag
    BY <1>1 DEF TakeJob, ExecutorSteps
  <2>2. jobs' \in Nat
    BY <1>1 DEF TakeJob, TypeOK
  <2> QED BY <1>1, <2>1, <2>2, MoveExecutor, ExecutorKeeps DEF TakeJob, TypeOK
<1>2. CASE ReadCycle(s)
  <2>1. PICK step \in {"idle", "launch"} : ExecutorGoto(s, step)
    BY <1>2 DEF ReadCycle
  <2>2. step \in ExecutorSteps /\ epc[s] = "read" /\ UNCHANGED pauseFlag /\ step # "free"
    BY <1>2, <2>1 DEF ReadCycle, ExecutorSteps
  <2> QED BY <1>2, <2>1, <2>2, MoveExecutor, ExecutorKeeps DEF ReadCycle, TypeOK
<1>3. CASE StartCases(s)
  <2>1. ExecutorGoto(s, "check") /\ "check" \in ExecutorSteps /\ epc[s] = "launch" /\ UNCHANGED pauseFlag
    BY <1>3 DEF StartCases, ExecutorSteps
  <2>2. status' = "RUNNING" /\ status' \in Statuses
    BY <1>3 DEF StartCases, SetStatus, Statuses
  <2> QED BY <1>3, <2>1, <2>2, MoveExecutor, ExecutorKeeps DEF StartCases, SetStatus, TypeOK
<1>4. CASE CheckCancel(s)
  <2>1. PICK step \in {"cancel", "hold"} : ExecutorGoto(s, step)
    BY <1>4 DEF CheckCancel
  <2>2. step \in ExecutorSteps /\ epc[s] = "check" /\ UNCHANGED pauseFlag /\ step # "free"
    BY <1>4, <2>1 DEF CheckCancel, ExecutorSteps
  <2> QED BY <1>4, <2>1, <2>2, MoveExecutor, ExecutorKeeps DEF CheckCancel, TypeOK
<1>5. CASE Hold(s)
  <2>1. PICK step \in {"held", "free"} : ExecutorGoto(s, step) /\ (step = "free" => ~pauseFlag)
    BY <1>5 DEF Hold
  <2>2. step \in ExecutorSteps /\ epc[s] = "hold" /\ UNCHANGED pauseFlag
    BY <1>5, <2>1 DEF Hold, ExecutorSteps
  <2> QED BY <1>5, <2>1, <2>2, MoveExecutor, ExecutorKeeps DEF Hold, TypeOK
<1>6. CASE Held(s)
  <2>1. PICK step \in {"cancel", "hold"} : ExecutorGoto(s, step)
    BY <1>6 DEF Held
  <2>2. step \in ExecutorSteps /\ epc[s] = "held" /\ UNCHANGED pauseFlag /\ step # "free"
    BY <1>6, <2>1 DEF Held, ExecutorSteps
  <2> QED BY <1>6, <2>1, <2>2, MoveExecutor, ExecutorKeeps DEF Held, TypeOK
<1>7. CASE BeginCase(s)
  <2>1. CASE cancelFlag
    <3>1. ExecutorGoto(s, "cancel") /\ "cancel" \in ExecutorSteps /\ epc[s] = "free" /\ UNCHANGED pauseFlag
      BY <1>7, <2>1 DEF BeginCase, ExecutorSteps
    <3> QED BY <1>7, <3>1, MoveExecutor, ExecutorKeeps DEF BeginCase, TypeOK
  <2>2. CASE ~cancelFlag
    <3>1. /\ epc[s] = "free" /\ UNCHANGED <<pauseFlag, done>>
          /\ epc' = [epc EXCEPT ![s] = "case"]
          /\ since' = [since EXCEPT ![s] = IF pauseFlag THEN since[s] + 1 ELSE 0]
      BY <1>7, <2>2 DEF BeginCase
    <3>2. since[s] = 0 /\ done[s] < NumCases
      BY <3>1 DEF IInv, PauseSeen, Progress
    <3>3. epc' \in [Slots -> ExecutorSteps] /\ since' \in [Slots -> 0..NumCases]
      BY <3>1, <3>2, CycleAssumption DEF TypeOK, ExecutorSteps
    <3>4. Progress'
      BY <3>1, <3>2 DEF IInv, Progress, TypeOK
    <3>5. PauseSeen'
      BY <3>1, <3>2 DEF IInv, PauseSeen, TypeOK
    <3> QED BY <1>7, <2>2, <3>1, <3>3, <3>4, <3>5, ExecutorKeeps DEF BeginCase, TypeOK
  <2> QED BY <2>1, <2>2
<1>8. CASE CaseDone(s)
  <2>1. /\ epc[s] = "case" /\ UNCHANGED <<pauseFlag, since>>
        /\ done' = [done EXCEPT ![s] = done[s] + 1]
        /\ epc' = [epc EXCEPT ![s] = IF done'[s] = NumCases THEN "settle" ELSE "check"]
    BY <1>8 DEF CaseDone
  <2>2. done[s] < NumCases
    BY <2>1 DEF IInv, Progress
  <2>3. epc' \in [Slots -> ExecutorSteps] /\ done' \in [Slots -> 0..NumCases]
    BY <2>1, <2>2, CycleAssumption DEF TypeOK, ExecutorSteps
  <2>4. Progress'
    BY <2>1, <2>2, CycleAssumption DEF IInv, Progress, TypeOK
  <2>5. PauseSeen'
    BY <2>1 DEF IInv, PauseSeen, TypeOK
  <2> QED BY <1>8, <2>1, <2>3, <2>4, <2>5, ExecutorKeeps DEF CaseDone, TypeOK
<1>9. CASE Settle(s)
  <2>1. PICK step \in {"cancel", "idle", "finish"} : ExecutorGoto(s, step)
    BY <1>9 DEF Settle
  <2>2. step \in ExecutorSteps /\ UNCHANGED pauseFlag /\ step # "free"
    BY <1>9, <2>1 DEF Settle, ExecutorSteps
  <2> QED BY <1>9, <2>1, <2>2, MoveExecutor, ExecutorKeeps DEF Settle, TypeOK
<1>10. CASE WriteCancelled(s)
  <2>1. ExecutorGoto(s, "idle") /\ UNCHANGED pauseFlag
    BY <1>10 DEF WriteCancelled
  <2>2. status' = "CANCELLED" /\ status' \in Statuses
    BY <1>10 DEF WriteCancelled, SetStatus, Statuses, Ends
  <2> QED BY <1>10, <2>1, <2>2, MoveExecutor, ExecutorKeeps DEF WriteCancelled, SetStatus, TypeOK
<1>11. CASE WriteFinished(s)
  <2>1. ExecutorGoto(s, "idle") /\ UNCHANGED pauseFlag
    BY <1>11 DEF WriteFinished
  <2>2. UNCHANGED sel /\ status' \in Statuses /\ (status' = "PENDING" => status = "PENDING")
    BY <1>11 DEF WriteFinished, SetStatus, Statuses, TypeOK
  <2> QED BY <1>11, <2>1, <2>2, MoveExecutor, ExecutorKeeps DEF WriteFinished, TypeOK
<1> QED BY <1>1, <1>2, <1>3, <1>4, <1>5, <1>6, <1>7, <1>8, <1>9, <1>10, <1>11 DEF ExecutorStep

LEMMA ExecutorFailureIInv ==
  ASSUME IInv, NEW s \in Slots, ExecutorFails(s) \/ ExecutorThrows(s) \/ ExecutorCrash(s)
  PROVE  IInv'
<1> USE DEF ExecutorOnly, row, flags, bounds
<1>1. ExecutorGoto(s, "idle") /\ UNCHANGED pauseFlag /\ "idle" \in ExecutorSteps
  BY DEF ExecutorFails, ExecutorThrows, ExecutorCrash, ExecutorSteps
<1>2. UNCHANGED sel /\ status' \in Statuses /\ (status' = "PENDING" => status = "PENDING")
  BY DEF ExecutorFails, ExecutorThrows, ExecutorCrash, SetStatus, Statuses, IInv, TypeOK
<1>3. jobs' \in Nat /\ crashes' \in 0..MaxCrashes /\ last' \in {"stop", "run", "other", "failure"}
  BY CycleAssumption DEF ExecutorFails, ExecutorThrows, ExecutorCrash, IInv, TypeOK
<1>4. UNCHANGED <<sel, flags, runner, request, runs, takes>>
  BY <1>2 DEF ExecutorFails, ExecutorThrows, ExecutorCrash
<1> QED BY <1>1, <1>2, <1>3, <1>4, MoveExecutor, ExecutorKeeps

-----------------------------------------------------------------------------
(* Requests, local runners and the flags leave executors where they are *)

LEMMA RequestIInv ==
  ASSUME IInv, NEW q \in Requests, UserStep(q) \/ HandlerStep(q) PROVE IInv'
<1> USE DEF row, flags, executor, runner, bounds
<1> TypeOK
  BY DEF IInv
<1>1. CASE UserStep(q)
  <2>1. PICK op \in Operations, step \in {"row", "flag", "reopen"} : Begin(q, op, step)
    BY <1>1 DEF UserStep, BeginStart, BeginRecord, BeginEdit, BeginPause, BeginResume, BeginStop,
                BeginComplete, BeginExecute, BeginReexecute, Operations
  <2>2. rpc' \in [Requests -> {"idle", "reopen", "load", "row", "job", "flag"}]
    BY <2>1 DEF Begin, TypeOK
  <2>3. rop' \in [Requests -> Operations] /\ rsel' \in [Requests -> Selections]
    BY <2>1 DEF Begin, TypeOK, Selections, Unset
  <2> QED BY <2>1, <2>2, <2>3 DEF Begin, IInv, TypeOK, Progress, PauseSeen, OfferOpen
<1>2. ASSUME HandlerStep(q)
      PROVE  /\ rpc' \in [Requests -> {"idle", "reopen", "load", "row", "job", "flag"}]
             /\ rop' \in [Requests -> Operations] /\ rsel' \in [Requests -> Selections]
             /\ last' \in {"stop", "run", "other", "failure"}
  <2>1. ASSUME NEW step \in {"load", "row", "job", "flag"}, Goto(q, step), UNCHANGED last PROVE <1>2!2
    BY <2>1 DEF Goto, TypeOK
  <2>2. ASSUME NEW what \in {"stop", "run", "other"}, End(q, what) PROVE <1>2!2
    BY <2>2 DEF End, TypeOK, Selections, Unset, Operations
  <2>3. CASE Load(q)
    BY <2>3 DEF Load, TypeOK, Selections, Unset
  <2>4. CASE Reopen(q) \/ Offer(q) \/ Enqueue(q) \/ StopSignal(q)
    BY <2>4, <2>1 DEF Reopen, Offer, Enqueue, StopSignal
  <2>5. CASE Refuse(q) \/ WriteRow(q) \/ WritePause(q) \/ StopRow(q)
    BY <2>5, <2>2 DEF Refuse, WriteRow, WritePause, StopRow
  <2> QED BY <1>2, <2>3, <2>4, <2>5 DEF HandlerStep
<1>3. ASSUME HandlerStep(q)
      PROVE  status' \in Statuses /\ sel' \in Selections /\ OfferOpen'
  <2> USE DEF Statuses, Selections, Ends, OfferOpen, IInv
  <2>1. CASE Reopen(q)
    BY <2>1 DEF Reopen, TypeOK
  <2>2. CASE Offer(q)
    BY <2>2 DEF Offer
  <2>3. CASE WriteRow(q)
    BY <2>3 DEF WriteRow, SetStatus, TypeOK
  <2>4. CASE StopRow(q)
    BY <2>4 DEF StopRow, SetStatus, TypeOK
  <2>5. CASE Load(q) \/ Refuse(q) \/ Enqueue(q) \/ WritePause(q) \/ StopSignal(q)
    BY <2>5 DEF Load, Refuse, Enqueue, WritePause, StopSignal, TypeOK
  <2> QED BY <1>3, <2>1, <2>2, <2>3, <2>4, <2>5 DEF HandlerStep
<1>4. ASSUME HandlerStep(q)
      PROVE  /\ pauseFlag' \in BOOLEAN /\ cancelFlag' \in BOOLEAN /\ jobs' \in Nat
             /\ runs' \in 0..MaxRuns /\ UNCHANGED <<crashes, epc, done, runner>>
  <2> USE CycleAssumption DEF TypeOK
  <2>1. CASE Offer(q)
    BY <2>1 DEF Offer
  <2>2. CASE Enqueue(q)
    BY <2>2 DEF Enqueue
  <2>3. CASE WritePause(q)
    BY <2>3 DEF WritePause
  <2>4. CASE StopSignal(q)
    BY <2>4 DEF StopSignal
  <2>5. CASE Reopen(q) \/ Load(q) \/ Refuse(q) \/ WriteRow(q) \/ StopRow(q)
    BY <2>5 DEF Reopen, Load, Refuse, WriteRow, StopRow
  <2> QED BY <1>4, <2>1, <2>2, <2>3, <2>4, <2>5 DEF HandlerStep
<1>5. ASSUME HandlerStep(q)
      PROVE  since' \in [Slots -> 0..NumCases] /\ PauseSeen'
  <2>1. CASE WritePause(q)
    BY <2>1, CycleAssumption DEF WritePause, PauseSeen, IInv
  <2>2. CASE ~WritePause(q)
    <3>1. UNCHANGED <<pauseFlag, epc, since>>
      BY <1>5, <2>2 DEF HandlerStep, Reopen, Load, Refuse, WriteRow, Offer, Enqueue, StopSignal, StopRow
    <3> QED BY <3>1 DEF PauseSeen, IInv, TypeOK
  <2> QED BY <2>1, <2>2
<1>6. CASE HandlerStep(q)
  <2>1. TypeOK'
    BY <1>2, <1>3, <1>4, <1>5, <1>6 DEF TypeOK, OfferOpen
  <2>2. Progress'
    BY <1>4, <1>6 DEF IInv, Progress
  <2> QED BY <1>3, <1>5, <1>6, <2>1, <2>2 DEF IInv
<1> QED BY <1>1, <1>6

LEMMA RunnerIInv ==
  ASSUME IInv, NEW l \in Runners, RunnerStep(l) \/ RunnerCrash(l) PROVE IInv'
<1> USE DEF row, flags, executor, request
<1> TypeOK
  BY DEF IInv
<1>1. ASSUME NEW step \in {"idle", "found", "taken", "work", "close"}, RunnerGoto(l, step)
      PROVE  /\ lpc' \in [Runners -> {"idle", "found", "taken", "work", "finish", "close"}]
             /\ lout' \in [Runners -> {"RUNNING", "CANCELLED"}]
  BY <1>1 DEF RunnerGoto, TypeOK
<1>2. /\ lpc' \in [Runners -> {"idle", "found", "taken", "work", "finish", "close"}]
      /\ lout' \in [Runners -> {"RUNNING", "CANCELLED"}]
  <2>1. CASE EndWork(l)
    BY <2>1 DEF EndWork, TypeOK
  <2>2. CASE ~EndWork(l)
    <3>1. PICK step \in {"idle", "found", "taken", "work", "close"} : RunnerGoto(l, step)
      BY <2>2 DEF RunnerStep, RunnerCrash, Find, Claim, WriteClaim, BeginClose, Close
    <3> QED BY <3>1, <1>1
  <2> QED BY <2>1, <2>2
<1>3. /\ UNCHANGED <<flags, jobs, executor, request, runs, last>>
      /\ crashes' \in 0..MaxCrashes
  BY CycleAssumption
     DEF RunnerStep, RunnerCrash, Find, Claim, WriteClaim, EndWork, BeginClose, Close, RunnerOnly,
         bounds, TypeOK
<1>4. status' \in Statuses /\ sel' \in Selections /\ OfferOpen'
  <2> USE DEF Statuses, Selections, Ends, OfferOpen, IInv
  <2>1. CASE Claim(l)
    BY <2>1 DEF Claim, SetStatus, TypeOK
  <2>2. CASE WriteClaim(l)
    BY <2>2 DEF WriteClaim, Claimed, TypeOK
  <2>3. CASE Close(l)
    <3>1. lout[l] \in {"RUNNING", "CANCELLED"} /\ Claimed \in Selections
      BY DEF TypeOK, Claimed
    <3>2. \/ UNCHANGED <<status, sel>>
          \/ status' = lout[l] /\ sel' = Claimed
      BY <2>3 DEF Close
    <3>3. UNCHANGED takes
      BY <2>3 DEF Close
    <3> QED BY <3>1, <3>2, <3>3 DEF TypeOK
  <2>4. CASE Find(l) \/ EndWork(l) \/ BeginClose(l) \/ RunnerCrash(l)
    BY <2>4 DEF Find, EndWork, BeginClose, RunnerCrash, TypeOK
  <2> QED BY <2>1, <2>2, <2>3, <2>4 DEF RunnerStep
<1>5. TypeOK'
  BY <1>2, <1>3, <1>4 DEF TypeOK, OfferOpen
<1> QED BY <1>3, <1>4, <1>5 DEF IInv, Progress, PauseSeen

LEMMA IInvStep == IInv /\ [Next]_vars => IInv'
<1> SUFFICES ASSUME IInv, [Next]_vars PROVE IInv'
  OBVIOUS
<1>1. CASE FlagExpires
  <2>1. TypeOK'
    BY <1>1 DEF FlagExpires, IInv, TypeOK, row, executor, runner, request, bounds
  <2>2. Progress' /\ PauseSeen' /\ OfferOpen'
    BY <1>1 DEF FlagExpires, IInv, Progress, PauseSeen, OfferOpen, row, executor
  <2> QED BY <2>1, <2>2 DEF IInv
<1>2. CASE UNCHANGED vars
  <2>1. TypeOK'
    BY <1>2 DEF vars, IInv, TypeOK, row, flags, executor, runner, request, bounds
  <2>2. Progress' /\ PauseSeen' /\ OfferOpen'
    BY <1>2 DEF vars, IInv, Progress, PauseSeen, OfferOpen, row, flags, executor
  <2> QED BY <2>1, <2>2 DEF IInv
<1> QED BY <1>1, <1>2, RequestIInv, ExecutorStepIInv, ExecutorFailureIInv, RunnerIInv DEF Next

-----------------------------------------------------------------------------
(* Theorems *)

\* The inductive invariant: types, how far executors are, what a pause lets through, and
\* that an open offer has not been claimed.
THEOREM Invariance == Spec => []IInv
<1>1. Init => IInv
  BY InitIInv
<1>2. IInv /\ [Next]_vars => IInv'
  BY IInvStep
<1> QED BY <1>1, <1>2, PTL DEF Spec

\* Every reachable state of a cycle is typed.
THEOREM TypeCorrect == Spec => []TypeOK
<1>1. IInv => TypeOK
  BY DEF IInv
<1> QED BY <1>1, Invariance, PTL

\* claimNext: of each time a cycle is offered, at most one of any number of runner
\* processes makes it its own, whatever other requests do to the row meanwhile.
THEOREM OneRunner == Spec => []OneRunnerPerOffer
<1>1. IInv => OneRunnerPerOffer
  BY DEF IInv, OfferOpen, OneRunnerPerOffer
<1> QED BY <1>1, Invariance, PTL

\* waitWhilePaused: with any number of executors on a cycle, each begins at most one more
\* case after a pause.
THEOREM PauseIsKept == Spec => []PauseHolds
<1>1. IInv => PauseHolds
  BY DEF IInv, PauseSeen, PauseHolds
<1> QED BY <1>1, Invariance, PTL

\* claimNext and completeJob: a step of a local runner, or an expiry, leaves a completed
\* or stopped cycle as it is.
THEOREM EndsAreSpared == Spec => RunnersSpareEnds
<1>1. IInv /\ [Next]_vars => ((status \in Ends /\ UNCHANGED <<request, executor>>) => status' = status)
  <2> SUFFICES ASSUME IInv, [Next]_vars, status \in Ends, UNCHANGED <<request, executor>>
               PROVE  status' = status
    OBVIOUS
  <2> TypeOK
    BY DEF IInv
  <2>1. ASSUME NEW q \in Requests, UserStep(q) PROVE FALSE
    <3>1. PICK op \in Operations, step \in {"row", "flag", "reopen"} : Begin(q, op, step)
      BY <2>1 DEF UserStep, BeginStart, BeginRecord, BeginEdit, BeginPause, BeginResume, BeginStop,
                  BeginComplete, BeginExecute, BeginReexecute, Operations
    <3> QED BY <3>1 DEF Begin, request, TypeOK
  <2>2. ASSUME NEW q \in Requests, HandlerStep(q) PROVE FALSE
    <3>1. rpc' # rpc
      BY <2>2 DEF HandlerStep, Reopen, Load, Refuse, WriteRow, Offer, Enqueue, WritePause, StopSignal,
                  StopRow, Goto, End, TypeOK
    <3> QED BY <3>1 DEF request
  <2>3. ASSUME NEW s \in Slots, ExecutorStep(s) \/ ExecutorFails(s) \/ ExecutorThrows(s) \/ ExecutorCrash(s)
        PROVE FALSE
    <3>1. CASE BeginCase(s) \/ CaseDone(s)
      BY <3>1 DEF BeginCase, CaseDone, ExecutorGoto, executor, TypeOK
    <3>2. CASE ~(BeginCase(s) \/ CaseDone(s))
      <4>1. PICK step : ExecutorGoto(s, step) /\ epc[s] # step
        BY <2>3, <3>2
           DEF ExecutorStep, ExecutorFails, ExecutorThrows, ExecutorCrash, TakeJob, ReadCycle, StartCases,
               CheckCancel, Hold, Held, Settle, WriteCancelled, WriteFinished
      <4> QED BY <4>1 DEF ExecutorGoto, executor, TypeOK
    <3> QED BY <3>1, <3>2
  <2>4. ASSUME NEW l \in Runners, RunnerStep(l) \/ RunnerCrash(l) PROVE status' = status
    BY <2>4 DEF RunnerStep, RunnerCrash, Find, Claim, WriteClaim, EndWork, BeginClose, Close, SetStatus,
                Ends, row
  <2>5. CASE FlagExpires \/ UNCHANGED vars
    BY <2>5 DEF FlagExpires, vars, row
  <2> QED BY <2>1, <2>2, <2>3, <2>4, <2>5 DEF Next
<1> QED BY <1>1, Invariance, PTL DEF Spec, RunnersSpareEnds
=============================================================================
