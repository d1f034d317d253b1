---------------------------- MODULE StlcRunProofs ----------------------------
(***************************************************************************)
(* Theorems about StlcRun for any number of executions, slots, requests    *)
(* and gates, and whatever hazards occur: types are kept, no slot works    *)
(* past an open released gate, and the released gates are granted as the   *)
(* abstract ledger says.                                                   *)
(***************************************************************************)
EXTENDS StlcRun, TLAPS

Early == {"idle", "row", "init", "context"}
AtHeldGate == {"launch", "check", "wait", "woken", "stopped", "closing", "done", "ended"}

\* Where a slot's step says its gate is.
SlotPlace ==
  /\ \A w \in Worker : wpc[w] \in Early => wgate[w] = 1
  /\ \A w \in Worker : wpc[w] = "gates" => wgate[w] \in Released
  /\ \A w \in Worker : wpc[w] \in AtHeldGate => wgate[w] \in Held

\* Everything that names a gate names one whose released predecessors are approved.
GateOrder ==
  /\ \A w \in Worker : Cleared(wgate[w])
  /\ \A e \in Exec : Cleared(gate[e])
  /\ \A r \in Request : rpc[r] = "grant" => Cleared(rgate[r])
  /\ \A g \in approved : Cleared(g)

IInv == TypeOK /\ SlotPlace /\ GateOrder

-----------------------------------------------------------------------------
(* The gate numbers are what the ranges say. *)
LEMMA GateRanges ==
  /\ Login \in Gates /\ Login \in Held /\ 1 \in Gates /\ 1 \in Released
  /\ Released \subseteq Gates /\ Held \subseteq Gates
  /\ \A g \in Gates : g \in Released \/ g \in Held
  /\ \A g \in Held : g \notin Released
  /\ \A g \in Released : g + 1 \in Gates /\ g \in ApprovalGates
  /\ \A g \in Gates : g # LastGate => g + 1 \in Gates
  /\ ApprovalGates \subseteq Gates
  /\ Gates \subseteq 0..LastGate /\ Gates \subseteq Nat
BY ConstantsAssumption DEF Gates, Released, Held, Login, ApprovalGates

(* The stage a gate is shown under is a stage. *)
LEMMA StageRange ==
  /\ \A g \in Gates : StageOf(g) \in 1..(LastGate + 1)
  /\ \A g \in Gates : StageOf(g + 1) \in 1..(LastGate + 1)
BY ConstantsAssumption DEF StageOf, Gates, Login

(* What a step leaves alone keeps its type. *)
LEMMA Keep ==
  /\ RowType /\ UNCHANGED row => RowType'
  /\ ProjectType /\ UNCHANGED <<project, cases, answered>> => ProjectType'
  /\ FlagType /\ UNCHANGED flags => FlagType'
  /\ QueueType /\ UNCHANGED <<queued, crashes>> => QueueType'
  /\ SlotType /\ SlotPlace /\ UNCHANGED slots => SlotType' /\ SlotPlace'
  /\ TabType /\ UNCHANGED tabs => TabType'
  /\ RequestType /\ UNCHANGED requests => RequestType'
<1>1. RowType /\ UNCHANGED row => RowType'
  BY DEF RowType, row
<1>2. ProjectType /\ UNCHANGED <<project, cases, answered>> => ProjectType'
  BY DEF ProjectType, project
<1>3. FlagType /\ UNCHANGED flags => FlagType'
  BY DEF FlagType, flags
<1>4. QueueType /\ UNCHANGED <<queued, crashes>> => QueueType'
  BY DEF QueueType
<1>5. SlotType /\ SlotPlace /\ UNCHANGED slots => SlotType' /\ SlotPlace'
  BY DEF SlotType, SlotPlace, slots
<1>6. TabType /\ UNCHANGED tabs => TabType'
  BY DEF TabType, tabs
<1>7. RequestType /\ UNCHANGED requests => RequestType'
  BY DEF RequestType, requests
<1> QED BY <1>1, <1>2, <1>3, <1>4, <1>5, <1>6, <1>7

(* The bounds of the gate numbers. *)
LEMMA Bounds == 0 \in 0..LastGate /\ Login \in 0..LastGate /\ \A g \in Gates : g \in 0..LastGate
BY ConstantsAssumption DEF Login, Gates

(* A job is added within the bounds of the queue. *)
LEMMA EnqueueQueue ==
  ASSUME QueueType, NEW e \in Exec, NEW a \in Attempts, Enqueue(e, a)
  PROVE  queued' \in [Exec -> [Attempts -> 0..MaxQueued]]
<1>1. queued[e][a] + 1 \in 0..MaxQueued
  BY ConstantsAssumption DEF QueueType, Enqueue
<1>2. [queued[e] EXCEPT ![a] = queued[e][a] + 1] \in [Attempts -> 0..MaxQueued]
  BY <1>1 DEF QueueType
<1> QED BY <1>2 DEF QueueType, Enqueue

(* So is a retry. *)
LEMMA RetryQueue ==
  ASSUME TypeOK, NEW w \in Worker, wexec[w] \in Exec, Retry(w), crashes' = crashes
  PROVE  QueueType'
<1>1. CASE wtry[w] < MaxAttempts
  <2>1. wtry[w] + 1 \in Attempts
    BY <1>1, ConstantsAssumption DEF TypeOK, SlotType, Attempts
  <2>2. Enqueue(wexec[w], wtry[w] + 1)
    BY <1>1 DEF Retry
  <2>3. queued' \in [Exec -> [Attempts -> 0..MaxQueued]]
    BY <2>1, <2>2, EnqueueQueue DEF TypeOK
  <2> QED BY <2>3 DEF TypeOK, QueueType
<1>2. CASE ~(wtry[w] < MaxAttempts)
  BY <1>2 DEF Retry, TypeOK, QueueType
<1> QED BY <1>1, <1>2

(* A slot that moves to a step its gate allows. *)
LEMMA StepSlots ==
  ASSUME SlotType, SlotPlace, NEW w \in Worker, NEW pc \in WorkerPcs,
         wpc[w] # "idle", Step(w, pc), UNCHANGED <<wexec, wgate, wtry>>,
         pc \notin Early, pc # "gates", pc \in AtHeldGate => wgate[w] \in Held
  PROVE  SlotType' /\ SlotPlace'
<1>1. SlotType'
  BY DEF SlotType, Step
<1>2. \A v \in Worker : wpc'[v] = IF v = w THEN pc ELSE wpc[v]
  BY DEF SlotType, Step
<1> QED BY <1>1, <1>2 DEF SlotPlace

(* A slot that passes a held gate. *)
LEMMA PassSlots ==
  ASSUME SlotType, SlotPlace, NEW w \in Worker, wpc[w] \in {"check", "wait", "woken", "stopped"},
         PassGate(w), UNCHANGED <<wexec, wtry>>
  PROVE  SlotType' /\ SlotPlace'
<1>1. wgate[w] \in Held /\ wpc[w] # "idle"
  BY DEF SlotPlace, AtHeldGate
<1>2. CASE wgate[w] = LastGate
  <2>1. Step(w, "closing") /\ UNCHANGED wgate
    BY <1>2 DEF PassGate
  <2> QED BY <1>1, <2>1, StepSlots DEF WorkerPcs, Early, AtHeldGate
<1>3. CASE wgate[w] # LastGate
  <2>1. wgate[w] + 1 \in Gates
    BY <1>1, <1>3, GateRanges
  <2>2. Step(w, "work") /\ wgate' = [wgate EXCEPT ![w] = @ + 1]
    BY <1>3 DEF PassGate
  <2>3. SlotType'
    BY <1>1, <2>1, <2>2 DEF Step, SlotType, WorkerPcs
  <2>4. \A v \in Worker : v # w => wpc'[v] = wpc[v] /\ wgate'[v] = wgate[v]
    BY <2>2 DEF Step, SlotType
  <2>5. wpc'[w] = "work"
    BY <2>2 DEF Step, SlotType
  <2> QED BY <2>3, <2>4, <2>5 DEF SlotPlace, Early, AtHeldGate
<1> QED BY <1>2, <1>3

(* A slot that is given back. *)
LEMMA FreeSlots ==
  ASSUME SlotType, SlotPlace, NEW w \in Worker, FreeSlot(w)
  PROVE  SlotType' /\ SlotPlace'
<1>1. 1 \in Gates /\ 1 \in Attempts
  BY GateRanges, ConstantsAssumption DEF Attempts
<1>2. SlotType'
  BY <1>1 DEF FreeSlot, SlotType, WorkerPcs
<1>3. \A v \in Worker : v # w => wpc'[v] = wpc[v] /\ wgate'[v] = wgate[v]
  BY DEF FreeSlot, SlotType
<1>4. wpc'[w] = "idle" /\ wgate'[w] = 1
  BY DEF FreeSlot, SlotType
<1> QED BY <1>2, <1>3, <1>4 DEF SlotPlace, Early, AtHeldGate

(* The initial state is typed and every slot idle at gate 1. *)
LEMMA TypeInit == Init => TypeOK /\ SlotPlace
<1> SUFFICES ASSUME Init PROVE TypeOK /\ SlotPlace
  OBVIOUS
<1>1. RowType /\ ProjectType /\ FlagType
  BY ConstantsAssumption DEF Init, RowType, ProjectType, FlagType, Statuses, CaseTexts
<1>2. QueueType
  BY ConstantsAssumption DEF Init, QueueType, Attempts
<1>3. SlotType /\ TabType /\ SlotPlace
  BY ConstantsAssumption, GateRanges DEF Init, SlotType, TabType, SlotPlace, WorkerPcs, Attempts, Early, AtHeldGate
<1>4. RequestType
  BY ConstantsAssumption DEF Init, RequestType, RequestPcs
<1> QED BY <1>1, <1>2, <1>3, <1>4 DEF TypeOK

(* Every step keeps the types and the places. *)
LEMMA TypeStep == TypeOK /\ SlotPlace /\ [Next]_vars => TypeOK' /\ SlotPlace'
<1> SUFFICES ASSUME TypeOK, SlotPlace, [Next]_vars PROVE TypeOK' /\ SlotPlace'
  OBVIOUS
<1>1. ASSUME NEW w \in Worker, NEW e \in Exec, NEW a \in Attempts, Claim(w, e, a) PROVE TypeOK' /\ SlotPlace'
  <2>1. QueueType'
    BY <1>1, ConstantsAssumption DEF TypeOK, Claim, QueueType, Attempts, SlotType, RequestType
  <2>2. SlotType' /\ SlotPlace'
    BY <1>1, GateRanges, ConstantsAssumption DEF TypeOK, Claim, Step, SlotType, SlotPlace, WorkerPcs, Early, AtHeldGate, slots
  <2> QED BY <1>1, Keep, <2>1, <2>2 DEF TypeOK, Claim
<1>2. ASSUME NEW w \in Worker, ReadRow(w) PROVE TypeOK' /\ SlotPlace'
  <2>1. SlotType' /\ SlotPlace'
    BY <1>2, GateRanges, ConstantsAssumption DEF TypeOK, ReadRow, FreeSlot, Step, Attempts, SlotType, SlotPlace, WorkerPcs, Early, AtHeldGate, slots
  <2> QED BY <1>2, Keep, <2>1 DEF TypeOK, ReadRow
<1>3. ASSUME NEW w \in Worker, StartRun(w) PROVE TypeOK' /\ SlotPlace'
  <2>1. RowType'
    BY <1>3, Bounds DEF TypeOK, StartRun, SetStatus, RowType, SlotType, RequestType, Statuses
  <2>2. SlotType' /\ SlotPlace'
    BY <1>3, GateRanges, ConstantsAssumption DEF TypeOK, StartRun, Step, SlotType, SlotPlace, WorkerPcs, Early, AtHeldGate, slots
  <2> QED BY <1>3, Keep, <2>1, <2>2 DEF TypeOK, StartRun
<1>4. ASSUME NEW w \in Worker, OpenContext(w) PROVE TypeOK' /\ SlotPlace'
  <2>1. SlotType' /\ SlotPlace'
    BY <1>4, GateRanges, ConstantsAssumption DEF TypeOK, OpenContext, Step, Released, SlotType, SlotPlace, WorkerPcs, Early, AtHeldGate, slots
  <2> QED BY <1>4, Keep, <2>1 DEF TypeOK, OpenContext
<1>5. ASSUME NEW w \in Worker, LoadGates(w) PROVE TypeOK' /\ SlotPlace'
  <2>1. SlotType' /\ SlotPlace'
    BY <1>5, GateRanges, ConstantsAssumption DEF TypeOK, LoadGates, Step, Released, SlotType, SlotPlace, WorkerPcs, Early, AtHeldGate, slots
  <2> QED BY <1>5, Keep, <2>1 DEF TypeOK, LoadGates
<1>6. ASSUME NEW w \in Worker, EnterStage(w) PROVE TypeOK' /\ SlotPlace'
  <2>1. RowType'
    <3>1. wexec[w] \in Exec BY <1>6 DEF EnterStage, TypeOK, SlotType
    <3>2. CASE UNCHANGED row BY <3>2, Keep DEF TypeOK
    <3>3. CASE SetStatus(wexec[w], "RUNNING")
      BY <3>1, <3>3, Bounds DEF SetStatus, TypeOK, RowType, Statuses
    <3> QED BY <1>6, <3>2, <3>3 DEF EnterStage
  <2>2. SlotType' /\ SlotPlace'
    BY <1>6, GateRanges, ConstantsAssumption DEF TypeOK, EnterStage, Step, SlotType, SlotPlace, WorkerPcs, Early, AtHeldGate, slots
  <2> QED BY <1>6, Keep, <2>1, <2>2 DEF TypeOK, EnterStage
<1>31. ASSUME NEW w \in Worker, GroundCases(w) PROVE TypeOK' /\ SlotPlace'
  <2>1. ProjectType'
    BY <1>31 DEF TypeOK, GroundCases, ProjectType, CaseTexts, SlotType, project
  <2>2. SlotType' /\ SlotPlace'
    BY <1>31, StepSlots DEF TypeOK, GroundCases, WorkerPcs, Early, AtHeldGate
  <2> QED BY <1>31, Keep, <2>1, <2>2 DEF TypeOK, GroundCases
<1>32. ASSUME NEW w \in Worker, ShowStage(w) PROVE TypeOK' /\ SlotPlace'
  <2>1. ProjectType'
    <3>1. stage' \in 1..(LastGate + 1)
      BY <1>32, StageRange DEF TypeOK, ShowStage, SlotType
    <3> QED BY <1>32, <3>1 DEF TypeOK, ShowStage, ProjectType
  <2>2. SlotType' /\ SlotPlace'
    BY <1>32, StepSlots DEF TypeOK, ShowStage, WorkerPcs, Early, AtHeldGate
  <2> QED BY <1>32, Keep, <2>1, <2>2 DEF TypeOK, ShowStage
<1>7. ASSUME NEW w \in Worker, RunAgent(w) PROVE TypeOK' /\ SlotPlace'
  <2>1. RowType'
    BY <1>7, Bounds DEF TypeOK, RunAgent, SetStatus, RowType, SlotType, RequestType, Statuses
  <2> QED BY <1>7, Keep, <2>1 DEF TypeOK, RunAgent, slots
<1>8. ASSUME NEW w \in Worker, WriteCases(w) PROVE TypeOK' /\ SlotPlace'
  <2>1. ProjectType'
    BY <1>8 DEF TypeOK, WriteCases, ProjectType, CaseTexts, SlotType, project
  <2>2. SlotType' /\ SlotPlace'
    BY <1>8, GateRanges, ConstantsAssumption DEF TypeOK, WriteCases, Step, SlotType, SlotPlace, WorkerPcs, Early, AtHeldGate, slots
  <2> QED BY <1>8, Keep, <2>1, <2>2 DEF TypeOK, WriteCases
<1>9. ASSUME NEW w \in Worker, Ask(w) PROVE TypeOK' /\ SlotPlace'
  <2>1. RowType'
    BY <1>9, Bounds DEF TypeOK, Ask, SetAwaiting, StageDone, RowType, SlotType, RequestType, Statuses
  <2>2. ProjectType'
    BY <1>9, GateRanges, StageRange DEF TypeOK, Ask, StageDone, ProjectType, SlotType, RequestType, project
  <2>3. SlotType' /\ SlotPlace'
    <3>1. wpc[w] # "idle" /\ wgate[w] \in Gates /\ UNCHANGED <<wexec, wgate, wtry>>
      BY <1>9 DEF Ask, StageDone, TypeOK, SlotType
    <3>2. CASE wgate[w] \in Released
      <4>1. wgate[w] # Login BY <3>2, GateRanges
      <4>2. Step(w, "release") BY <1>9, <3>2, <4>1 DEF Ask
      <4> QED BY <3>1, <4>2, StepSlots DEF TypeOK, WorkerPcs, Early, AtHeldGate
    <3>3. CASE wgate[w] = Login
      <4>1. Step(w, "launch")
        <5>1. Login \notin Released BY GateRanges
        <5> QED BY <1>9, <3>3, <5>1 DEF Ask
      <4>2. wgate[w] \in Held BY <3>3, GateRanges
      <4> QED BY <3>1, <4>1, <4>2, StepSlots DEF TypeOK, WorkerPcs, Early, AtHeldGate
    <3>4. CASE wgate[w] \notin Released /\ wgate[w] # Login
      <4>1. wgate[w] \in Held BY <3>1, <3>4, GateRanges
      <4>2. Step(w, "check") BY <1>9, <3>4 DEF Ask
      <4> QED BY <3>1, <4>1, <4>2, StepSlots DEF TypeOK, WorkerPcs, Early, AtHeldGate
    <3> QED BY <3>2, <3>3, <3>4
  <2> QED BY <1>9, Keep, <2>1, <2>2, <2>3 DEF TypeOK, Ask
<1>10. ASSUME NEW w \in Worker, Release(w) PROVE TypeOK' /\ SlotPlace'
  <2>1. SlotType' /\ SlotPlace'
    BY <1>10, FreeSlots DEF TypeOK, Release
  <2> QED BY <1>10, Keep, <2>1 DEF TypeOK, Release
<1>11. ASSUME NEW w \in Worker, LaunchBrowser(w) PROVE TypeOK' /\ SlotPlace'
  <2>1. RowType'
    BY <1>11, Bounds DEF TypeOK, LaunchBrowser, SetAwaiting, RowType, SlotType, RequestType, Statuses
  <2>2. SlotType' /\ SlotPlace'
    BY <1>11, GateRanges, ConstantsAssumption DEF TypeOK, LaunchBrowser, Step, SlotType, SlotPlace, WorkerPcs, Early, AtHeldGate, slots
  <2>3. TabType'
    BY <1>11 DEF TypeOK, LaunchBrowser, TabType, tabs
  <2> QED BY <1>11, Keep, <2>1, <2>2, <2>3 DEF TypeOK, LaunchBrowser
<1>12. ASSUME NEW w \in Worker, CheckFlags(w) PROVE TypeOK' /\ SlotPlace'
  <2>1. FlagType'
    BY <1>12 DEF TypeOK, CheckFlags, FlagType, SlotType, RequestType, flags
  <2>2. SlotType' /\ SlotPlace'
    BY <1>12, StepSlots, PassSlots DEF TypeOK, CheckFlags, SlotPlace, WorkerPcs, Early, AtHeldGate
  <2> QED BY <1>12, Keep, <2>1, <2>2 DEF TypeOK, CheckFlags
<1>13. ASSUME NEW w \in Worker, Poll(w) PROVE TypeOK' /\ SlotPlace'
  <2>1. FlagType'
    BY <1>13 DEF TypeOK, Poll, FlagType, SlotType, RequestType, flags
  <2>2. SlotType' /\ SlotPlace'
    BY <1>13, StepSlots, PassSlots DEF TypeOK, Poll, WorkerPcs, Early, AtHeldGate
  <2> QED BY <1>13, Keep, <2>1, <2>2 DEF TypeOK, Poll
<1>14. ASSUME NEW w \in Worker, TakeMessage(w) PROVE TypeOK' /\ SlotPlace'
  <2>1. FlagType'
    BY <1>14 DEF TypeOK, TakeMessage, FlagType, SlotType, RequestType, flags
  <2>2. SlotType' /\ SlotPlace'
    BY <1>14, StepSlots, PassSlots DEF TypeOK, TakeMessage, WorkerPcs, Early, AtHeldGate
  <2> QED BY <1>14, Keep, <2>1, <2>2 DEF TypeOK, TakeMessage
<1>15. ASSUME NEW w \in Worker, CloseProject(w) PROVE TypeOK' /\ SlotPlace'
  <2>1. ProjectType'
    BY <1>15, ConstantsAssumption DEF TypeOK, CloseProject, ProjectType
  <2>2. SlotType' /\ SlotPlace'
    BY <1>15, StepSlots DEF TypeOK, CloseProject, SlotPlace, WorkerPcs, Early, AtHeldGate
  <2> QED BY <1>15, Keep, <2>1, <2>2 DEF TypeOK, CloseProject
<1>33. ASSUME NEW w \in Worker, Complete(w) PROVE TypeOK' /\ SlotPlace'
  <2>1. RowType'
    BY <1>33, Bounds DEF TypeOK, Complete, SetStatus, RowType, SlotType, RequestType, Statuses
  <2>2. SlotType' /\ SlotPlace'
    BY <1>33, StepSlots DEF TypeOK, Complete, SlotPlace, WorkerPcs, Early, AtHeldGate
  <2> QED BY <1>33, Keep, <2>1, <2>2 DEF TypeOK, Complete
<1>34. ASSUME NEW w \in Worker, EndJob(w) PROVE TypeOK' /\ SlotPlace'
  <2>1. SlotType' /\ SlotPlace'
    BY <1>34, FreeSlots DEF TypeOK, EndJob
  <2>2. TabType'
    BY <1>34 DEF TypeOK, EndJob, CloseBrowser, SessionRecorded, TabType, tabs
  <2> QED BY <1>34, Keep, <2>1, <2>2 DEF TypeOK, EndJob
<1>16. ASSUME NEW w \in Worker, StopRun(w) PROVE TypeOK' /\ SlotPlace'
  <2>1. RowType'
    BY <1>16, Bounds DEF TypeOK, StopRun, SetStatus, RowType, SlotType, RequestType, Statuses
  <2>2. SlotType' /\ SlotPlace'
    BY <1>16, FreeSlots DEF TypeOK, StopRun
  <2>3. TabType'
    BY <1>16 DEF TypeOK, StopRun, CloseBrowser, SessionRecorded, TabType, tabs
  <2> QED BY <1>16, Keep, <2>1, <2>2, <2>3 DEF TypeOK, StopRun
<1>17. ASSUME NEW w \in Worker, wpc[w] # "idle", FailRun(w) PROVE TypeOK' /\ SlotPlace'
  <2>1. RowType'
    BY <1>17, Bounds DEF TypeOK, FailRun, SetStatus, RowType, SlotType, RequestType, Statuses
  <2>2. QueueType'
    BY <1>17, EnqueueQueue, RetryQueue DEF TypeOK, FailRun, SlotType, RequestType
  <2>3. SlotType' /\ SlotPlace'
    BY <1>17, FreeSlots DEF TypeOK, FailRun
  <2>4. TabType'
    BY <1>17 DEF TypeOK, FailRun, CloseBrowser, SessionRecorded, TabType, tabs
  <2> QED BY <1>17, Keep, <2>1, <2>2, <2>3, <2>4 DEF TypeOK, FailRun
<1>18. ASSUME NEW w \in Worker, ThrowUnrecorded(w) PROVE TypeOK' /\ SlotPlace'
  <2>1. QueueType'
    BY <1>18, EnqueueQueue, RetryQueue DEF TypeOK, ThrowUnrecorded, SlotType, RequestType
  <2>2. SlotType' /\ SlotPlace'
    BY <1>18, FreeSlots DEF TypeOK, ThrowUnrecorded
  <2>3. TabType'
    BY <1>18 DEF TypeOK, ThrowUnrecorded, CloseBrowser, SessionRecorded, TabType, tabs
  <2> QED BY <1>18, Keep, <2>1, <2>2, <2>3 DEF TypeOK, ThrowUnrecorded
<1>19. ASSUME NEW w \in Worker, Crash(w) PROVE TypeOK' /\ SlotPlace'
  <2>1. QueueType'
    <3>1. wexec[w] \in Exec /\ wtry[w] \in Attempts BY <1>19 DEF Crash, TypeOK, SlotType
    <3>2. crashes' \in 0..MaxCrashes BY <1>19, ConstantsAssumption DEF Crash, TypeOK, QueueType
    <3> QED BY <1>19, <3>1, <3>2, EnqueueQueue DEF Crash, TypeOK, QueueType
  <2>2. SlotType' /\ SlotPlace'
    BY <1>19, FreeSlots DEF TypeOK, Crash
  <2>3. TabType'
    BY <1>19 DEF TypeOK, Crash, TabType, tabs
  <2> QED BY <1>19, Keep, <2>1, <2>2, <2>3 DEF TypeOK, Crash
<1>20. ASSUME NEW e \in Exec, FlagExpires(e) PROVE TypeOK' /\ SlotPlace'
  <2>1. FlagType'
    BY <1>20 DEF TypeOK, FlagExpires, FlagType, SlotType, RequestType, flags
  <2> QED BY <1>20, Keep, <2>1 DEF TypeOK, FlagExpires
<1>35. ASSUME NEW e \in Exec, EditCases(e) PROVE TypeOK' /\ SlotPlace'
  <2>1. ProjectType'
    BY <1>35 DEF TypeOK, EditCases, ProjectType, CaseTexts, project
  <2> QED BY <1>35, Keep, <2>1 DEF TypeOK, EditCases
<1>21. ASSUME NEW r \in Request, NEW e \in Exec, BeginApprove(r, e) PROVE TypeOK' /\ SlotPlace'
  <2>1. RequestType'
    BY <1>21, Bounds DEF TypeOK, BeginApprove, Begin, RowType, RequestType, RequestPcs, requests
  <2> QED BY <1>21, Keep, <2>1 DEF TypeOK, BeginApprove, Begin
<1>22. ASSUME NEW r \in Request, NEW e \in Exec, BeginContinue(r, e) PROVE TypeOK' /\ SlotPlace'
  <2>1. RequestType'
    BY <1>22, Bounds DEF TypeOK, BeginContinue, Begin, Gates, RequestType, RequestPcs, requests
  <2> QED BY <1>22, Keep, <2>1 DEF TypeOK, BeginContinue, Begin
<1>23. ASSUME NEW r \in Request, NEW e \in Exec, BeginCancel(r, e) PROVE TypeOK' /\ SlotPlace'
  <2>1. RequestType'
    BY <1>23, Bounds DEF TypeOK, BeginCancel, Begin, RequestType, RequestPcs, requests
  <2> QED BY <1>23, Keep, <2>1 DEF TypeOK, BeginCancel, Begin
<1>24. ASSUME NEW r \in Request, Grant(r) PROVE TypeOK' /\ SlotPlace'
  <2>1. ProjectType'
    <3>1. rexec[r] \in Exec /\ rgate[r] \in ApprovalGates
      BY <1>24 DEF Grant, TypeOK, RequestType
    <3>2. approved' \subseteq ApprovalGates
      BY <1>24, <3>1 DEF Grant, TypeOK, ProjectType
    <3>3. stage' \in 1..(LastGate + 1)
      <4>1. rgate[r] \in Gates /\ LastGate + 1 \in 1..(LastGate + 1)
        BY <3>1, ConstantsAssumption DEF ApprovalGates
      <4> QED BY <1>24, <4>1, StageRange DEF Grant
    <3>4. cases' \in [Exec -> CaseTexts]
      <4>1. \A c \in CaseTexts : Approved(c, rgate[r]) \in CaseTexts
        BY DEF Approved, CaseTexts
      <4> QED BY <1>24, <3>1, <4>1 DEF Grant, TypeOK, ProjectType
    <3>5. answered' \in [Exec -> SUBSET Gates]
      BY <1>24, <3>1, GateRanges DEF Grant, TypeOK, ProjectType
    <3> QED BY <3>2, <3>3, <3>4, <3>5 DEF ProjectType
  <2>2. RequestType'
    BY <1>24, Bounds DEF TypeOK, Grant, HandlerStep, RequestType, RequestPcs, requests
  <2> QED BY <1>24, Keep, <2>1, <2>2 DEF TypeOK, Grant
<1>25. ASSUME NEW r \in Request, Mark(r) PROVE TypeOK' /\ SlotPlace'
  <2>1. RowType'
    BY <1>25, Bounds DEF TypeOK, Mark, SetStatus, RowType, SlotType, RequestType, Statuses
  <2>2. ProjectType'
    BY <1>25, GateRanges, StageRange DEF TypeOK, Mark, ProjectType, SlotType, RequestType, project
  <2>3. RequestType'
    BY <1>25, Bounds DEF TypeOK, Mark, HandlerStep, RequestType, RequestPcs, requests
  <2> QED BY <1>25, Keep, <2>1, <2>2, <2>3 DEF TypeOK, Mark
<1>26. ASSUME NEW r \in Request, Signal(r) PROVE TypeOK' /\ SlotPlace'
  <2>1. FlagType'
    BY <1>26 DEF TypeOK, Signal, SignalByJob, SignalByFlag, FlagType, SlotType, RequestType, flags
  <2>2. QueueType'
    <3>1. rexec[r] \in Exec /\ 1 \in Attempts
      BY <1>26, ConstantsAssumption DEF Signal, TypeOK, RequestType, Attempts
    <3>2. CASE SignalByJob(r)
      BY <3>1, <3>2, EnqueueQueue DEF SignalByJob, TypeOK, QueueType
    <3>3. CASE SignalByFlag(r)
      BY <3>3, Keep DEF SignalByFlag, TypeOK
    <3> QED BY <1>26, <3>2, <3>3 DEF Signal
  <2>3. RequestType'
    BY <1>26, Bounds DEF TypeOK, Signal, SignalByJob, SignalByFlag, EndHandler, HandlerStep, RequestType, RequestPcs, requests
  <2> QED BY <1>26, Keep, <2>1, <2>2, <2>3 DEF TypeOK, Signal, SignalByJob, SignalByFlag
<1>27. ASSUME NEW r \in Request, Publish(r) PROVE TypeOK' /\ SlotPlace'
  <2>1. SlotType' /\ SlotPlace'
    BY <1>27, GateRanges, ConstantsAssumption DEF TypeOK, Publish, SlotType, SlotPlace, WorkerPcs, Early, AtHeldGate, slots
  <2>2. RequestType'
    BY <1>27, Bounds DEF TypeOK, Publish, EndHandler, RequestType, RequestPcs, requests
  <2> QED BY <1>27, Keep, <2>1, <2>2 DEF TypeOK, Publish
<1>28. ASSUME NEW r \in Request, HandlerDies(r) PROVE TypeOK' /\ SlotPlace'
  <2>1. QueueType'
    BY <1>28, ConstantsAssumption DEF TypeOK, HandlerDies, QueueType, SlotType, RequestType
  <2>2. RequestType'
    BY <1>28, Bounds DEF TypeOK, HandlerDies, EndHandler, RequestType, RequestPcs, requests
  <2> QED BY <1>28, Keep, <2>1, <2>2 DEF TypeOK, HandlerDies
<1>29. CASE UNCHANGED vars
  BY <1>29, Keep DEF vars, TypeOK
<1>30. ASSUME NEW w \in Worker, Throw(w) \/ WaitTimeout(w) PROVE wpc[w] # "idle" /\ FailRun(w)
  BY <1>30 DEF Throw, WaitTimeout
<1> QED
  BY <1>1, <1>2, <1>3, <1>4, <1>5, <1>6, <1>7, <1>8, <1>9, <1>10, <1>11, <1>12, <1>13, <1>14, <1>15, <1>16, <1>17, <1>18, <1>19, <1>20, <1>21, <1>22, <1>23, <1>24, <1>25, <1>26, <1>27, <1>28, <1>29, <1>30, <1>31, <1>32, <1>33, <1>34, <1>35
  DEF Next, ClaimAny, Drive, Handle, User
-----------------------------------------------------------------------------
(* What a step does to the gates slots, rows and requests name *)

\* A slot goes back to gate 1, or on past a gate that is approved or held.
SlotMoves ==
  \A w \in Worker :
    \/ wgate'[w] = wgate[w]
    \/ wgate'[w] = 1
    \/ wgate'[w] = wgate[w] + 1 /\ (wgate[w] \in approved \/ wgate[w] \in Held)

\* A row stays, stops awaiting, or awaits one of the new gates.
RowMoves(new) ==
  \A e \in Exec :
    \/ status'[e] = status[e] /\ gate'[e] = gate[e]
    \/ status'[e] # "AWAITING" /\ gate'[e] = 0
    \/ status'[e] = "AWAITING" /\ gate'[e] \in new

\* A request that is about to grant a gate found it in a row.
RequestMoves ==
  \A r \in Request : rpc'[r] = "grant" =>
    \/ rpc[r] = "grant" /\ rgate'[r] = rgate[r]
    \/ \E e \in Exec : status[e] = "AWAITING" /\ rgate'[r] = gate[e]

Moves(new) == SlotMoves /\ RowMoves(new) /\ RequestMoves /\ UNCHANGED approved

(* What a step leaves alone does not move. *)
LEMMA StillMoves ==
  /\ UNCHANGED wgate => SlotMoves
  /\ UNCHANGED slots => SlotMoves
  /\ UNCHANGED row => RowMoves({})
  /\ UNCHANGED requests => RequestMoves
BY DEF SlotMoves, RowMoves, RequestMoves, slots, row, requests

(* Every step moves no gate, asks for one, offers the login, or grants one. *)
LEMMA StepMoves ==
  ASSUME TypeOK, SlotPlace, [Next]_vars
  PROVE  \/ Moves({})
         \/ \E w \in Worker : Ask(w) /\ Moves({wgate[w]})
         \/ \E w \in Worker : wgate[w] \in Held /\ Moves({Login})
         \/ \E r \in Request : Grant(r) /\ SlotMoves /\ RowMoves({}) /\ RequestMoves
<1>1. ASSUME NEW w \in Worker, NEW e \in Exec, NEW a \in Attempts, Claim(w, e, a) PROVE Moves({})
  <2> QED BY <1>1, StillMoves DEF Moves, Claim, project, slots
<1>2. ASSUME NEW w \in Worker, ReadRow(w) PROVE Moves({})
  <2>1. SlotMoves
    BY <1>2 DEF ReadRow, FreeSlot, SlotMoves, TypeOK, SlotType
  <2> QED BY <1>2, StillMoves, <2>1 DEF Moves, ReadRow, project, slots
<1>3. ASSUME NEW w \in Worker, StartRun(w) PROVE Moves({})
  <2>1. RowMoves({})
    BY <1>3 DEF StartRun, SetStatus, RowMoves, row, TypeOK, RowType
  <2> QED BY <1>3, StillMoves, <2>1 DEF Moves, StartRun, project, slots
<1>4. ASSUME NEW w \in Worker, OpenContext(w) PROVE Moves({})
  <2> QED BY <1>4, StillMoves DEF Moves, OpenContext, project, slots
<1>5. ASSUME NEW w \in Worker, LoadGates(w) PROVE Moves({})
  <2>1. SlotMoves
    BY <1>5, GateRanges DEF LoadGates, SlotMoves, TypeOK, SlotType
  <2> QED BY <1>5, StillMoves, <2>1 DEF Moves, LoadGates, project, slots
<1>6. ASSUME NEW w \in Worker, EnterStage(w) PROVE Moves({})
  <2>1. RowMoves({})
    BY <1>6 DEF EnterStage, SetStatus, RowMoves, row, TypeOK, RowType
  <2> QED BY <1>6, StillMoves, <2>1 DEF Moves, EnterStage, project, slots
<1>31. ASSUME NEW w \in Worker, GroundCases(w) PROVE Moves({})
  <2> QED BY <1>31, StillMoves DEF Moves, GroundCases, project, slots
<1>32. ASSUME NEW w \in Worker, ShowStage(w) PROVE Moves({})
  <2> QED BY <1>32, StillMoves DEF Moves, ShowStage, slots
<1>7. ASSUME NEW w \in Worker, RunAgent(w) PROVE Moves({})
  <2>1. RowMoves({})
    BY <1>7 DEF RunAgent, SetStatus, RowMoves, row, TypeOK, RowType
  <2> QED BY <1>7, StillMoves, <2>1 DEF Moves, RunAgent, project, slots
<1>8. ASSUME NEW w \in Worker, WriteCases(w) PROVE Moves({})
  <2> QED BY <1>8, StillMoves DEF Moves, WriteCases, project, slots
<1>9. ASSUME NEW w \in Worker, Release(w) PROVE Moves({})
  <2>1. SlotMoves
    BY <1>9 DEF Release, FreeSlot, SlotMoves, TypeOK, SlotType
  <2> QED BY <1>9, StillMoves, <2>1 DEF Moves, Release, project, slots
<1>10. ASSUME NEW w \in Worker, CheckFlags(w) PROVE Moves({})
  <2>1. SlotMoves
    BY <1>10 DEF CheckFlags, PassGate, SlotMoves, TypeOK, SlotType, SlotPlace, AtHeldGate
  <2> QED BY <1>10, StillMoves, <2>1 DEF Moves, CheckFlags, project, slots
<1>11. ASSUME NEW w \in Worker, Poll(w) PROVE Moves({})
  <2>1. SlotMoves
    BY <1>11 DEF Poll, PassGate, SlotMoves, TypeOK, SlotType, SlotPlace, AtHeldGate
  <2> QED BY <1>11, StillMoves, <2>1 DEF Moves, Poll, project, slots
<1>12. ASSUME NEW w \in Worker, TakeMessage(w) PROVE Moves({})
  <2>1. SlotMoves
    BY <1>12 DEF TakeMessage, PassGate, SlotMoves, TypeOK, SlotType, SlotPlace, AtHeldGate
  <2> QED BY <1>12, StillMoves, <2>1 DEF Moves, TakeMessage, project, slots
<1>13. ASSUME NEW w \in Worker, CloseProject(w) PROVE Moves({})
  <2> QED BY <1>13, StillMoves DEF Moves, CloseProject, slots
<1>33. ASSUME NEW w \in Worker, Complete(w) PROVE Moves({})
  <2>1. RowMoves({})
    BY <1>33 DEF Complete, SetStatus, RowMoves, row, TypeOK, RowType
  <2> QED BY <1>33, StillMoves, <2>1 DEF Moves, Complete, project, slots
<1>34. ASSUME NEW w \in Worker, EndJob(w) PROVE Moves({})
  <2>1. SlotMoves
    BY <1>34 DEF EndJob, FreeSlot, SlotMoves, TypeOK, SlotType
  <2> QED BY <1>34, StillMoves, <2>1 DEF Moves, EndJob, project, slots
<1>14. ASSUME NEW w \in Worker, StopRun(w) PROVE Moves({})
  <2>1. SlotMoves
    BY <1>14 DEF StopRun, FreeSlot, SlotMoves, TypeOK, SlotType
  <2>2. RowMoves({})
    BY <1>14 DEF StopRun, SetStatus, RowMoves, row, TypeOK, RowType
  <2> QED BY <1>14, StillMoves, <2>1, <2>2 DEF Moves, StopRun, project, slots
<1>15. ASSUME NEW w \in Worker, wpc[w] # "idle", FailRun(w) PROVE Moves({})
  <2>1. SlotMoves
    BY <1>15 DEF FailRun, FreeSlot, SlotMoves, TypeOK, SlotType
  <2>2. RowMoves({})
    BY <1>15 DEF FailRun, SetStatus, RowMoves, row, TypeOK, RowType
  <2> QED BY <1>15, StillMoves, <2>1, <2>2 DEF Moves, FailRun, project, slots
<1>16. ASSUME NEW w \in Worker, ThrowUnrecorded(w) PROVE Moves({})
  <2>1. SlotMoves
    BY <1>16 DEF ThrowUnrecorded, FreeSlot, SlotMoves, TypeOK, SlotType
  <2> QED BY <1>16, StillMoves, <2>1 DEF Moves, ThrowUnrecorded, project, slots
<1>17. ASSUME NEW w \in Worker, Crash(w) PROVE Moves({})
  <2>1. SlotMoves
    BY <1>17 DEF Crash, FreeSlot, SlotMoves, TypeOK, SlotType
  <2> QED BY <1>17, StillMoves, <2>1 DEF Moves, Crash, project, slots
<1>18. ASSUME NEW e \in Exec, FlagExpires(e) PROVE Moves({})
  <2> QED BY <1>18, StillMoves DEF Moves, FlagExpires, project, slots
<1>35. ASSUME NEW e \in Exec, EditCases(e) PROVE Moves({})
  <2> QED BY <1>35, StillMoves DEF Moves, EditCases, project, slots
<1>19. ASSUME NEW r \in Request, NEW e \in Exec, BeginApprove(r, e) PROVE Moves({})
  <2>1. RequestMoves
    BY <1>19 DEF BeginApprove, Begin, RequestMoves, requests, TypeOK, RequestType
  <2> QED BY <1>19, StillMoves, <2>1 DEF Moves, BeginApprove, Begin, project, slots
<1>20. ASSUME NEW r \in Request, NEW e \in Exec, BeginContinue(r, e) PROVE Moves({})
  <2>1. RequestMoves
    BY <1>20 DEF BeginContinue, Begin, RequestMoves, requests, TypeOK, RequestType
  <2> QED BY <1>20, StillMoves, <2>1 DEF Moves, BeginContinue, Begin, project, slots
<1>21. ASSUME NEW r \in Request, NEW e \in Exec, BeginCancel(r, e) PROVE Moves({})
  <2>1. RequestMoves
    BY <1>21 DEF BeginCancel, Begin, RequestMoves, requests, TypeOK, RequestType
  <2> QED BY <1>21, StillMoves, <2>1 DEF Moves, BeginCancel, Begin, project, slots
<1>22. ASSUME NEW r \in Request, Mark(r) PROVE Moves({})
  <2>1. RowMoves({})
    BY <1>22 DEF Mark, SetStatus, RowMoves, row, TypeOK, RowType
  <2>2. RequestMoves
    BY <1>22 DEF Mark, HandlerStep, RequestMoves, requests, TypeOK, RequestType
  <2> QED BY <1>22, StillMoves, <2>1, <2>2 DEF Moves, Mark, project, slots
<1>23. ASSUME NEW r \in Request, Signal(r) PROVE Moves({})
  <2>1. RequestMoves
    BY <1>23 DEF Signal, SignalByJob, SignalByFlag, EndHandler, HandlerStep, RequestMoves, requests, TypeOK, RequestType
  <2> QED BY <1>23, StillMoves, <2>1 DEF Moves, Signal, SignalByJob, SignalByFlag, project, slots
<1>24. ASSUME NEW r \in Request, Publish(r) PROVE Moves({})
  <2>1. RequestMoves
    BY <1>24 DEF Publish, EndHandler, RequestMoves, requests, TypeOK, RequestType
  <2> QED BY <1>24, StillMoves, <2>1 DEF Moves, Publish, project, slots
<1>25. ASSUME NEW r \in Request, HandlerDies(r) PROVE Moves({})
  <2>1. RequestMoves
    BY <1>25 DEF HandlerDies, EndHandler, RequestMoves, requests, TypeOK, RequestType
  <2> QED BY <1>25, StillMoves, <2>1 DEF Moves, HandlerDies, project, slots
<1>26. ASSUME NEW w \in Worker, Ask(w) PROVE Moves({wgate[w]})
  <2>1. RowMoves({wgate[w]})
    BY <1>26 DEF Ask, SetAwaiting, RowMoves, TypeOK, RowType
  <2> QED BY <1>26, <2>1, StillMoves DEF Moves, Ask, project
<1>27. ASSUME NEW w \in Worker, LaunchBrowser(w) PROVE wgate[w] \in Held /\ Moves({Login})
  <2>1. RowMoves({Login})
    BY <1>27 DEF LaunchBrowser, SetAwaiting, RowMoves, TypeOK, RowType
  <2>2. wgate[w] \in Held
    BY <1>27 DEF LaunchBrowser, SlotPlace, AtHeldGate
  <2> QED BY <1>27, <2>1, <2>2, StillMoves DEF Moves, LaunchBrowser, project
<1>28. ASSUME NEW r \in Request, Grant(r) PROVE SlotMoves /\ RowMoves({}) /\ RequestMoves
  <2>1. RequestMoves
    BY <1>28 DEF Grant, HandlerStep, RequestMoves, TypeOK, RequestType
  <2> QED BY <1>28, <2>1, StillMoves DEF Grant, slots
<1>29. ASSUME UNCHANGED vars PROVE Moves({})
  BY <1>29, StillMoves DEF Moves, vars, project
<1>30. ASSUME NEW w \in Worker, Throw(w) \/ WaitTimeout(w) PROVE wpc[w] # "idle" /\ FailRun(w)
  BY <1>30 DEF Throw, WaitTimeout
<1> QED
  BY <1>1, <1>2, <1>3, <1>4, <1>5, <1>6, <1>7, <1>8, <1>9, <1>10, <1>11, <1>12, <1>13, <1>14, <1>15, <1>16, <1>17, <1>18, <1>19, <1>20, <1>21, <1>22, <1>23, <1>24, <1>25, <1>26, <1>27, <1>28, <1>29, <1>30, <1>31, <1>32, <1>33, <1>34, <1>35
  DEF Next, ClaimAny, Drive, Handle, User

-----------------------------------------------------------------------------
(* The order of the gates *)

(* A gate that is cleared stays so. *)
LEMMA ClearedStays ==
  ASSUME NEW g, Cleared(g), approved \subseteq approved'
  PROVE  Cleared(g)'
BY DEF Cleared

(* A slot that passes an approved or a held gate is at a cleared one. *)
LEMMA NextCleared ==
  ASSUME NEW g \in Gates, Cleared(g), g \in approved \/ g \in Held
  PROVE  Cleared(g + 1)
BY ConstantsAssumption DEF Cleared, Gates, Held, Login, Released

(* The first gate has nothing before it. *)
LEMMA FirstCleared == Cleared(0) /\ Cleared(1)
BY ConstantsAssumption DEF Cleared, Released

(* At the start every slot, row and request is at the first gate or at none. *)
LEMMA OrderInit == Init => GateOrder
BY FirstCleared DEF Init, GateOrder

(* Every step keeps the gates that slots, rows, requests and approvals name in order. *)
LEMMA OrderStep ==
  ASSUME TypeOK, SlotPlace, GateOrder, [Next]_vars
  PROVE  GateOrder'
<1>1. ASSUME SlotMoves, approved \subseteq approved'
      PROVE  \A w \in Worker : Cleared(wgate[w])'
  <2> SUFFICES ASSUME NEW w \in Worker PROVE Cleared(wgate'[w])
    BY <1>1, ClearedStays DEF Cleared
  <2>1. Cleared(wgate[w]) /\ wgate[w] \in Gates
    BY DEF GateOrder, TypeOK, SlotType
  <2> QED BY <1>1, <2>1, NextCleared, FirstCleared DEF SlotMoves
<1>2. ASSUME NEW new, RowMoves(new), \A g \in new : Cleared(g), approved \subseteq approved'
      PROVE  \A e \in Exec : Cleared(gate[e])'
  <2> SUFFICES ASSUME NEW e \in Exec PROVE Cleared(gate'[e])
    BY <1>2, ClearedStays DEF Cleared
  <2> QED BY <1>2, FirstCleared DEF RowMoves, GateOrder
<1>3. ASSUME RequestMoves, approved \subseteq approved'
      PROVE  \A r \in Request : rpc'[r] = "grant" => Cleared(rgate[r])'
  <2> SUFFICES ASSUME NEW r \in Request, rpc'[r] = "grant" PROVE Cleared(rgate'[r])
    BY <1>3, ClearedStays DEF Cleared
  <2> QED BY <1>3 DEF RequestMoves, GateOrder
<1>4. ASSUME UNCHANGED approved PROVE \A g \in approved' : Cleared(g)'
  BY <1>4 DEF GateOrder, Cleared
<1>5. ASSUME NEW new, Moves(new), \A g \in new : Cleared(g) PROVE GateOrder'
  BY <1>1, <1>2, <1>3, <1>4, <1>5 DEF Moves, GateOrder
<1>6. CASE Moves({})
  BY <1>5, <1>6
<1>7. ASSUME NEW w \in Worker, Moves({wgate[w]}) PROVE GateOrder'
  <2>1. Cleared(wgate[w]) BY DEF GateOrder
  <2> QED BY <1>5, <1>7, <2>1
<1>8. ASSUME NEW w \in Worker, wgate[w] \in Held, Moves({Login}) PROVE GateOrder'
  <2>1. Cleared(Login)
    BY <1>8, ConstantsAssumption DEF GateOrder, Cleared, Held, Login, Released
  <2> QED BY <1>5, <1>8, <2>1
<1>9. ASSUME NEW r \in Request, Grant(r), SlotMoves, RowMoves({}), RequestMoves PROVE GateOrder'
  <2>1. approved' = approved \union {rgate[r]} /\ rpc[r] = "grant"
    BY <1>9 DEF Grant
  <2>2. Cleared(rgate[r])
    BY <2>1 DEF GateOrder
  <2>3. \A g \in approved' : Cleared(g)'
    BY <2>1, <2>2 DEF GateOrder, Cleared
  <2>4. approved \subseteq approved'
    BY <2>1
  <2> QED BY <1>1, <1>2, <1>3, <1>9, <2>3, <2>4 DEF GateOrder
<1> QED BY <1>6, <1>7, <1>8, <1>9, StepMoves

-----------------------------------------------------------------------------
(* The inductive invariant holds of every behaviour, whatever the hazards. *)
THEOREM Invariance == Spec => []IInv
<1>1. Init => IInv
  BY TypeInit, OrderInit DEF IInv
<1>2. IInv /\ [Next]_vars => IInv'
  BY TypeStep, OrderStep DEF IInv
<1> QED BY <1>1, <1>2, PTL DEF Spec

(* Every reachable state is typed. *)
THEOREM TypeCorrect == Spec => []TypeOK
<1>1. IInv => TypeOK
  BY DEF IInv
<1> QED BY <1>1, Invariance, PTL

(* No slot works past a released gate, and none is approved, ahead of an earlier one. *)
THEOREM ReleasedGatesOrdered == Spec => []ReleasedGatesInOrder
<1>1. IInv => ReleasedGatesInOrder
  BY DEF IInv, GateOrder, ReleasedGatesInOrder
<1> QED BY <1>1, Invariance, PTL
-----------------------------------------------------------------------------
(* The ledger *)

\* The ledger's two sets.
Asked == OpenGates(Released)
Signed == approved \intersect Released

(* Closing any of the open gates is a step of the ledger. *)
LEMMA CloseStep ==
  ASSUME Asked' \subseteq Asked, Signed' = Signed
  PROVE  ReleasedLedger!Next
<1>1. (Asked \ Asked') \in SUBSET Asked /\ Asked' = Asked \ (Asked \ Asked')
  OBVIOUS
<1> QED BY <1>1 DEF ReleasedLedger!Next, ReleasedLedger!Close, Asked, Signed

(* So is opening a cleared gate. *)
LEMMA OpenStep ==
  ASSUME NEW g \in Released, Cleared(g), g \in Asked', Asked' \subseteq Asked \union {g}, Signed' = Signed
  PROVE  ReleasedLedger!Next
<1>1. (Asked \ Asked') \in SUBSET Asked /\ Asked' = (Asked \ (Asked \ Asked')) \union {g}
  OBVIOUS
<1>2. ReleasedLedger!Before(g) \subseteq Signed
  BY DEF ReleasedLedger!Before, Cleared, Signed
<1>3. ReleasedLedger!Open(g)
  BY <1>1, <1>2 DEF ReleasedLedger!Open, Asked, Signed
<1> QED BY <1>3 DEF ReleasedLedger!Next

(* And recording the answer to an open gate. *)
LEMMA GrantStep ==
  ASSUME NEW g \in Released, g \in Asked, Asked' \subseteq Asked, Signed' = Signed \union {g}
  PROVE  ReleasedLedger!Next
<1>1. (Asked \ Asked') \in SUBSET Asked /\ Asked' = Asked \ (Asked \ Asked')
  OBVIOUS
<1>2. ReleasedLedger!Grant(g)
  BY <1>1 DEF ReleasedLedger!Grant, Asked, Signed
<1> QED BY <1>2 DEF ReleasedLedger!Next

(* What is asked after a step was asked before, or is new in a row. *)
LEMMA AskedMoves ==
  ASSUME NEW new, RowMoves(new), RequestMoves
  PROVE  Asked' \subseteq Asked \union new
<1> SUFFICES ASSUME NEW g \in Asked' PROVE g \in Asked \union new
  OBVIOUS
<1>1. CASE \E e \in Exec : status'[e] = "AWAITING" /\ gate'[e] = g
  <2>1. PICK e \in Exec : status'[e] = "AWAITING" /\ gate'[e] = g
    BY <1>1
  <2> QED BY <2>1 DEF RowMoves, Asked, OpenGates
<1>2. CASE \E r \in Request : rpc'[r] = "grant" /\ rgate'[r] = g
  <2>1. PICK r \in Request : rpc'[r] = "grant" /\ rgate'[r] = g
    BY <1>2
  <2> QED BY <2>1 DEF RequestMoves, Asked, OpenGates
<1> QED BY <1>1, <1>2 DEF Asked, OpenGates

(* Every step of the pipeline is a step of the ledger. *)
LEMMA LedgerStep ==
  ASSUME IInv, [Next]_vars
  PROVE  ReleasedLedger!Next
<1>1. CASE Moves({})
  BY <1>1, AskedMoves, CloseStep DEF Moves, Signed
<1>2. ASSUME NEW w \in Worker, Ask(w), Moves({wgate[w]}) PROVE ReleasedLedger!Next
  <2>1. Asked' \subseteq Asked \union {wgate[w]} /\ Signed' = Signed
    BY <1>2, AskedMoves DEF Moves, Signed
  <2>2. CASE wgate[w] \in Released
    <3>1. Cleared(wgate[w])
      BY DEF IInv, GateOrder
    <3>2. wexec[w] \in Exec
      BY <1>2 DEF Ask, StageDone, IInv, TypeOK, SlotType
    <3>3. status'[wexec[w]] = "AWAITING" /\ gate'[wexec[w]] = wgate[w]
      BY <1>2, <3>2 DEF Ask, SetAwaiting, IInv, TypeOK, RowType
    <3>4. wgate[w] \in Asked'
      BY <2>2, <3>2, <3>3 DEF Asked, OpenGates
    <3> QED BY <2>1, <2>2, <3>1, <3>4, OpenStep
  <2>3. CASE wgate[w] \notin Released
    <3>1. Asked' \subseteq Asked
      BY <2>1, <2>3 DEF Asked, OpenGates
    <3> QED BY <2>1, <3>1, CloseStep
  <2> QED BY <2>2, <2>3
<1>3. ASSUME NEW w \in Worker, wgate[w] \in Held, Moves({Login}) PROVE ReleasedLedger!Next
  <2>1. Asked' \subseteq Asked \union {Login} /\ Signed' = Signed
    BY <1>3, AskedMoves DEF Moves, Signed
  <2>2. Asked' \subseteq Asked
    BY <2>1, GateRanges DEF Asked, OpenGates
  <2> QED BY <2>1, <2>2, CloseStep
<1>4. ASSUME NEW r \in Request, Grant(r), RowMoves({}), RequestMoves PROVE ReleasedLedger!Next
  <2>1. Asked' \subseteq Asked
    BY <1>4, AskedMoves
  <2>2. approved' = approved \union {rgate[r]} /\ rpc[r] = "grant"
    BY <1>4 DEF Grant
  <2>3. CASE rgate[r] \in Released
    <3>1. rgate[r] \in Asked
      BY <2>2, <2>3 DEF Asked, OpenGates
    <3>2. Signed' = Signed \union {rgate[r]}
      BY <2>2, <2>3 DEF Signed
    <3> QED BY <2>1, <2>3, <3>1, <3>2, GrantStep
  <2>4. CASE rgate[r] \notin Released
    <3>1. Signed' = Signed
      BY <2>2, <2>4 DEF Signed
    <3> QED BY <2>1, <3>1, CloseStep
  <2> QED BY <2>3, <2>4
<1> QED BY <1>1, <1>2, <1>3, <1>4, StepMoves DEF IInv

(* Whatever fails, races or restarts, the released gates are put to humans and *)
(* granted as the abstract ledger says.                                        *)
THEOREM RefinesReleasedLedger == Spec => ImplementsReleasedLedger
<1>1. Init => ReleasedLedger!Init
  BY ConstantsAssumption DEF Init, ReleasedLedger!Init, OpenGates, Released
<1>2. IInv /\ [Next]_vars => [ReleasedLedger!Next]_(ReleasedLedger!ledger)
  BY LedgerStep
<1> QED BY <1>1, <1>2, Invariance, PTL DEF Spec, ImplementsReleasedLedger, ReleasedLedger!Spec
=============================================================================
