---------------------------- MODULE StlcGatesProofs ----------------------------
(***************************************************************************)
(* Theorems about the held gates of StlcRun, for any number of executions, *)
(* slots, requests, gates and attempts.  Where agents throw and are        *)
(* retried, users cancel whenever they like and handlers keep up (Timely), *)
(* a run passes a gate on an answer to it only, meets no leftover          *)
(* continue-flag, and completes signed off.  It has one driver also where  *)
(* users hurry, handlers are slow and timers run out (Orderly), and shows  *)
(* no stage behind an open gate unless users hurry while handlers are slow *)
(* (Steady).                                                               *)
(***************************************************************************)
EXTENDS StlcRunProofs, FiniteSetTheorems

\* The environment of the held gates.  StlcRun's violation runs show what its other events do.
Timely == Hazards \subseteq {"fault", "cancel", "edit"} /\ MaxCrashes = 0

\* A slot short of releasing drives its run; a job that waits will.
Driving(w, e) == wexec[w] = e /\ wpc[w] # "release"
NoSlot(e) == \A w \in Worker : ~Driving(w, e)
NoJob(e) == \A a \in Attempts : queued[e][a] = 0

\* A handler in flight that answers a gate of the run.
Answering(r, e) == rexec[r] = e /\ rop[r] # "cancel"

Offered == {"check", "wait", "stopped", "cancelled"}
Waiting == {"check", "wait", "woken", "stopped"}
AtWork  == {"row", "init", "context", "gates", "ground", "work", "show", "busy", "drafted"}
Ending  == {"closing", "done", "ended"}

\* Which steps the gate of a slot and the operation of a request allow.
Placed ==
  /\ \A w \in Worker : wpc[w] = "idle" <=> wexec[w] = NoExec
  /\ \A w \in Worker : wpc[w] = "launch" => wgate[w] = Login
  /\ \A w \in Worker : wpc[w] = "release" => wgate[w] \in Released
  /\ \A w \in Worker : wpc[w] = "drafted" => wgate[w] = 1
  /\ \A w \in Worker : wpc[w] \in Ending => wgate[w] = LastGate
  /\ \A w \in Worker : wpc[w] = "ground" => wgate[w] \in {LastReleased, Login}
  /\ \A w \in Worker : wpc[w] = "show" => ShowsStage(wgate[w])
  /\ \A r \in Request : rpc[r] = "idle" <=> rexec[r] = NoExec
  /\ \A r \in Request : rpc[r] # "idle" /\ rop[r] = "approve" => rgate[r] \in ApprovalGates
  /\ \A r \in Request : rpc[r] = "grant" => rop[r] = "approve"

\* A patient user's Continue is for the login.
Places ==
  /\ Placed
  /\ \A r \in Request : rpc[r] # "idle" /\ rop[r] = "continue" => rgate[r] = Login

\* A run has one request, and one slot or one waiting job.
Alone(e) ==
  /\ \A q, r \in Request : rexec[q] = e /\ rexec[r] = e => q = r
  /\ \A v, w \in Worker : Driving(v, e) /\ Driving(w, e) => v = w
  /\ NoSlot(e) \/ NoJob(e)
  /\ \A a \in Attempts : queued[e][a] \in {0, 1}
  /\ \A a, b \in Attempts : queued[e][a] = 1 /\ queued[e][b] = 1 => a = b

\* Where a row awaits a gate, no job is left and a slot on the run waits at that gate.
Awaits(e) ==
  status[e] = "AWAITING" =>
    /\ gate[e] \in Gates
    /\ NoJob(e)
    /\ ~contFlag[e]
    /\ \A w \in Worker : Driving(w, e) =>
         gate[e] \in Held /\ wgate[w] = gate[e] /\ wpc[w] \in Offered \union {"launch"}

\* So does the slot of a run whose gate is being answered, until the answer is signalled.
Asking(r, e) ==
  rpc[r] \in {"grant", "mark", "signal"} =>
    /\ NoJob(e)
    /\ ~contFlag[e]
    /\ \A w \in Worker : Driving(w, e) =>
         rgate[r] \in Held /\ wgate[w] = rgate[r] /\ wpc[w] \in Offered
    /\ \/ rpc[r] # "signal" /\ status[e] = "AWAITING" /\ gate[e] = rgate[r]
       \/ rpc[r] = "signal" /\ status[e] = "RUNNING"
       \/ status[e] = "CANCELLED"

\* What an answer has recorded by then.
Recording(r, e) ==
  /\ rop[r] = "approve" /\ rpc[r] # "grant" => rgate[r] \in answered[e]
  /\ rpc[r] \in {"signal", "publish"} => rgate[r] \in answered[e]

\* A message finds no slot that waits at a gate nobody answered.
Calling(r, e) ==
  rpc[r] = "publish" =>
    /\ rgate[r] \notin Released
    /\ status[e] # "AWAITING"
    /\ \A w \in Worker : Driving(w, e) =>
         wpc[w] # "launch" /\ (wpc[w] \in Waiting => wgate[w] \in answered[e])

Answers(e) == \A r \in Request : Answering(r, e) => Asking(r, e) /\ Recording(r, e) /\ Calling(r, e)

\* A continue-flag is for the slot that waits, or stays behind a run that is being stopped.
Flagged(e) ==
  contFlag[e] =>
    /\ NoJob(e)
    /\ \A w \in Worker : Driving(w, e) =>
         wpc[w] = "cancelled" \/ (wpc[w] \in Waiting /\ wgate[w] \in answered[e])

\* Slots are past answered gates, and woken at one.
Passed(e) ==
  \A w \in Worker : wexec[w] = e =>
    /\ \A g \in Held : g < wgate[w] => g \in answered[e]
    /\ wpc[w] \in Ending => LastGate \in answered[e]
    /\ wpc[w] = "woken" => wgate[w] \in answered[e]

\* A run that is over has nobody on it but the job that completed it, and was signed off.
Over(e) ==
  status[e] = "COMPLETED" =>
    /\ NoJob(e) /\ \A w \in Worker : Driving(w, e) => wpc[w] = "ended"
    /\ ApprovalGates \subseteq approved /\ LastGate \in answered[e]

\* An answer to an approval gate is on record in the project.
Recorded(e) == \A g \in answered[e] : g \in ApprovalGates => g \in approved

RunInv(e) == Alone(e) /\ Awaits(e) /\ Answers(e) /\ Flagged(e) /\ Passed(e) /\ Over(e) /\ Recorded(e)

GInv == IInv /\ Places /\ \A e \in Exec : RunInv(e)

-----------------------------------------------------------------------------
(* What a step of the environment may be *)

\* Where the agents and the database calls of a stage may throw.
Failing == {"gates", "ground", "work", "show", "busy", "drafted", "launch"} \union Ending

\* A step of a slot, or of a request, that a timely environment allows.
SlotStep(w) ==
  \/ ClaimAny(w) \/ ReadRow(w) \/ StartRun(w) \/ OpenContext(w) \/ LoadGates(w) \/ GroundCases(w)
  \/ EnterStage(w) \/ ShowStage(w) \/ RunAgent(w) \/ WriteCases(w) \/ Ask(w) \/ Release(w) \/ LaunchBrowser(w)
  \/ CheckFlags(w) \/ Poll(w) \/ TakeMessage(w)
  \/ CloseProject(w) \/ Complete(w) \/ EndJob(w) \/ StopRun(w)
  \/ wpc[w] \in Failing /\ FailRun(w)

\* A request comes when none is in flight for the run.
Come(r, e) ==
  /\ rexec[r] = NoExec
  /\ \A q \in Request : rexec[q] # e
  /\ \/ BeginApprove(r, e)
     \/ /\ status[e] = "AWAITING" /\ gate[e] = Login /\ LoginOffered(e)
        /\ Begin(r, "continue", e, Login, "mark")
     \/ BeginCancel(r, e)

RequestStep(r) == (\E e \in Exec : Come(r, e)) \/ Handle(r)

(* Steps of a timely environment: no timer, no death, no overlapping request. *)
LEMMA TimelySteps ==
  ASSUME Timely, TypeOK, Places, [Next]_vars
  PROVE  \/ \E w \in Worker : SlotStep(w)
         \/ \E r \in Request : RequestStep(r)
         \/ \E e \in Exec : EditCases(e)
         \/ UNCHANGED vars
<1>1. /\ "edge" \notin Hazards /\ "timer" \notin Hazards /\ "impatient" \notin Hazards
      /\ "overlap" \notin Hazards
  BY DEF Timely
<1>2. ASSUME NEW w \in Worker, Crash(w) PROVE FALSE
  BY <1>2 DEF Crash, Timely, TypeOK, QueueType
<1>3. ASSUME NEW r \in Request, HandlerDies(r) PROVE FALSE
  BY <1>3 DEF HandlerDies, Timely, TypeOK, QueueType
<1>4. ASSUME NEW w \in Worker, ThrowUnrecorded(w) \/ WaitTimeout(w) PROVE FALSE
  BY <1>1, <1>4 DEF ThrowUnrecorded, WaitTimeout
<1>5. ASSUME NEW e \in Exec, FlagExpires(e) PROVE FALSE
  BY <1>1, <1>5 DEF FlagExpires
<1>6. ASSUME NEW w \in Worker, Throw(w) PROVE SlotStep(w)
  BY <1>1, <1>6 DEF Throw, SlotStep, Failing, Ending
<1>7. ASSUME NEW w \in Worker, ClaimAny(w) \/ Drive(w) \/ RunAgent(w) PROVE SlotStep(w)
  BY <1>7 DEF Drive, SlotStep
<1>8. ASSUME NEW r \in Request, User(r) PROVE RequestStep(r)
  <2>1. PICK e \in Exec : BeginApprove(r, e) \/ BeginContinue(r, e) \/ BeginCancel(r, e)
    BY <1>8 DEF User
  <2>2. ASSUME NEW op, NEW g, NEW pc, Begin(r, op, e, g, pc)
        PROVE  rexec[r] = NoExec /\ \A q \in Request : rexec[q] # e
    BY <1>1, <2>2 DEF Begin, Places, Placed
  <2>3. CASE BeginApprove(r, e)
    BY <2>2, <2>3 DEF BeginApprove, Come, RequestStep
  <2>4. CASE BeginContinue(r, e)
    BY <1>1, <2>2, <2>4 DEF BeginContinue, Come, RequestStep
  <2>5. CASE BeginCancel(r, e)
    BY <2>2, <2>5 DEF BeginCancel, Come, RequestStep
  <2> QED BY <2>1, <2>3, <2>4, <2>5
<1> QED BY <1>2, <1>3, <1>4, <1>5, <1>6, <1>7, <1>8 DEF Next, RequestStep

-----------------------------------------------------------------------------
(* Where steps lead *)

(* At the start nobody is anywhere. *)
LEMMA PlacesInit == Init => Places
BY ConstantsAssumption DEF Init, Places, Placed, Ending

(* Every step of any environment keeps slots and requests in their places. *)
LEMMA PlacedStep ==
  ASSUME TypeOK, SlotPlace, Placed, [Next]_vars
  PROVE  Placed'
<1> DEFINE SlotOk(w) ==
             /\ wpc[w] = "idle" <=> wexec[w] = NoExec
             /\ wpc[w] = "launch" => wgate[w] = Login
             /\ wpc[w] = "release" => wgate[w] \in Released
             /\ wpc[w] = "drafted" => wgate[w] = 1
             /\ wpc[w] \in Ending => wgate[w] = LastGate
             /\ wpc[w] = "ground" => wgate[w] \in {LastReleased, Login}
             /\ wpc[w] = "show" => ShowsStage(wgate[w])
           RequestOk(r) ==
             /\ rpc[r] = "idle" <=> rexec[r] = NoExec
             /\ rpc[r] # "idle" /\ rop[r] = "approve" => rgate[r] \in ApprovalGates
             /\ rpc[r] = "grant" => rop[r] = "approve"
<1>1. Placed <=> (\A w \in Worker : SlotOk(w)) /\ \A r \in Request : RequestOk(r)
  BY DEF Placed
<1>2. Placed' <=> (\A w \in Worker : SlotOk(w)') /\ \A r \in Request : RequestOk(r)'
  BY DEF Placed
<1> HIDE DEF SlotOk, RequestOk
<1>3. ASSUME UNCHANGED slots PROVE \A w \in Worker : SlotOk(w)'
  BY <1>1, <1>3 DEF slots, SlotOk
<1>4. ASSUME UNCHANGED requests PROVE \A r \in Request : RequestOk(r)'
  BY <1>1, <1>4 DEF requests, RequestOk
<1>5. ASSUME NEW w \in Worker, FreeSlot(w) PROVE \A v \in Worker : SlotOk(v)'
  BY <1>1, <1>5 DEF FreeSlot, SlotOk, Ending, TypeOK, SlotType
<1>6. ASSUME NEW w \in Worker, NEW pc, wpc[w] # "idle", Step(w, pc), UNCHANGED wexec,
             pc \notin {"idle", "launch", "release", "drafted"}, pc \in Ending => wgate'[w] = LastGate,
             pc = "ground" => wgate'[w] \in {LastReleased, Login}, pc = "show" => ShowsStage(wgate'[w]),
             \A v \in Worker : v # w => wgate'[v] = wgate[v]
      PROVE  \A v \in Worker : SlotOk(v)'
  <2>1. /\ wpc'[w] = pc /\ wexec'[w] = wexec[w]
        /\ \A v \in Worker : v # w => wpc'[v] = wpc[v] /\ wexec'[v] = wexec[v]
    BY <1>6 DEF Step, TypeOK, SlotType
  <2>2. ASSUME NEW v \in Worker, v # w PROVE SlotOk(v)'
    BY <1>1, <1>6, <2>1, <2>2 DEF SlotOk
  <2>3. SlotOk(w)'
    BY <1>1, <1>6, <2>1 DEF SlotOk
  <2> QED BY <2>2, <2>3
<1>7. ASSUME NEW w \in Worker, PassGate(w), wpc[w] # "idle", UNCHANGED wexec
      PROVE  \A v \in Worker : SlotOk(v)'
  <2>1. \A v \in Worker : v # w => wgate'[v] = wgate[v]
    BY <1>7 DEF PassGate, TypeOK, SlotType
  <2> QED BY <1>6, <1>7, <2>1 DEF PassGate, Ending
<1>8. ASSUME NEW w \in Worker, ClaimAny(w) \/ Drive(w) \/ RunAgent(w) PROVE \A v \in Worker : SlotOk(v)'
  <2>1. ASSUME NEW e \in Exec, NEW a \in Attempts, Claim(w, e, a) PROVE \A v \in Worker : SlotOk(v)'
    BY <1>1, <2>1, ConstantsAssumption DEF Claim, Step, SlotOk, Ending, TypeOK, SlotType
  <2>2. CASE ReadRow(w)
    BY <1>5, <1>6, <2>2 DEF ReadRow, Ending
  <2>3. CASE StartRun(w) \/ OpenContext(w) \/ GroundCases(w) \/ ShowStage(w) \/ RunAgent(w)
    BY <1>3, <1>6, <2>3 DEF StartRun, OpenContext, GroundCases, ShowStage, RunAgent, Ending
  <2>13. CASE EnterStage(w)
    <3>1. CASE ShowsStage(wgate[w])
      BY <1>6, <2>13, <3>1 DEF EnterStage, Ending
    <3>2. CASE ~ShowsStage(wgate[w])
      BY <1>6, <2>13, <3>2 DEF EnterStage, Ending
    <3> QED BY <3>1, <3>2
  <2>4. CASE LoadGates(w)
    <3>1. \A v \in Worker : v # w => wgate'[v] = wgate[v]
      BY <2>4 DEF LoadGates, TypeOK, SlotType
    <3>2. wgate'[w] = (IF wgate[w] \in approved THEN wgate[w] + 1 ELSE wgate[w]) /\ wpc[w] # "idle" /\ UNCHANGED wexec
      BY <2>4 DEF LoadGates, TypeOK, SlotType
    <3>3. CASE wgate[w] = LastReleased
      <4>1. Step(w, "ground") /\ wgate'[w] \in {LastReleased, Login}
        BY <2>4, <3>2, <3>3 DEF LoadGates, Login
      <4> QED BY <1>6, <3>1, <3>2, <4>1 DEF Ending
    <3>4. CASE wgate[w] # LastReleased
      <4>1. Step(w, "gates") \/ Step(w, "work")
        BY <2>4, <3>4 DEF LoadGates
      <4> QED BY <1>6, <3>1, <3>2, <4>1 DEF Ending
    <3> QED BY <3>3, <3>4
  <2>5. CASE WriteCases(w)
    BY <1>1, <2>5 DEF WriteCases, Step, SlotOk, Ending, TypeOK, SlotType
  <2>6. CASE Ask(w)
    <3>1. Login \notin Released
      BY GateRanges
    <3>2. wpc[w] # "idle" /\ UNCHANGED <<wexec, wgate>>
      BY <2>6 DEF Ask, StageDone
    <3>3. Step(w, IF wgate[w] \in Released THEN "release" ELSE IF wgate[w] = Login THEN "launch" ELSE "check")
      BY <2>6, <3>1 DEF Ask
    <3> QED BY <1>1, <3>2, <3>3 DEF Step, SlotOk, Ending, TypeOK, SlotType
  <2>7. CASE Release(w)
    BY <1>5, <2>7 DEF Release
  <2>8. CASE LaunchBrowser(w)
    BY <1>6, <2>8 DEF LaunchBrowser, Ending
  <2>9. CASE CheckFlags(w)
    BY <1>6, <1>7, <2>9 DEF CheckFlags, Ending
  <2>10. CASE Poll(w)
    BY <1>6, <1>7, <2>10 DEF Poll, Ending
  <2>11. CASE TakeMessage(w)
    BY <1>6, <1>7, <2>11 DEF TakeMessage, Ending
  <2>12. CASE EndJob(w) \/ StopRun(w)
    BY <1>5, <2>12 DEF EndJob, StopRun
  <2>14. CASE CloseProject(w) \/ Complete(w)
    <3>1. wpc[w] \in Ending /\ UNCHANGED <<wexec, wgate>> /\ (Step(w, "done") \/ Step(w, "ended"))
      BY <2>14 DEF CloseProject, Complete, Ending
    <3>2. wgate'[w] = LastGate /\ wpc[w] # "idle"
      BY <1>1, <3>1 DEF SlotOk, Ending
    <3> QED BY <1>6, <3>1, <3>2
  <2> QED
    BY <1>8, <2>1, <2>2, <2>3, <2>4, <2>5, <2>6, <2>7, <2>8, <2>9, <2>10, <2>11, <2>12, <2>13, <2>14 DEF Drive, ClaimAny
<1>9. ASSUME NEW w \in Worker, Throw(w) \/ ThrowUnrecorded(w) \/ WaitTimeout(w) \/ Crash(w) PROVE \A v \in Worker : SlotOk(v)'
  BY <1>5, <1>9 DEF Throw, ThrowUnrecorded, WaitTimeout, FailRun, Crash
<1>10. ASSUME NEW w \in Worker,
              ClaimAny(w) \/ Drive(w) \/ RunAgent(w) \/ Throw(w) \/ ThrowUnrecorded(w) \/ WaitTimeout(w) \/ Crash(w)
       PROVE  UNCHANGED requests
  BY <1>10 DEF ClaimAny, Claim, Drive, ReadRow, StartRun, OpenContext, LoadGates, GroundCases, EnterStage, ShowStage, RunAgent,
     WriteCases, Ask, Release, LaunchBrowser, CheckFlags, Poll, TakeMessage, CloseProject, Complete, EndJob, StopRun, Throw,
     ThrowUnrecorded, WaitTimeout, FailRun, Crash
<1>11. ASSUME NEW r \in Request, User(r) \/ Handle(r) \/ HandlerDies(r) PROVE \A q \in Request : RequestOk(q)'
  <2>1. ASSUME NEW e \in Exec, BeginApprove(r, e) \/ BeginContinue(r, e) \/ BeginCancel(r, e) PROVE \A q \in Request : RequestOk(q)'
    <3>1. \A q \in Request : q # r => rpc'[q] = rpc[q] /\ rop'[q] = rop[q] /\ rexec'[q] = rexec[q] /\ rgate'[q] = rgate[q]
      BY <2>1 DEF BeginApprove, BeginContinue, BeginCancel, Begin, TypeOK, RequestType
    <3>2. /\ rpc'[r] # "idle" /\ rexec'[r] = e
          /\ rop'[r] = "approve" => rgate'[r] \in ApprovalGates
          /\ rpc'[r] = "grant" => rop'[r] = "approve"
      BY <2>1 DEF BeginApprove, BeginContinue, BeginCancel, Begin, TypeOK, RequestType
    <3> QED BY <1>1, <3>1, <3>2, ConstantsAssumption DEF RequestOk
  <2>2. ASSUME NEW pc, rpc[r] # "idle", HandlerStep(r, pc), pc \notin {"idle", "grant"}
        PROVE  \A q \in Request : RequestOk(q)'
    BY <1>1, <2>2 DEF HandlerStep, RequestOk, TypeOK, RequestType
  <2>3. ASSUME EndHandler(r) PROVE \A q \in Request : RequestOk(q)'
    BY <1>1, <2>3 DEF EndHandler, RequestOk, TypeOK, RequestType
  <2> QED BY <1>11, <2>1, <2>2, <2>3 DEF User, Handle, Grant, Mark, Signal, SignalByJob, SignalByFlag, Publish, HandlerDies
<1>12. ASSUME NEW r \in Request, Publish(r) PROVE \A v \in Worker : SlotOk(v)'
  BY <1>1, <1>12 DEF Publish, SlotOk, Ending, TypeOK, SlotType
<1>13. ASSUME NEW r \in Request, User(r) \/ Handle(r) \/ HandlerDies(r) PROVE Publish(r) \/ UNCHANGED slots
  BY <1>13 DEF User, BeginApprove, BeginContinue, BeginCancel, Begin, Handle, Grant, Mark, Signal,
     SignalByJob, SignalByFlag, HandlerDies
<1>14. ASSUME NEW e \in Exec, FlagExpires(e) \/ EditCases(e) PROVE UNCHANGED <<slots, requests>>
  BY <1>14 DEF FlagExpires, EditCases
<1> QED
  BY <1>2, <1>3, <1>4, <1>8, <1>9, <1>10, <1>11, <1>12, <1>13, <1>14 DEF Next, vars

(* In a timely environment a Continue is for the login. *)
LEMMA PlacesStep ==
  ASSUME Timely, TypeOK, SlotPlace, Places, [Next]_vars
  PROVE  Places'
<1> DEFINE ForLogin(r) == rpc[r] # "idle" /\ rop[r] = "continue" => rgate[r] = Login
<1>1. Placed'
  BY PlacedStep DEF Places
<1>2. \A r \in Request : ForLogin(r)
  BY DEF Places
<1>3. ASSUME UNCHANGED requests PROVE \A r \in Request : ForLogin(r)'
  BY <1>2, <1>3 DEF requests
<1>4. ASSUME NEW w \in Worker, SlotStep(w) PROVE UNCHANGED requests
  BY <1>4 DEF SlotStep, ClaimAny, Claim, ReadRow, StartRun, OpenContext, LoadGates, GroundCases, EnterStage, ShowStage, RunAgent,
     WriteCases, Ask, Release, LaunchBrowser, CheckFlags, Poll, TakeMessage, CloseProject, Complete, EndJob, StopRun, FailRun
<1>5. ASSUME NEW r \in Request, RequestStep(r) PROVE \A q \in Request : ForLogin(q)'
  <2>1. ASSUME NEW e \in Exec, Come(r, e) PROVE \A q \in Request : ForLogin(q)'
    BY <1>2, <2>1 DEF Come, BeginApprove, BeginCancel, Begin, TypeOK, RequestType
  <2>2. ASSUME NEW pc, rpc[r] # "idle", HandlerStep(r, pc) PROVE \A q \in Request : ForLogin(q)'
    BY <1>2, <2>2 DEF HandlerStep, TypeOK, RequestType
  <2>3. ASSUME EndHandler(r) PROVE \A q \in Request : ForLogin(q)'
    BY <1>2, <2>3 DEF EndHandler, TypeOK, RequestType
  <2>4. CASE Handle(r)
    BY <2>2, <2>3, <2>4 DEF Handle, Grant, Mark, Signal, SignalByJob, SignalByFlag, Publish
  <2> QED BY <1>5, <2>1, <2>4 DEF RequestStep
<1>6. \A r \in Request : ForLogin(r)'
  BY <1>3, <1>4, <1>5, TimelySteps DEF vars, EditCases
<1> QED BY <1>1, <1>6 DEF Places

-----------------------------------------------------------------------------
(* Runs that a step does not touch *)

\* Nothing that RunInv says of a run changes, but for approvals of other runs.
Still(e) ==
  /\ status'[e] = status[e] /\ gate'[e] = gate[e]
  /\ contFlag'[e] = contFlag[e] /\ queued'[e] = queued[e]
  /\ answered'[e] = answered[e] /\ approved \subseteq approved'
  /\ \A w \in Worker : Driving(w, e) \/ wexec'[w] = e =>
       wexec'[w] = wexec[w] /\ wpc'[w] = wpc[w] /\ wgate'[w] = wgate[w]
  /\ \A r \in Request : rexec[r] = e \/ rexec'[r] = e =>
       rexec'[r] = rexec[r] /\ rpc'[r] = rpc[r] /\ rop'[r] = rop[r] /\ rgate'[r] = rgate[r]

(* A run that a step does not touch keeps its invariant. *)
LEMMA StillKeeps ==
  ASSUME NEW e \in Exec, RunInv(e), Still(e)
  PROVE  RunInv(e)'
<1>1. \A w \in Worker : Driving(w, e)' <=> Driving(w, e)
  BY DEF Still, Driving
<1>2. \A r \in Request : Answering(r, e)' <=> Answering(r, e)
  BY DEF Still, Answering
<1>3. (NoJob(e)' <=> NoJob(e)) /\ (NoSlot(e)' <=> NoSlot(e))
  BY <1>1 DEF Still, NoJob, NoSlot
<1>4. Alone(e)'
  BY <1>1, <1>3 DEF Still, RunInv, Alone
<1>5. Awaits(e)'
  BY <1>1, <1>3 DEF Still, RunInv, Awaits, Driving
<1>6. Answers(e)'
  <2> SUFFICES ASSUME NEW r \in Request, Answering(r, e)' PROVE (Asking(r, e) /\ Recording(r, e) /\ Calling(r, e))'
    BY DEF Answers
  <2>1. Asking(r, e) /\ Recording(r, e) /\ Calling(r, e)
    BY <1>2 DEF RunInv, Answers
  <2>2. rpc'[r] = rpc[r] /\ rop'[r] = rop[r] /\ rgate'[r] = rgate[r]
    BY DEF Still, Answering
  <2>3. Asking(r, e)'
    BY <1>1, <1>3, <2>1, <2>2 DEF Asking, Still, Driving
  <2>4. Recording(r, e)' /\ Calling(r, e)'
    BY <1>1, <2>1, <2>2 DEF Recording, Calling, Still, Driving
  <2> QED BY <2>3, <2>4
<1>7. Flagged(e)'
  BY <1>1, <1>3 DEF Still, RunInv, Flagged, Driving
<1>8. Passed(e)' /\ Recorded(e)'
  BY DEF Still, RunInv, Passed, Recorded
<1>9. Over(e)'
  BY <1>1, <1>3 DEF Still, RunInv, Over
<1> QED BY <1>4, <1>5, <1>6, <1>7, <1>8, <1>9 DEF RunInv

(* A step of a slot leaves the other runs alone. *)
LEMMA SlotStill ==
  ASSUME TypeOK, NEW w \in Worker, SlotStep(w), NEW e \in Exec, wexec[w] # e, wexec'[w] # e
  PROVE  Still(e)
<1>1. ASSUME NEW d \in Exec, NEW a \in Attempts, Claim(w, d, a) PROVE Still(e)
  BY <1>1 DEF Claim, Step, Still, Driving, TypeOK, SlotType, QueueType, row, project, flags, requests
<1>2. ASSUME FreeSlot(w)
      PROVE  \A v \in Worker : wexec[v] = e \/ wexec'[v] = e =>
               wexec'[v] = wexec[v] /\ wpc'[v] = wpc[v] /\ wgate'[v] = wgate[v]
  BY <1>2 DEF FreeSlot, TypeOK, SlotType
<1>3. ASSUME NEW pc, Step(w, pc), UNCHANGED wexec, \A v \in Worker : v # w => wgate'[v] = wgate[v]
      PROVE  \A v \in Worker : wexec[v] = e \/ wexec'[v] = e =>
               wexec'[v] = wexec[v] /\ wpc'[v] = wpc[v] /\ wgate'[v] = wgate[v]
  BY <1>3 DEF Step, TypeOK, SlotType
<1>4. ASSUME NEW s, SetStatus(wexec[w], s) PROVE status'[e] = status[e] /\ gate'[e] = gate[e]
  BY <1>4 DEF SetStatus, TypeOK, RowType
<1>5. ASSUME NEW g, SetAwaiting(wexec[w], g) PROVE status'[e] = status[e] /\ gate'[e] = gate[e]
  BY <1>5 DEF SetAwaiting, TypeOK, RowType
<1>6. ASSUME Retry(w) PROVE queued'[e] = queued[e]
  BY <1>6 DEF Retry, Enqueue, TypeOK, QueueType
<1>7. ASSUME PassGate(w), UNCHANGED wexec
      PROVE  \A v \in Worker : wexec[v] = e \/ wexec'[v] = e =>
               wexec'[v] = wexec[v] /\ wpc'[v] = wpc[v] /\ wgate'[v] = wgate[v]
  BY <1>7 DEF PassGate, Step, TypeOK, SlotType
<1>8. CASE ReadRow(w)
  BY <1>2, <1>3, <1>8 DEF ReadRow, Still, Driving, row, project, flags, requests
<1>9. CASE StartRun(w)
  BY <1>3, <1>4, <1>9 DEF StartRun, Still, Driving, project, flags, requests
<1>10. CASE OpenContext(w)
  BY <1>3, <1>10 DEF OpenContext, Still, Driving, row, project, flags, requests
<1>11. CASE LoadGates(w)
  <2>1. \A v \in Worker : wexec[v] = e \/ wexec'[v] = e =>
               wexec'[v] = wexec[v] /\ wpc'[v] = wpc[v] /\ wgate'[v] = wgate[v]
    BY <1>11 DEF LoadGates, Step, TypeOK, SlotType
  <2> QED BY <1>11, <2>1 DEF LoadGates, Still, Driving, row, project, flags, requests
<1>12. CASE EnterStage(w)
  <2>1. status'[e] = status[e] /\ gate'[e] = gate[e]
    BY <1>4, <1>12 DEF EnterStage, row
  <2> QED BY <1>3, <1>12, <2>1 DEF EnterStage, Still, Driving, project, flags, requests
<1>24. CASE GroundCases(w) \/ ShowStage(w) \/ CloseProject(w)
  BY <1>3, <1>24 DEF GroundCases, ShowStage, CloseProject, Still, Driving, row, project, flags, requests
<1>13. CASE RunAgent(w)
  BY <1>4, <1>13 DEF RunAgent, Still, Driving, project, flags, slots, requests
<1>14. CASE WriteCases(w)
  BY <1>3, <1>14 DEF WriteCases, Still, Driving, row, project, flags, requests
<1>15. CASE Ask(w)
  <2>1. answered'[e] = answered[e]
    BY <1>15 DEF Ask, TypeOK, ProjectType
  <2>2. status'[e] = status[e] /\ gate'[e] = gate[e]
    BY <1>5, <1>15 DEF Ask
  <2>3. \A v \in Worker : wexec[v] = e \/ wexec'[v] = e =>
               wexec'[v] = wexec[v] /\ wpc'[v] = wpc[v] /\ wgate'[v] = wgate[v]
    BY <1>3, <1>15 DEF Ask
  <2> QED BY <1>15, <2>1, <2>2, <2>3 DEF Ask, Still, Driving, project, flags, requests
<1>16. CASE Release(w)
  BY <1>2, <1>16 DEF Release, Still, Driving, row, project, flags, requests
<1>17. CASE LaunchBrowser(w)
  BY <1>3, <1>5, <1>17 DEF LaunchBrowser, Still, Driving, project, flags, requests
<1>18. CASE CheckFlags(w)
  <2>1. contFlag'[e] = contFlag[e]
    BY <1>18 DEF CheckFlags, flags, TypeOK, FlagType
  <2> QED BY <1>3, <1>7, <1>18, <2>1 DEF CheckFlags, Still, Driving, row, project, requests
<1>19. CASE Poll(w)
  <2>1. contFlag'[e] = contFlag[e]
    BY <1>19 DEF Poll, TypeOK, FlagType
  <2> QED BY <1>3, <1>7, <1>19, <2>1 DEF Poll, Still, Driving, row, project, requests
<1>20. CASE TakeMessage(w)
  <2>1. contFlag'[e] = contFlag[e]
    BY <1>20 DEF TakeMessage, TypeOK, FlagType
  <2> QED BY <1>3, <1>7, <1>20, <2>1 DEF TakeMessage, Still, Driving, row, project, requests
<1>21. CASE Complete(w)
  BY <1>3, <1>4, <1>21 DEF Complete, Still, Driving, project, flags, requests
<1>25. CASE EndJob(w)
  BY <1>2, <1>25 DEF EndJob, Still, Driving, row, project, flags, requests
<1>22. CASE StopRun(w)
  BY <1>2, <1>4, <1>22 DEF StopRun, Still, Driving, project, flags, requests
<1>23. CASE FailRun(w)
  BY <1>2, <1>4, <1>6, <1>23 DEF FailRun, Still, Driving, project, flags, requests
<1> QED
  BY <1>1, <1>8, <1>9, <1>10, <1>11, <1>12, <1>13, <1>14, <1>15, <1>16, <1>17, <1>18, <1>19, <1>20, <1>21,
     <1>22, <1>23, <1>24, <1>25 DEF SlotStep, ClaimAny

(* So does a step of a request. *)
LEMMA RequestStill ==
  ASSUME TypeOK, NEW r \in Request, RequestStep(r), NEW e \in Exec, rexec[r] # e, rexec'[r] # e
  PROVE  Still(e)
<1>1. ASSUME NEW op, NEW d, NEW g, NEW pc, Begin(r, op, d, g, pc) PROVE Still(e)
  BY <1>1 DEF Begin, Still, Driving, TypeOK, RequestType, row, project, flags, slots
<1>2. ASSUME NEW pc, HandlerStep(r, pc) \/ EndHandler(r)
      PROVE  \A q \in Request : rexec[q] = e \/ rexec'[q] = e =>
               rexec'[q] = rexec[q] /\ rpc'[q] = rpc[q] /\ rop'[q] = rop[q] /\ rgate'[q] = rgate[q]
  BY <1>2 DEF HandlerStep, EndHandler, TypeOK, RequestType
<1>3. ASSUME NEW s, SetStatus(rexec[r], s) PROVE status'[e] = status[e] /\ gate'[e] = gate[e]
  BY <1>3 DEF SetStatus, TypeOK, RowType
<1>4. CASE Grant(r)
  <2>1. answered'[e] = answered[e]
    BY <1>4 DEF Grant, TypeOK, ProjectType
  <2> QED BY <1>2, <1>4, <2>1 DEF Grant, Still, Driving, row, flags, slots
<1>5. CASE Mark(r)
  <2>1. answered'[e] = answered[e]
    BY <1>5 DEF Mark, TypeOK, ProjectType
  <2>2. status'[e] = status[e] /\ gate'[e] = gate[e]
    BY <1>3, <1>5 DEF Mark
  <2> QED BY <1>2, <1>5, <2>1, <2>2 DEF Mark, Still, Driving, project, flags, slots
<1>6. CASE Signal(r)
  <2>1. contFlag'[e] = contFlag[e] /\ queued'[e] = queued[e]
    BY <1>6 DEF Signal, SignalByJob, SignalByFlag, Enqueue, flags, TypeOK, FlagType, QueueType
  <2> QED BY <1>2, <1>6, <2>1 DEF Signal, SignalByJob, SignalByFlag, Still, Driving, row, project, slots
<1>7. CASE Publish(r)
  <2>1. \A v \in Worker : wexec[v] = e \/ wexec'[v] = e =>
               wexec'[v] = wexec[v] /\ wpc'[v] = wpc[v] /\ wgate'[v] = wgate[v]
    BY <1>7 DEF Publish, TypeOK, SlotType
  <2> QED BY <1>2, <1>7, <2>1 DEF Publish, Still, Driving, row, project, flags
<1> QED BY <1>1, <1>4, <1>5, <1>6, <1>7 DEF RequestStep, Come, BeginApprove, BeginCancel, Handle

-----------------------------------------------------------------------------
(* Runs that nobody is asked about *)

Busy == AtWork \union {"launch"} \union Ending

\* No continue is on its way but the tail of one that was taken.
Unasked(e) ==
  /\ ~contFlag[e]
  /\ \A r \in Request : Answering(r, e) =>
       rpc[r] = "publish" /\ rgate[r] \notin Released /\ rgate[r] \in answered[e]

(* A slot that is busy has its run for itself. *)
LEMMA BusyRun ==
  ASSUME TypeOK, Places, NEW e \in Exec, RunInv(e), NEW w \in Worker, Driving(w, e), wpc[w] \in Busy
  PROVE  /\ Unasked(e) /\ NoJob(e) /\ (wpc[w] # "ended" => status[e] # "COMPLETED")
         /\ \A v \in Worker : Driving(v, e) => v = w
         /\ wpc[w] # "launch" => status[e] # "AWAITING"
         /\ wpc[w] = "launch" => \A r \in Request : ~Answering(r, e)
<1>1. wpc[w] \notin Offered /\ wpc[w] \notin Waiting /\ wpc[w] # "cancelled"
  BY DEF Busy, AtWork, Ending, Offered, Waiting
<1>2. NoJob(e) /\ \A v \in Worker : Driving(v, e) => v = w
  BY DEF RunInv, Alone, NoSlot
<1>3. wpc[w] # "ended" => status[e] # "COMPLETED"
  BY DEF RunInv, Over
<1>4. wpc[w] # "launch" => status[e] # "AWAITING"
  BY <1>1 DEF RunInv, Awaits
<1>5. ~contFlag[e]
  BY <1>1 DEF RunInv, Flagged
<1>6. ASSUME NEW r \in Request, Answering(r, e)
      PROVE  /\ rpc[r] = "publish" /\ rgate[r] \notin Released /\ rgate[r] \in answered[e]
             /\ wpc[w] # "launch"
  <2>1. Asking(r, e) /\ Recording(r, e) /\ Calling(r, e)
    BY <1>6 DEF RunInv, Answers
  <2>2. rpc[r] # "idle"
    BY <1>6, ConstantsAssumption DEF Answering, Places, Placed
  <2>3. rpc[r] \notin {"grant", "mark", "signal"}
    BY <1>1, <2>1 DEF Asking
  <2>4. rpc[r] = "publish"
    BY <2>2, <2>3 DEF TypeOK, RequestType, RequestPcs
  <2> QED BY <2>1, <2>4 DEF Recording, Calling
<1> QED BY <1>2, <1>3, <1>4, <1>5, <1>6 DEF Unasked

(* So has a job that waits. *)
LEMMA JobRun ==
  ASSUME TypeOK, Places, NEW e \in Exec, RunInv(e), ~NoJob(e)
  PROVE  Unasked(e) /\ NoSlot(e) /\ status[e] \notin {"AWAITING", "COMPLETED"}
<1>1. NoSlot(e) /\ status[e] \notin {"AWAITING", "COMPLETED"} /\ ~contFlag[e]
  BY DEF RunInv, Alone, Awaits, Over, Flagged
<1>2. ASSUME NEW r \in Request, Answering(r, e)
      PROVE  rpc[r] = "publish" /\ rgate[r] \notin Released /\ rgate[r] \in answered[e]
  <2>1. Asking(r, e) /\ Recording(r, e) /\ Calling(r, e)
    BY <1>2 DEF RunInv, Answers
  <2>2. rpc[r] # "idle"
    BY <1>2, ConstantsAssumption DEF Answering, Places, Placed
  <2>3. rpc[r] = "publish"
    BY <2>1, <2>2 DEF Asking, TypeOK, RequestType, RequestPcs
  <2> QED BY <2>1, <2>3 DEF Recording, Calling
<1> QED BY <1>1, <1>2 DEF Unasked

(* A step to a state where nobody is asked about the run keeps its invariant. *)
LEMMA QuietRun ==
  ASSUME NEW e \in Exec, Alone(e)', Passed(e)', Recorded(e)', Over(e)', Unasked(e)',
         status'[e] # "AWAITING", \A w \in Worker : Driving(w, e)' => wpc'[w] \in AtWork \union Ending
  PROVE  RunInv(e)'
<1>1. Awaits(e)' /\ Flagged(e)'
  BY DEF Awaits, Flagged, Unasked
<1>2. ASSUME NEW r \in Request, Answering(r, e)' PROVE (Asking(r, e) /\ Recording(r, e) /\ Calling(r, e))'
  <2>1. rpc'[r] = "publish" /\ rgate'[r] \notin Released /\ rgate'[r] \in answered'[e]
    BY <1>2 DEF Unasked
  <2>2. Asking(r, e)' /\ Recording(r, e)'
    BY <2>1 DEF Asking, Recording
  <2>3. Calling(r, e)'
    BY <2>1 DEF Calling, AtWork, Ending, Waiting
  <2> QED BY <2>2, <2>3
<1> QED BY <1>1, <1>2 DEF RunInv, Answers

(* A run stays alone where no slot, job or request comes to it. *)
LEMMA AloneSame ==
  ASSUME NEW e \in Exec, Alone(e), queued'[e] = queued[e],
         \A w \in Worker : Driving(w, e)' => Driving(w, e),
         \A r \in Request : rexec'[r] = e => rexec[r] = e
  PROVE  Alone(e)'
BY DEF Alone, NoSlot, NoJob

(* No continue comes where requests, flag and answers stay. *)
LEMMA UnaskedSame ==
  ASSUME NEW e \in Exec, Unasked(e), contFlag'[e] = contFlag[e], answered'[e] = answered[e], UNCHANGED requests
  PROVE  Unasked(e)'
BY DEF Unasked, Answering, requests

(* What is on record stays so. *)
LEMMA RecordedSame ==
  ASSUME NEW e \in Exec, Recorded(e), answered'[e] \subseteq answered[e], approved \subseteq approved'
  PROVE  Recorded(e)'
BY DEF Recorded

-----------------------------------------------------------------------------
(* Steps of the slot that drives a run *)

(* A slot that goes on with its stage. *)
LEMMA GoOn ==
  ASSUME IInv, Places, NEW e \in Exec, RunInv(e), NEW w \in Worker, Driving(w, e),
         wpc[w] \in AtWork, NEW pc \in AtWork, Step(w, pc),
         UNCHANGED <<wexec, contFlag, queued, answered, approved, requests>>,
         status'[e] \notin {"AWAITING", "COMPLETED"},
         \A v \in Worker : wgate'[v] = wgate[v] \/ (v = w /\ wgate[w] \in Released /\ wgate'[w] = wgate[w] + 1)
  PROVE  RunInv(e)'
<1>1. Unasked(e) /\ \A v \in Worker : Driving(v, e) => v = w
  BY BusyRun DEF IInv, Busy
<1>2. pc # "release" /\ pc \notin Ending /\ pc # "woken" /\ wpc[w] # "release"
  BY DEF AtWork, Ending
<1>3. wpc'[w] = pc /\ \A v \in Worker : v # w => wpc'[v] = wpc[v]
  BY DEF Step, IInv, TypeOK, SlotType
<1>4. \A v \in Worker : Driving(v, e)' => Driving(v, e)
  BY <1>3 DEF Driving
<1>5. Alone(e)'
  BY <1>4, AloneSame DEF RunInv, requests
<1>6. Unasked(e)' /\ Recorded(e)' /\ Over(e)'
  BY <1>1, UnaskedSame, RecordedSame DEF RunInv, Over
<1>7. Passed(e)'
  <2> SUFFICES ASSUME NEW v \in Worker, wexec[v] = e
               PROVE  /\ \A g \in Held : g < wgate'[v] => g \in answered[e]
                      /\ wpc'[v] \in Ending => LastGate \in answered[e]
                      /\ wpc'[v] = "woken" => wgate'[v] \in answered[e]
    BY DEF Passed
  <2>1. CASE wgate'[v] = wgate[v]
    BY <1>2, <1>3, <2>1 DEF RunInv, Passed
  <2>2. CASE v = w /\ wgate[w] \in Released /\ wgate'[w] = wgate[w] + 1
    <3>1. \A g \in Held : ~(g < wgate[w] + 1)
      BY <2>2, ConstantsAssumption DEF Held, Login, Released
    <3> QED BY <1>2, <1>3, <2>2, <3>1
  <2> QED BY <2>1, <2>2
<1> QED BY <1>1, <1>3, <1>4, <1>5, <1>6, <1>7, QuietRun DEF RunInv

(* A run whose slot is given back, with or without a job for it. *)
LEMMA GiveBack ==
  ASSUME IInv, Places, NEW e \in Exec, RunInv(e), NEW w \in Worker, Driving(w, e), wpc[w] \in Busy,
         FreeSlot(w), UNCHANGED <<contFlag, answered, approved, requests>>, status'[e] # "AWAITING",
         Retry(w) \/ UNCHANGED queued, Over(e)'
  PROVE  RunInv(e)'
<1>1. Unasked(e) /\ NoJob(e) /\ \A v \in Worker : Driving(v, e) => v = w
  BY BusyRun DEF IInv
<1>2. \A v \in Worker : v # w => wexec'[v] = wexec[v] /\ wpc'[v] = wpc[v] /\ wgate'[v] = wgate[v]
  BY DEF FreeSlot, IInv, TypeOK, SlotType
<1>3. wexec'[w] # e
  BY ConstantsAssumption DEF FreeSlot, IInv, TypeOK, SlotType
<1>4. \A v \in Worker : ~Driving(v, e)'
  BY <1>1, <1>2, <1>3 DEF Driving
<1>5. /\ \A a \in Attempts : queued'[e][a] \in {0, 1}
      /\ \A a, b \in Attempts : queued'[e][a] = 1 /\ queued'[e][b] = 1 => a = b
  <2>1. CASE UNCHANGED queued
    BY <1>1, <2>1 DEF NoJob
  <2>2. CASE Retry(w) /\ ~UNCHANGED queued
    <3>1. Enqueue(e, wtry[w] + 1)
      BY <2>2 DEF Retry, Driving
    <3>2. \A a \in Attempts : queued'[e][a] = IF a = wtry[w] + 1 THEN queued[e][a] + 1 ELSE queued[e][a]
      BY <3>1 DEF Enqueue, IInv, TypeOK, QueueType
    <3> QED BY <1>1, <3>2 DEF NoJob
  <2> QED BY <2>1, <2>2
<1>6. Alone(e)'
  <2>1. \A q, r \in Request : rexec[q] = e /\ rexec[r] = e => q = r
    BY DEF RunInv, Alone
  <2> QED BY <1>4, <1>5, <2>1 DEF Alone, NoSlot, requests
<1>7. Unasked(e)' /\ Recorded(e)'
  BY <1>1, UnaskedSame, RecordedSame DEF RunInv
<1>8. Passed(e)'
  BY <1>2, <1>3 DEF RunInv, Passed
<1> QED BY <1>4, <1>6, <1>7, <1>8, QuietRun

(* A slot that waits, and stays at its gate. *)
LEMMA StayAtGate ==
  ASSUME IInv, Places, NEW e \in Exec, RunInv(e), NEW w \in Worker, Driving(w, e),
         wpc[w] \in Waiting, NEW pc \in Offered, Step(w, pc), wpc[w] # "woken" \/ pc = "cancelled",
         UNCHANGED <<wexec, wgate, queued, answered, approved, requests, row>>,
         contFlag'[e] = contFlag[e] \/ contFlag'[e] = FALSE
  PROVE  RunInv(e)'
<1>1. pc \notin {"release", "woken", "launch"} /\ pc \notin Ending
  BY DEF Offered, Ending
<1>2. wpc'[w] = pc /\ \A v \in Worker : v # w => wpc'[v] = wpc[v]
  BY DEF Step, IInv, TypeOK, SlotType
<1>3. wpc[w] # "release"
  BY DEF Waiting
<1>4. \A v \in Worker : Driving(v, e)' <=> Driving(v, e)
  BY <1>1, <1>2, <1>3 DEF Driving
<1>5. NoJob(e)' <=> NoJob(e)
  BY DEF NoJob
<1>6. Alone(e)'
  BY <1>4, AloneSame DEF RunInv, requests
<1>7. Awaits(e)'
  BY <1>2, <1>4, <1>5 DEF RunInv, Awaits, row
<1>8. Answers(e)'
  <2> SUFFICES ASSUME NEW r \in Request, Answering(r, e)' PROVE (Asking(r, e) /\ Recording(r, e) /\ Calling(r, e))'
    BY DEF Answers
  <2>1. Asking(r, e) /\ Recording(r, e) /\ Calling(r, e)
    BY DEF RunInv, Answers, Answering, requests
  <2>2. Asking(r, e)' /\ Recording(r, e)'
    BY <1>2, <1>4, <1>5, <2>1 DEF Asking, Recording, requests, row
  <2>3. Calling(r, e)'
    <3>1. \A v \in Worker : v # w => wpc'[v] = wpc[v] /\ wgate'[v] = wgate[v]
      BY <1>2
    <3> QED BY <1>1, <1>2, <1>4, <2>1, <3>1 DEF Calling, requests, row
  <2> QED BY <2>2, <2>3
<1>9. Flagged(e)'
  <2>1. contFlag'[e] => contFlag[e]
    OBVIOUS
  <2>2. pc = "cancelled" \/ pc \in Waiting
    BY DEF Offered, Waiting
  <2>3. ASSUME contFlag[e], NEW v \in Worker, Driving(v, e)
        PROVE  wpc'[v] = "cancelled" \/ (wpc'[v] \in Waiting /\ wgate[v] \in answered[e])
    <3>1. wpc[v] = "cancelled" \/ (wpc[v] \in Waiting /\ wgate[v] \in answered[e])
      BY <2>3 DEF RunInv, Flagged
    <3>2. CASE v = w
      BY <1>2, <2>2, <3>1, <3>2 DEF Waiting
    <3>3. CASE v # w
      BY <1>2, <3>1, <3>3
    <3> QED BY <3>2, <3>3
  <2>4. contFlag[e] => NoJob(e)
    BY DEF RunInv, Flagged
  <2> QED BY <1>4, <1>5, <2>1, <2>3, <2>4 DEF Flagged
<1>10. Passed(e)'
  BY <1>1, <1>2 DEF RunInv, Passed
<1>11. Over(e)' /\ Recorded(e)'
  <2>1. status[e] # "COMPLETED"
    BY DEF RunInv, Over, Waiting
  <2> QED BY <2>1 DEF RunInv, Over, Recorded, row
<1> QED BY <1>6, <1>7, <1>8, <1>9, <1>10, <1>11 DEF RunInv

(* A slot that waits, and passes its gate: it was flagged, or woken. *)
LEMMA PassOn ==
  ASSUME IInv, Places, NEW e \in Exec, RunInv(e), NEW w \in Worker, Driving(w, e),
         wpc[w] \in Waiting, contFlag[e] \/ wpc[w] = "woken", PassGate(w),
         UNCHANGED <<wexec, queued, answered, approved, requests, row>>, contFlag'[e] = FALSE
  PROVE  RunInv(e)'
<1>1. wgate[w] \in answered[e]
  <2>1. CASE contFlag[e]
    BY <2>1 DEF RunInv, Flagged, Waiting
  <2>2. CASE wpc[w] = "woken"
    BY <2>2 DEF RunInv, Passed, Driving
  <2> QED BY <2>1, <2>2
<1>2. NoJob(e) /\ status[e] # "COMPLETED" /\ \A v \in Worker : Driving(v, e) => v = w
  BY DEF RunInv, Alone, NoSlot, Over, Waiting
<1>3. status[e] # "AWAITING"
  BY DEF RunInv, Awaits, Offered
<1>4. \A r \in Request : Answering(r, e) =>
        rpc[r] = "publish" /\ rgate[r] \notin Released /\ rgate[r] \in answered[e]
  <2> SUFFICES ASSUME NEW r \in Request, Answering(r, e)
               PROVE  rpc[r] = "publish" /\ rgate[r] \notin Released /\ rgate[r] \in answered[e]
    OBVIOUS
  <2>1. Asking(r, e) /\ Recording(r, e) /\ Calling(r, e)
    BY DEF RunInv, Answers
  <2>2. rpc[r] # "idle"
    BY ConstantsAssumption DEF Answering, Places, Placed
  <2>3. rpc[r] \notin {"grant", "mark", "signal"}
    BY <2>1 DEF Asking, Offered
  <2>4. rpc[r] = "publish"
    BY <2>2, <2>3 DEF IInv, TypeOK, RequestType, RequestPcs
  <2> QED BY <2>1, <2>4 DEF Recording, Calling
<1>5. /\ wpc'[w] = IF wgate[w] = LastGate THEN "closing" ELSE "work"
      /\ wgate'[w] = IF wgate[w] = LastGate THEN wgate[w] ELSE wgate[w] + 1
      /\ \A v \in Worker : v # w => wpc'[v] = wpc[v] /\ wgate'[v] = wgate[v]
  BY DEF PassGate, Step, IInv, TypeOK, SlotType
<1>6. \A v \in Worker : Driving(v, e)' => v = w /\ Driving(v, e)
  BY <1>2, <1>5 DEF Driving
<1>7. Alone(e)'
  BY <1>6, AloneSame DEF RunInv, requests
<1>8. Unasked(e)'
  BY <1>4 DEF Unasked, Answering, requests
<1>9. Recorded(e)' /\ Over(e)'
  BY <1>2, RecordedSame DEF RunInv, Over, row
<1>10. Passed(e)'
  <2> SUFFICES ASSUME NEW v \in Worker, wexec[v] = e
               PROVE  /\ \A g \in Held : g < wgate'[v] => g \in answered[e]
                      /\ wpc'[v] \in Ending => LastGate \in answered[e]
                      /\ wpc'[v] = "woken" => wgate'[v] \in answered[e]
    BY DEF Passed
  <2>1. CASE v # w
    BY <1>5, <2>1 DEF RunInv, Passed
  <2>2. CASE v = w
    <3>1. \A g \in Held : g < wgate[w] => g \in answered[e]
      BY <2>2 DEF RunInv, Passed
    <3>2. \A g \in Held : g < wgate[w] + 1 => g < wgate[w] \/ g = wgate[w]
      BY ConstantsAssumption DEF Held, Login, IInv, TypeOK, SlotType, Gates
    <3> QED BY <1>1, <1>5, <2>2, <3>1, <3>2 DEF Ending
  <2> QED BY <2>1, <2>2
<1> QED BY <1>3, <1>5, <1>6, <1>7, <1>8, <1>9, <1>10, QuietRun DEF row, AtWork, Ending

-----------------------------------------------------------------------------
(* Each step of a slot keeps the invariant of its run *)

(* A claimed job starts at the first gate. *)
LEMMA ClaimRun ==
  ASSUME IInv, Places, NEW e \in Exec, RunInv(e), NEW w \in Worker, NEW a \in Attempts, Claim(w, e, a)
  PROVE  RunInv(e)'
<1>1. ~NoJob(e)
  BY DEF Claim, NoJob
<1>2. Unasked(e) /\ NoSlot(e) /\ status[e] \notin {"AWAITING", "COMPLETED"}
  BY <1>1, JobRun DEF IInv
<1>3. \A b \in Attempts : queued'[e][b] = IF b = a THEN queued[e][b] - 1 ELSE queued[e][b]
  BY DEF Claim, IInv, TypeOK, QueueType
<1>4. NoJob(e)'
  BY <1>3 DEF Claim, RunInv, Alone, NoJob
<1>5. /\ wexec'[w] = e /\ wpc'[w] = "row" /\ wgate'[w] = 1
      /\ \A v \in Worker : v # w => wexec'[v] = wexec[v] /\ wpc'[v] = wpc[v] /\ wgate'[v] = wgate[v]
  BY DEF Claim, Step, IInv, TypeOK, SlotType, SlotPlace, Early
<1>6. \A v \in Worker : Driving(v, e)' => v = w
  BY <1>2, <1>5 DEF NoSlot, Driving
<1>7. Alone(e)'
  <2>1. \A q, r \in Request : rexec[q] = e /\ rexec[r] = e => q = r
    BY DEF RunInv, Alone
  <2>2. UNCHANGED requests
    BY DEF Claim
  <2> QED BY <1>4, <1>6, <2>1, <2>2 DEF Alone, NoJob, requests
<1>8. Unasked(e)' /\ Recorded(e)' /\ Over(e)'
  BY <1>2, UnaskedSame, RecordedSame DEF Claim, RunInv, Over, flags, project, row
<1>9. Passed(e)'
  <2>1. \A g \in Held : ~(g < 1)
    BY ConstantsAssumption DEF Held, Login
  <2> QED BY <1>5, <2>1 DEF Claim, RunInv, Passed, Ending
<1> QED BY <1>2, <1>5, <1>6, <1>7, <1>8, <1>9, QuietRun DEF Claim, row, AtWork

(* The steps up to the end of a stage. *)
LEMMA StageRun ==
  ASSUME IInv, Places, NEW e \in Exec, RunInv(e), NEW w \in Worker, Driving(w, e),
         \/ ReadRow(w) \/ StartRun(w) \/ OpenContext(w) \/ LoadGates(w) \/ GroundCases(w)
         \/ EnterStage(w) \/ ShowStage(w) \/ RunAgent(w) \/ WriteCases(w)
  PROVE  RunInv(e)'
<1>1. wexec[w] = e /\ wpc[w] \in AtWork /\ wpc[w] \in Busy /\ wpc[w] # "launch" /\ wpc[w] # "ended"
  BY DEF Driving, ReadRow, StartRun, OpenContext, LoadGates, GroundCases, EnterStage, ShowStage, RunAgent, WriteCases, AtWork, Busy
<1>2. status[e] \notin {"AWAITING", "COMPLETED"}
  BY <1>1, BusyRun DEF IInv
<1>3. UNCHANGED <<contFlag, queued, answered, approved, requests>>
  BY DEF ReadRow, StartRun, OpenContext, LoadGates, GroundCases, EnterStage, ShowStage, RunAgent, WriteCases, project, flags, requests
<1>4. ASSUME SetStatus(e, "RUNNING") \/ UNCHANGED row PROVE status'[e] \notin {"AWAITING", "COMPLETED"}
  BY <1>2, <1>4 DEF SetStatus, row, IInv, TypeOK, RowType
<1>5. ASSUME NEW pc \in AtWork, Step(w, pc), UNCHANGED <<wexec, wgate>>, SetStatus(e, "RUNNING") \/ UNCHANGED row
      PROVE  RunInv(e)'
  BY <1>1, <1>3, <1>4, <1>5, GoOn
<1>6. CASE ReadRow(w)
  <2>1. CASE FreeSlot(w)
    <3>1. UNCHANGED <<row, queued>>
      BY <1>6 DEF ReadRow
    <3>2. status'[e] # "AWAITING" /\ Over(e)'
      BY <1>2, <3>1 DEF row, Over
    <3> QED BY <1>1, <1>3, <2>1, <3>1, <3>2, GiveBack
  <2>2. CASE Step(w, "init") /\ UNCHANGED <<wexec, wgate, wtry>>
    BY <1>5, <1>6, <2>2 DEF ReadRow, AtWork
  <2> QED BY <1>6, <2>1, <2>2 DEF ReadRow
<1>7. CASE StartRun(w)
  BY <1>1, <1>5, <1>7 DEF StartRun, AtWork
<1>8. CASE OpenContext(w)
  BY <1>5, <1>8 DEF OpenContext, AtWork
<1>9. CASE LoadGates(w)
  <2>1. wgate[w] \in Released
    BY <1>9 DEF LoadGates, IInv, SlotPlace
  <2>2. PICK pc \in AtWork : Step(w, pc)
    BY <1>9 DEF LoadGates, AtWork
  <2>3. \A v \in Worker : wgate'[v] = wgate[v] \/ (v = w /\ wgate'[w] = wgate[w] + 1)
    BY <1>9 DEF LoadGates, IInv, TypeOK, SlotType
  <2>4. UNCHANGED <<wexec, row>>
    BY <1>9 DEF LoadGates
  <2>5. status'[e] \notin {"AWAITING", "COMPLETED"}
    BY <1>4, <2>4
  <2> QED BY <1>1, <1>3, <2>1, <2>2, <2>3, <2>4, <2>5, GoOn
<1>10. CASE EnterStage(w)
  <2>1. PICK pc \in AtWork : Step(w, pc)
    BY <1>10 DEF EnterStage, AtWork
  <2> QED BY <1>1, <1>5, <1>10, <2>1 DEF EnterStage
<1>13. CASE GroundCases(w) \/ ShowStage(w)
  BY <1>5, <1>13 DEF GroundCases, ShowStage, AtWork
<1>11. CASE RunAgent(w)
  <2>1. Step(w, "busy")
    BY <1>11 DEF RunAgent, Step, slots, IInv, TypeOK, SlotType
  <2> QED BY <1>1, <1>5, <1>11, <2>1 DEF RunAgent, slots, AtWork
<1>12. CASE WriteCases(w)
  BY <1>5, <1>12 DEF WriteCases, AtWork
<1> QED BY <1>6, <1>7, <1>8, <1>9, <1>10, <1>11, <1>12, <1>13

(* A gate is asked when no answer to an earlier one is in flight. *)
LEMMA AskRun ==
  ASSUME Timely, IInv, Places, NEW e \in Exec, RunInv(e), NEW w \in Worker, Driving(w, e), Ask(w)
  PROVE  RunInv(e)'
<1>1. wexec[w] = e /\ wpc[w] \in Busy /\ wpc[w] # "launch" /\ wpc[w] # "ended"
  BY DEF Driving, Ask, StageDone, Busy, AtWork
<1>2. Unasked(e) /\ NoJob(e) /\ status[e] # "COMPLETED" /\ \A v \in Worker : Driving(v, e) => v = w
  BY <1>1, BusyRun DEF IInv
<1>3. \A r \in Request : rexec[r] # e
  BY <1>1, ConstantsAssumption DEF Ask, HandlersDone, Timely, Places, Placed
<1>4. status'[e] = "AWAITING" /\ gate'[e] = wgate[w]
  BY <1>1 DEF Ask, SetAwaiting, IInv, TypeOK, RowType
<1>5. answered'[e] = answered[e] \ {wgate[w]}
  BY <1>1 DEF Ask, IInv, TypeOK, ProjectType
<1>6. UNCHANGED <<approved, flags, queued, wexec, wgate, requests>>
  BY DEF Ask, project
<1>7. /\ wpc'[w] = IF wgate[w] \in Released THEN "release" ELSE IF wgate[w] = Login THEN "launch" ELSE "check"
      /\ \A v \in Worker : v # w => wpc'[v] = wpc[v]
  <2>1. Login \notin Released
    BY GateRanges
  <2> QED BY <2>1 DEF Ask, Step, IInv, TypeOK, SlotType
<1>8. \A v \in Worker : Driving(v, e)' => v = w /\ Driving(v, e)
  BY <1>2, <1>6, <1>7 DEF Driving
<1>9. wgate[w] \in Gates /\ (wgate[w] \notin Released => wgate[w] \in Held)
  BY GateRanges DEF IInv, TypeOK, SlotType
<1>10. Alone(e)'
  BY <1>6, <1>8, AloneSame DEF RunInv, requests
<1>11. Awaits(e)'
  <2>1. NoJob(e)' /\ ~contFlag'[e]
    BY <1>2, <1>6 DEF NoJob, Unasked, flags
  <2>2. \A v \in Worker : Driving(v, e)' => wgate[w] \in Held /\ v = w /\ wpc'[w] \in Offered \union {"launch"}
    BY <1>7, <1>8, <1>9 DEF Driving, Offered
  <2> QED BY <1>4, <1>6, <1>9, <2>1, <2>2 DEF Awaits
<1>12. Answers(e)' /\ Flagged(e)' /\ Over(e)'
  BY <1>2, <1>3, <1>4, <1>6 DEF Answers, Answering, Flagged, Over, Unasked, flags, requests
<1>13. Passed(e)'
  <2> SUFFICES ASSUME NEW v \in Worker, wexec[v] = e
               PROVE  /\ \A g \in Held : g < wgate[v] => g \in answered'[e]
                      /\ wpc'[v] \notin Ending /\ wpc'[v] # "woken"
    BY <1>6 DEF Passed
  <2>1. CASE v = w
    BY <1>5, <1>7, <1>9, <2>1 DEF RunInv, Passed, Gates, Ending
  <2>2. CASE v # w
    <3>1. wpc[v] = "release"
      BY <1>2, <2>2 DEF Driving
    <3>2. \A g \in Held : ~(g < wgate[v])
      BY <3>1, ConstantsAssumption DEF Places, Placed, Released, Held, Login
    <3> QED BY <1>7, <2>2, <3>1, <3>2 DEF Ending
  <2> QED BY <2>1, <2>2
<1>14. Recorded(e)'
  BY <1>5, <1>6, RecordedSame DEF RunInv
<1> QED BY <1>10, <1>11, <1>12, <1>13, <1>14 DEF RunInv

(* The browser is launched at the login gate, that nobody answered yet. *)
LEMMA LaunchRun ==
  ASSUME IInv, Places, NEW e \in Exec, RunInv(e), NEW w \in Worker, Driving(w, e), LaunchBrowser(w)
  PROVE  RunInv(e)'
<1>1. wexec[w] = e /\ wpc[w] = "launch" /\ wpc[w] \in Busy
  BY DEF Driving, LaunchBrowser, Busy
<1>2. /\ Unasked(e) /\ NoJob(e) /\ \A v \in Worker : Driving(v, e) => v = w
      /\ \A r \in Request : ~Answering(r, e)
  BY <1>1, BusyRun DEF IInv
<1>3. status'[e] = "AWAITING" /\ gate'[e] = Login
  BY <1>1 DEF LaunchBrowser, SetAwaiting, IInv, TypeOK, RowType
<1>4. UNCHANGED <<approved, answered, flags, queued, wexec, wgate, requests>>
  BY DEF LaunchBrowser, project
<1>5. wpc'[w] = "check" /\ \A v \in Worker : v # w => wpc'[v] = wpc[v]
  BY DEF LaunchBrowser, Step, IInv, TypeOK, SlotType
<1>6. \A v \in Worker : Driving(v, e)' => v = w /\ Driving(v, e)
  BY <1>1, <1>2, <1>4, <1>5 DEF Driving
<1>7. Alone(e)'
  BY <1>4, <1>6, AloneSame DEF RunInv, requests
<1>8. Awaits(e)'
  <2>1. NoJob(e)' /\ ~contFlag'[e]
    BY <1>2, <1>4 DEF NoJob, Unasked, flags
  <2>2. wgate[w] = Login
    BY <1>1 DEF Places, Placed
  <2> QED BY <1>3, <1>4, <1>5, <1>6, <2>1, <2>2, GateRanges DEF Awaits, Offered
<1>9. Answers(e)' /\ Flagged(e)' /\ Over(e)'
  BY <1>2, <1>3, <1>4 DEF Answers, Answering, Flagged, Over, Unasked, flags, requests
<1>10. Passed(e)' /\ Recorded(e)'
  BY <1>4, <1>5 DEF RunInv, Passed, Recorded, Ending
<1> QED BY <1>7, <1>8, <1>9, <1>10 DEF RunInv

(* The three ways a wait goes on or ends. *)
LEMMA WaitRun ==
  ASSUME IInv, Places, NEW e \in Exec, RunInv(e), NEW w \in Worker, Driving(w, e),
         CheckFlags(w) \/ Poll(w) \/ TakeMessage(w)
  PROVE  RunInv(e)'
<1>1. wexec[w] = e /\ wpc[w] \in Waiting
  BY DEF Driving, CheckFlags, Poll, TakeMessage, Waiting
<1>2. UNCHANGED <<wexec, queued, answered, approved, requests, row>>
  BY DEF CheckFlags, Poll, TakeMessage, project
<1>3. ASSUME contFlag' = [contFlag EXCEPT ![e] = FALSE] PROVE contFlag'[e] = FALSE
  BY <1>3 DEF IInv, TypeOK, FlagType
<1>4. ASSUME PassGate(w), contFlag[e] \/ wpc[w] = "woken", contFlag' = [contFlag EXCEPT ![e] = FALSE]
      PROVE  RunInv(e)'
  BY <1>1, <1>2, <1>3, <1>4, PassOn
<1>5. ASSUME NEW pc \in Offered, Step(w, pc), UNCHANGED wgate, wpc[w] # "woken" \/ pc = "cancelled",
             UNCHANGED contFlag \/ contFlag' = [contFlag EXCEPT ![e] = FALSE]
      PROVE  RunInv(e)'
  BY <1>1, <1>2, <1>3, <1>5, StayAtGate
<1>6. CASE CheckFlags(w)
  BY <1>1, <1>4, <1>5, <1>6 DEF CheckFlags, Offered, flags
<1>7. CASE Poll(w)
  BY <1>1, <1>4, <1>5, <1>7 DEF Poll, Offered
<1>8. CASE TakeMessage(w)
  BY <1>1, <1>4, <1>5, <1>8 DEF TakeMessage, Offered
<1> QED BY <1>6, <1>7, <1>8

(* The project is closed and the run completed when every gate of it was answered. *)
LEMMA CompleteRun ==
  ASSUME IInv, Places, NEW e \in Exec, RunInv(e), NEW w \in Worker, Driving(w, e), CloseProject(w) \/ Complete(w)
  PROVE  RunInv(e)'
<1>1. wexec[w] = e /\ wpc[w] \in Ending \ {"ended"} /\ wpc[w] \in Busy /\ wgate[w] = LastGate
  BY DEF Driving, CloseProject, Complete, Busy, Ending, Places, Placed
<1>2. /\ Unasked(e) /\ NoJob(e) /\ status[e] \notin {"AWAITING", "COMPLETED"}
      /\ \A v \in Worker : Driving(v, e) => v = w
  BY <1>1, BusyRun DEF IInv, Ending
<1>3. UNCHANGED <<contFlag, answered, approved, requests, queued, wexec, wgate>>
  BY DEF CloseProject, Complete, project, flags
<1>4. /\ wpc'[w] \in {"done", "ended"} /\ (status'[e] = "COMPLETED" => wpc'[w] = "ended")
      /\ status'[e] # "AWAITING" /\ \A v \in Worker : v # w => wpc'[v] = wpc[v]
  BY <1>1, <1>2 DEF CloseProject, Complete, Step, SetStatus, row, IInv, TypeOK, RowType, SlotType
<1>5. ApprovalGates \subseteq approved /\ LastGate \in answered[e]
  <2>1. LastGate \in answered[e] /\ \A g \in Held : g < LastGate => g \in answered[e]
    BY <1>1 DEF RunInv, Passed
  <2>2. \A g \in Held : g = LastGate \/ g < LastGate
    BY ConstantsAssumption DEF Held, Login
  <2>3. \A g \in ApprovalGates : g \in Held => g \in approved
    BY <2>1, <2>2 DEF RunInv, Recorded
  <2>4. \A g \in Released : g \in approved
    <3>1. Cleared(LastGate)
      BY <1>1 DEF IInv, GateOrder
    <3>2. \A g \in Released : g < LastGate
      BY ConstantsAssumption DEF Released
    <3> QED BY <3>1, <3>2 DEF Cleared
  <2> QED BY <2>1, <2>3, <2>4, GateRanges
<1>6. \A v \in Worker : Driving(v, e)' => v = w /\ Driving(v, e)
  BY <1>1, <1>2, <1>3, <1>4 DEF Driving, Ending
<1>7. Over(e)'
  BY <1>2, <1>3, <1>4, <1>5, <1>6 DEF Over, NoJob
<1>8. Passed(e)' /\ Recorded(e)'
  BY <1>3, <1>4, <1>5 DEF RunInv, Passed, Recorded
<1>9. Alone(e)' /\ Unasked(e)'
  BY <1>2, <1>3, <1>6, AloneSame, UnaskedSame DEF RunInv, requests
<1>10. \A v \in Worker : Driving(v, e)' => wpc'[v] \in AtWork \union Ending
  BY <1>4, <1>6 DEF Ending
<1> QED BY <1>4, <1>7, <1>8, <1>9, <1>10, QuietRun

(* The job that completed a run gives its slot back. *)
LEMMA EndRun ==
  ASSUME IInv, Places, NEW e \in Exec, RunInv(e), NEW w \in Worker, Driving(w, e), EndJob(w)
  PROVE  RunInv(e)'
<1>1. wpc[w] \in Busy /\ wpc[w] # "launch" /\ FreeSlot(w)
  BY DEF EndJob, Busy, Ending
<1>2. UNCHANGED <<row, contFlag, answered, approved, requests, queued>>
  BY DEF EndJob, project, flags
<1>3. status'[e] # "AWAITING"
  BY <1>1, <1>2, BusyRun DEF IInv, row
<1>4. wexec'[w] # e /\ \A v \in Worker : v # w => wexec'[v] = wexec[v] /\ wpc'[v] = wpc[v]
  BY <1>1, ConstantsAssumption DEF FreeSlot, IInv, TypeOK, SlotType
<1>5. Over(e)'
  BY <1>2, <1>4 DEF RunInv, Over, Driving, NoJob, row
<1> QED BY <1>1, <1>2, <1>3, <1>5, GiveBack

(* What throws is retried or left. *)
LEMMA FailsRun ==
  ASSUME IInv, Places, NEW e \in Exec, RunInv(e), NEW w \in Worker, Driving(w, e),
         wpc[w] \in Failing, FailRun(w)
  PROVE  RunInv(e)'
<1>1. wexec[w] = e /\ wpc[w] \in Busy
  BY DEF Driving, Busy, AtWork, Failing
<1>2. status'[e] = "FAILED"
  BY <1>1 DEF FailRun, SetStatus, IInv, TypeOK, RowType
<1>3. UNCHANGED <<contFlag, answered, approved, requests>> /\ FreeSlot(w) /\ Retry(w)
  BY DEF FailRun, flags, project, requests
<1> QED BY <1>1, <1>2, <1>3, GiveBack DEF Over

(* A run that was stopped has nobody on it. *)
LEMMA StopsRun ==
  ASSUME IInv, Places, NEW e \in Exec, RunInv(e), NEW w \in Worker, Driving(w, e), StopRun(w)
  PROVE  RunInv(e)'
<1>1. wexec[w] = e /\ FreeSlot(w)
  BY DEF Driving, StopRun
<1>2. NoJob(e) /\ \A v \in Worker : Driving(v, e) => v = w
  BY DEF RunInv, Alone, NoSlot
<1>3. status'[e] = "CANCELLED"
  BY <1>1 DEF StopRun, SetStatus, IInv, TypeOK, RowType
<1>4. UNCHANGED <<contFlag, answered, approved, requests, queued>>
  BY DEF StopRun, flags, requests, project
<1>5. \A v \in Worker : v # w => wexec'[v] = wexec[v] /\ wpc'[v] = wpc[v] /\ wgate'[v] = wgate[v]
  BY <1>1 DEF FreeSlot, IInv, TypeOK, SlotType
<1>6. wexec'[w] # e
  BY <1>1, ConstantsAssumption DEF FreeSlot, IInv, TypeOK, SlotType
<1>7. \A v \in Worker : ~Driving(v, e)'
  BY <1>2, <1>5, <1>6 DEF Driving
<1>8. Alone(e)'
  BY <1>4, <1>7, AloneSame DEF RunInv, requests
<1>9. NoJob(e)'
  BY <1>2, <1>4 DEF NoJob
<1>10. Answers(e)'
  <2> SUFFICES ASSUME NEW r \in Request, Answering(r, e)' PROVE (Asking(r, e) /\ Recording(r, e) /\ Calling(r, e))'
    BY DEF Answers
  <2>1. Asking(r, e) /\ Recording(r, e) /\ Calling(r, e)
    BY <1>4 DEF RunInv, Answers, Answering, requests
  <2> QED BY <1>3, <1>4, <1>7, <1>9, <2>1 DEF Asking, Recording, Calling, requests
<1>11. Awaits(e)' /\ Flagged(e)' /\ Over(e)' /\ Recorded(e)'
  BY <1>3, <1>4, <1>7, <1>9 DEF Awaits, Flagged, Over, Recorded, RunInv
<1>12. Passed(e)'
  BY <1>4, <1>5, <1>6 DEF RunInv, Passed
<1> QED BY <1>8, <1>10, <1>11, <1>12 DEF RunInv

(* A slot that is released was not driving any more. *)
LEMMA ReleaseStill ==
  ASSUME IInv, NEW e \in Exec, NEW w \in Worker, Release(w)
  PROVE  Still(e)
<1>1. \A v \in Worker : v # w => wexec'[v] = wexec[v] /\ wpc'[v] = wpc[v] /\ wgate'[v] = wgate[v]
  BY DEF Release, FreeSlot, IInv, TypeOK, SlotType
<1>2. wexec'[w] = NoExec
  BY DEF Release, FreeSlot, IInv, TypeOK, SlotType
<1>3. \A v \in Worker : Driving(v, e) \/ wexec'[v] = e => v # w
  BY <1>2, ConstantsAssumption DEF Release, Driving
<1> QED BY <1>1, <1>3 DEF Release, Still, row, project, flags, requests

(* Every step of a slot keeps the invariant of every run. *)
LEMMA SlotStepRun ==
  ASSUME Timely, IInv, Places, NEW w \in Worker, SlotStep(w), NEW e \in Exec, RunInv(e)
  PROVE  RunInv(e)'
<1>1. CASE wexec[w] # e /\ wexec'[w] # e
  BY <1>1, SlotStill, StillKeeps DEF IInv
<1>2. CASE Release(w)
  BY <1>2, ReleaseStill, StillKeeps
<1>3. ASSUME NEW d \in Exec, NEW a \in Attempts, Claim(w, d, a), wexec[w] = e \/ wexec'[w] = e PROVE RunInv(e)'
  <2>1. wexec[w] # e
    BY <1>3, ConstantsAssumption DEF Claim, Places, Placed
  <2>2. d = e
    BY <1>3, <2>1 DEF Claim, IInv, TypeOK, SlotType
  <2> QED BY <1>3, <2>2, ClaimRun
<1>4. ASSUME ~ClaimAny(w), ~Release(w), wexec[w] = e \/ wexec'[w] = e PROVE RunInv(e)'
  <2>1. wexec'[w] = wexec[w] \/ wexec'[w] = NoExec
    BY <1>4 DEF SlotStep, ReadRow, StartRun, OpenContext, LoadGates, GroundCases, EnterStage, ShowStage, RunAgent, WriteCases, Ask,
       LaunchBrowser, CheckFlags, Poll, TakeMessage, CloseProject, Complete, EndJob, StopRun, FailRun, FreeSlot, slots,
       IInv, TypeOK, SlotType
  <2>2. wexec[w] = e
    BY <1>4, <2>1, ConstantsAssumption
  <2>3. wpc[w] # "release"
    BY <1>4 DEF SlotStep, ReadRow, StartRun, OpenContext, LoadGates, GroundCases, EnterStage, ShowStage, RunAgent, WriteCases, Ask,
       StageDone, LaunchBrowser, CheckFlags, Poll, TakeMessage, CloseProject, Complete, EndJob, StopRun, Failing, Ending
  <2>4. Driving(w, e)
    BY <2>2, <2>3 DEF Driving
  <2> QED
    BY <1>4, <2>4, StageRun, AskRun, LaunchRun, WaitRun, CompleteRun, EndRun, FailsRun, StopsRun DEF SlotStep
<1>5. CASE ClaimAny(w)
  BY <1>1, <1>3, <1>5 DEF ClaimAny
<1> QED BY <1>1, <1>2, <1>4, <1>5

-----------------------------------------------------------------------------
(* Steps of the request that is on a run *)

(* A request finds the row awaiting a gate, and a slot at it if it is a held one. *)
LEMMA ComeRun ==
  ASSUME Timely, IInv, Places, NEW e \in Exec, RunInv(e), NEW r \in Request, Come(r, e)
  PROVE  RunInv(e)'
<1>1. PICK op, g, pc : /\ Begin(r, op, e, g, pc)
                       /\ \/ op = "approve" /\ pc = "grant" /\ g = gate[e] /\ g \in ApprovalGates /\ status[e] = "AWAITING"
                          \/ op = "continue" /\ pc = "mark" /\ g = gate[e] /\ status[e] = "AWAITING"
                             /\ g = Login /\ LoginOffered(e)
                          \/ op = "cancel"
  BY DEF Come, BeginApprove, BeginCancel
<1>2. rexec[r] = NoExec /\ \A q \in Request : rexec[q] # e
  BY DEF Come
<1>3. /\ rpc'[r] = pc /\ rop'[r] = op /\ rexec'[r] = e /\ rgate'[r] = g
      /\ \A q \in Request : q # r => rexec'[q] # e
  BY <1>1, <1>2 DEF Begin, IInv, TypeOK, RequestType
<1>4. UNCHANGED <<row, contFlag, queued, approved, answered, slots>>
  BY <1>1 DEF Begin, flags, project
<1>5. \A v \in Worker : Driving(v, e)' <=> Driving(v, e)
  BY <1>4 DEF Driving, slots
<1>6. NoJob(e)' <=> NoJob(e)
  BY <1>4 DEF NoJob
<1>7. Alone(e)'
  BY <1>3, <1>4, <1>5, <1>6 DEF RunInv, Alone, NoSlot
<1>8. Awaits(e)' /\ Flagged(e)' /\ Passed(e)' /\ Over(e)' /\ Recorded(e)'
  BY <1>4, <1>5, <1>6 DEF RunInv, Awaits, Flagged, Passed, Over, Recorded, row, slots
<1>9. Answers(e)'
  <2> SUFFICES ASSUME op # "cancel" PROVE (Asking(r, e) /\ Recording(r, e) /\ Calling(r, e))'
    BY <1>3 DEF Answers, Answering
  <2>1. status[e] = "AWAITING" /\ g = gate[e] /\ pc \in {"grant", "mark"} /\ (pc = "mark" => op = "continue")
    BY <1>1
  <2>2. ASSUME NEW v \in Worker, Driving(v, e) PROVE g \in Held /\ wgate[v] = g /\ wpc[v] \in Offered
    <3>1. g \in Held /\ wgate[v] = g /\ wpc[v] \in Offered \union {"launch"}
      BY <2>1, <2>2 DEF RunInv, Awaits
    <3>2. CASE g # Login
      BY <3>1, <3>2 DEF Places, Placed
    <3>3. CASE g = Login
      <4>1. op # "approve"
        BY <1>1, <3>3 DEF ApprovalGates
      <4>2. PICK u \in Worker : wexec[u] = e /\ wpc[u] \in {"check", "wait"}
        BY <1>1, <4>1 DEF LoginOffered, Timely
      <4>3. u = v
        BY <2>2, <4>2 DEF Driving, RunInv, Alone
      <4> QED BY <3>1, <4>2, <4>3
    <3> QED BY <3>2, <3>3
  <2>3. NoJob(e) /\ ~contFlag[e]
    BY <2>1 DEF RunInv, Awaits
  <2>4. Asking(r, e)'
    BY <1>3, <1>4, <1>5, <1>6, <2>1, <2>2, <2>3 DEF Asking, row, slots
  <2>5. Recording(r, e)' /\ Calling(r, e)'
    BY <1>3, <2>1, <1>1 DEF Recording, Calling
  <2> QED BY <2>4, <2>5
<1> QED BY <1>7, <1>8, <1>9 DEF RunInv

(* A request that is on a run is the only one. *)
LEMMA OnlyRequest ==
  ASSUME NEW e \in Exec, RunInv(e), NEW r \in Request, rexec[r] = e
  PROVE  \A q \in Request : rexec[q] = e => q = r
BY DEF RunInv, Alone

(* An approval is recorded. *)
LEMMA GrantRun ==
  ASSUME IInv, Places, NEW e \in Exec, RunInv(e), NEW r \in Request, rexec[r] = e, Grant(r)
  PROVE  RunInv(e)'
<1>1. rpc[r] = "grant" /\ rop[r] = "approve" /\ Answering(r, e)
  BY DEF Grant, Places, Placed, Answering
<1>2. Asking(r, e)
  BY <1>1 DEF RunInv, Answers
<1>3. rpc'[r] = "mark" /\ UNCHANGED <<rop, rexec, rgate>>
  BY DEF Grant, HandlerStep, IInv, TypeOK, RequestType
<1>4. answered'[e] = answered[e] \union {rgate[r]} /\ approved' = approved \union {rgate[r]}
  BY DEF Grant, IInv, TypeOK, ProjectType
<1>5. UNCHANGED <<row, flags, queued, slots>>
  BY DEF Grant
<1>6. \A v \in Worker : Driving(v, e)' <=> Driving(v, e)
  BY <1>5 DEF Driving, slots
<1>7. NoJob(e)' <=> NoJob(e)
  BY <1>5 DEF NoJob
<1>8. Alone(e)'
  BY <1>3, <1>5, <1>6, AloneSame DEF RunInv
<1>9. Awaits(e)'
  BY <1>5, <1>6, <1>7 DEF RunInv, Awaits, row, slots, flags
<1>10. Flagged(e)' /\ Passed(e)' /\ Over(e)' /\ Recorded(e)'
  BY <1>4, <1>5, <1>6, <1>7 DEF RunInv, Flagged, Passed, Over, Recorded, row, slots, flags
<1>11. Answers(e)'
  <2> SUFFICES (Asking(r, e) /\ Recording(r, e) /\ Calling(r, e))'
    BY <1>3, OnlyRequest DEF Answers, Answering
  <2>1. Asking(r, e)'
    BY <1>1, <1>2, <1>3, <1>5, <1>6, <1>7 DEF Asking, row, slots, flags
  <2> QED BY <1>3, <1>4, <2>1 DEF Recording, Calling
<1> QED BY <1>8, <1>9, <1>10, <1>11 DEF RunInv

(* The row is marked running, or cancelled. *)
LEMMA MarkRun ==
  ASSUME IInv, Places, NEW e \in Exec, RunInv(e), NEW r \in Request, rexec[r] = e, Mark(r)
  PROVE  RunInv(e)'
<1>1. rpc[r] = "mark" /\ rpc[r] # "idle" /\ rop[r] \in {"approve", "continue", "cancel"}
  BY DEF Mark, IInv, TypeOK, RequestType
<1>2. rpc'[r] = "signal" /\ UNCHANGED <<rop, rexec, rgate>>
  BY DEF Mark, HandlerStep, IInv, TypeOK, RequestType
<1>3. status'[e] = IF rop[r] = "cancel" THEN "CANCELLED" ELSE "RUNNING"
  BY DEF Mark, SetStatus, IInv, TypeOK, RowType
<1>4. UNCHANGED <<approved, flags, queued, slots>>
  BY DEF Mark, project
<1>5. answered'[e] = IF rop[r] = "continue" /\ rgate[r] = Login THEN answered[e] \union {Login} ELSE answered[e]
  BY DEF Mark, IInv, TypeOK, ProjectType
<1>6. \A v \in Worker : Driving(v, e)' <=> Driving(v, e)
  BY <1>4 DEF Driving, slots
<1>7. NoJob(e)' <=> NoJob(e)
  BY <1>4 DEF NoJob
<1>8. Alone(e)'
  BY <1>2, <1>4, <1>6, AloneSame DEF RunInv
<1>9. Awaits(e)' /\ Over(e)'
  BY <1>3 DEF Awaits, Over
<1>10. Flagged(e)' /\ Passed(e)' /\ Recorded(e)'
  BY <1>4, <1>5, <1>6, <1>7 DEF RunInv, Flagged, Passed, Recorded, ApprovalGates, slots, flags
<1>11. Answers(e)'
  <2> SUFFICES ASSUME Answering(r, e) PROVE (Asking(r, e) /\ Recording(r, e) /\ Calling(r, e))'
    BY <1>2, OnlyRequest DEF Answers, Answering
  <2>1. Asking(r, e) /\ Recording(r, e) /\ rop[r] # "cancel"
    BY DEF RunInv, Answers, Answering
  <2>2. Asking(r, e)'
    BY <1>1, <1>2, <1>3, <1>4, <1>6, <1>7, <2>1 DEF Asking, slots, flags
  <2>3. rgate[r] \in answered'[e]
    BY <1>1, <1>5, <2>1 DEF Recording, Places, Placed
  <2> QED BY <1>2, <2>2, <2>3 DEF Recording, Calling
<1> QED BY <1>8, <1>9, <1>10, <1>11 DEF RunInv

(* The answer goes out: as a job if the slot was released, else as a flag. *)
LEMMA SignalRun ==
  ASSUME IInv, Places, NEW e \in Exec, RunInv(e), NEW r \in Request, rexec[r] = e, Signal(r)
  PROVE  RunInv(e)'
<1>1. UNCHANGED <<row, approved, answered, slots>>
  BY DEF Signal, SignalByJob, SignalByFlag, project
<1>2. \A v \in Worker : Driving(v, e)' <=> Driving(v, e)
  BY <1>1 DEF Driving, slots
<1>3. rpc[r] = "signal" /\ \A q \in Request : rexec[q] = e => q = r
  BY OnlyRequest DEF Signal
<1>4. Passed(e)' /\ Recorded(e)'
  BY <1>1 DEF RunInv, Passed, Recorded, slots
<1>5. CASE rop[r] = "cancel"
  <2>1. UNCHANGED <<contFlag, queued, rexec, rop>>
    BY <1>5 DEF Signal, SignalByFlag, HandlerStep
  <2>2. NoJob(e)' <=> NoJob(e)
    BY <2>1 DEF NoJob
  <2>3. Alone(e)'
    BY <1>2, <2>1, AloneSame DEF RunInv
  <2>4. Answers(e)'
    BY <1>3, <1>5, <2>1 DEF Answers, Answering
  <2>5. Awaits(e)' /\ Flagged(e)' /\ Over(e)'
    BY <1>1, <1>2, <2>1, <2>2 DEF RunInv, Awaits, Flagged, Over, row, slots
  <2> QED BY <1>4, <2>3, <2>4, <2>5 DEF RunInv
<1>6. ASSUME rop[r] # "cancel"
      PROVE  /\ Asking(r, e) /\ rgate[r] \in answered[e] /\ NoJob(e) /\ ~contFlag[e]
             /\ status[e] \notin {"AWAITING", "COMPLETED"}
  BY <1>3, <1>6 DEF RunInv, Answers, Answering, Asking, Recording
<1>7. CASE rop[r] = "approve" /\ rgate[r] \in Released
  <2>1. NoSlot(e)
    BY <1>3, <1>6, <1>7, GateRanges DEF Asking, NoSlot
  <2>2. SignalByJob(r)
    BY <1>7 DEF Signal
  <2>3. \A a \in Attempts : queued'[e][a] = IF a = 1 THEN queued[e][a] + 1 ELSE queued[e][a]
    BY <2>2 DEF SignalByJob, Enqueue, IInv, TypeOK, QueueType
  <2>4. \A q \in Request : rexec'[q] # e
    BY <1>3, <2>2, ConstantsAssumption DEF SignalByJob, EndHandler, IInv, TypeOK, RequestType
  <2>5. Alone(e)'
    BY <1>2, <1>6, <1>7, <2>1, <2>3, <2>4 DEF Alone, NoSlot, NoJob
  <2>6. Unasked(e)' /\ Over(e)'
    BY <1>1, <1>6, <1>7, <2>2, <2>4 DEF SignalByJob, Unasked, Answering, Over, flags, row
  <2> QED BY <1>1, <1>2, <1>4, <1>6, <1>7, <2>1, <2>5, <2>6, QuietRun DEF row, NoSlot
<1>8. CASE rop[r] # "cancel" /\ ~(rop[r] = "approve" /\ rgate[r] \in Released)
  <2>1. SignalByFlag(r)
    BY <1>8 DEF Signal
  <2>2. UNCHANGED <<queued, rop, rexec, rgate>> /\ rpc'[r] = "publish"
    BY <2>1 DEF SignalByFlag, HandlerStep, IInv, TypeOK, RequestType
  <2>3. NoJob(e)'
    BY <1>6, <1>8, <2>2 DEF NoJob
  <2>4. Alone(e)'
    BY <1>2, <2>2, AloneSame DEF RunInv
  <2>5. Awaits(e)' /\ Over(e)'
    BY <1>1, <1>6, <1>8 DEF Awaits, Over, row
  <2>6. \A v \in Worker : Driving(v, e) => wgate[v] = rgate[r] /\ wpc[v] \in Offered
    BY <1>3, <1>6, <1>8 DEF Asking
  <2>7. Flagged(e)'
    BY <1>1, <1>2, <1>6, <1>8, <2>3, <2>6 DEF Flagged, Offered, Waiting, slots
  <2>8. rgate[r] \notin Released
    BY <1>3, <1>8, GateRanges DEF Places, Placed, IInv, TypeOK, RequestType
  <2>9. Answers(e)'
    <3> SUFFICES (Asking(r, e) /\ Recording(r, e) /\ Calling(r, e))'
      BY <1>3, <2>2 DEF Answers, Answering
    <3>1. Asking(r, e)' /\ Recording(r, e)'
      BY <1>1, <1>6, <1>8, <2>2 DEF Asking, Recording
    <3>2. Calling(r, e)'
      BY <1>1, <1>2, <1>6, <1>8, <2>2, <2>6, <2>8 DEF Calling, Offered, row, slots
    <3> QED BY <3>1, <3>2
  <2> QED BY <1>4, <2>4, <2>5, <2>7, <2>9 DEF RunInv
<1> QED BY <1>5, <1>7, <1>8

(* The message wakes or stops the slot that waits. *)
LEMMA PublishRun ==
  ASSUME IInv, Places, NEW e \in Exec, RunInv(e), NEW r \in Request, rexec[r] = e, Publish(r)
  PROVE  RunInv(e)'
<1>1. UNCHANGED <<row, approved, answered, contFlag, queued, wexec, wgate>>
  BY DEF Publish, project, flags
<1>2. \A q \in Request : rexec'[q] # e
  BY OnlyRequest, ConstantsAssumption DEF Publish, EndHandler, IInv, TypeOK, RequestType
<1>3. \A v \in Worker : wexec[v] = e =>
        \/ wpc'[v] = wpc[v]
        \/ wpc[v] = "wait" /\ wpc'[v] = IF rop[r] = "cancel" THEN "stopped" ELSE "woken"
  BY DEF Publish
<1>4. \A v \in Worker : Driving(v, e)' <=> Driving(v, e)
  BY <1>1, <1>3 DEF Driving
<1>5. NoJob(e)' <=> NoJob(e)
  BY <1>1 DEF NoJob
<1>6. Alone(e)'
  BY <1>1, <1>2, <1>4, AloneSame DEF RunInv
<1>7. rop[r] # "cancel" => Calling(r, e) /\ status[e] # "AWAITING"
  BY DEF RunInv, Answers, Answering, Publish, Calling
<1>8. Awaits(e)'
  <2> SUFFICES ASSUME status[e] = "AWAITING" PROVE Awaits(e)'
    BY <1>1 DEF Awaits, row
  <2>1. \A v \in Worker : Driving(v, e) => wpc'[v] \in Offered \union {"launch"}
    BY <1>3, <1>7 DEF RunInv, Awaits, Offered, Driving
  <2> QED BY <1>1, <1>4, <1>5, <2>1 DEF RunInv, Awaits, row
<1>9. Answers(e)'
  BY <1>2 DEF Answers, Answering
<1>10. Flagged(e)'
  <2>1. \A v \in Worker : Driving(v, e) =>
          (wpc[v] = "cancelled" => wpc'[v] = "cancelled") /\ (wpc[v] \in Waiting => wpc'[v] \in Waiting)
    BY <1>3 DEF Driving, Waiting
  <2> QED BY <1>1, <1>4, <1>5, <2>1 DEF RunInv, Flagged
<1>11. Passed(e)'
  <2>1. ASSUME NEW v \in Worker, wexec[v] = e, wpc[v] = "wait", rop[r] # "cancel" PROVE wgate[v] \in answered[e]
    BY <1>7, <2>1 DEF Publish, Calling, Driving, Waiting
  <2> QED BY <1>1, <1>3, <2>1 DEF RunInv, Passed, Ending
<1>12. Over(e)' /\ Recorded(e)'
  BY <1>1, <1>3, <1>4, <1>5 DEF RunInv, Over, Recorded, Driving, row
<1> QED BY <1>6, <1>8, <1>9, <1>10, <1>11, <1>12 DEF RunInv

(* Every step of a request keeps the invariant of every run. *)
LEMMA RequestStepRun ==
  ASSUME Timely, IInv, Places, NEW r \in Request, RequestStep(r), NEW e \in Exec, RunInv(e)
  PROVE  RunInv(e)'
<1>1. CASE rexec[r] # e /\ rexec'[r] # e
  BY <1>1, RequestStill, StillKeeps DEF IInv
<1>2. ASSUME NEW d \in Exec, Come(r, d), rexec[r] = e \/ rexec'[r] = e PROVE RunInv(e)'
  <2>1. rexec[r] # e
    BY <1>2, ConstantsAssumption DEF Come
  <2>2. d = e
    BY <1>2, <2>1 DEF Come, BeginApprove, BeginCancel, Begin, IInv, TypeOK, RequestType
  <2> QED BY <1>2, <2>2, ComeRun
<1>3. ASSUME Handle(r), rexec[r] = e \/ rexec'[r] = e PROVE RunInv(e)'
  <2>1. rexec'[r] = rexec[r] \/ rexec'[r] = NoExec
    BY <1>3 DEF Handle, Grant, Mark, Signal, SignalByJob, SignalByFlag, Publish, HandlerStep, EndHandler,
       IInv, TypeOK, RequestType
  <2>2. rexec[r] = e
    BY <1>3, <2>1, ConstantsAssumption
  <2> QED BY <1>3, <2>2, GrantRun, MarkRun, SignalRun, PublishRun DEF Handle
<1> QED BY <1>1, <1>2, <1>3 DEF RequestStep

-----------------------------------------------------------------------------
(* The invariant *)

(* At the start every run has one job and no slot or request. *)
LEMMA RunInit == Init => \A e \in Exec : RunInv(e)
<1> SUFFICES ASSUME Init, NEW e \in Exec PROVE RunInv(e)
  OBVIOUS
<1>1. NoSlot(e) /\ (\A w \in Worker : wexec[w] # e) /\ \A r \in Request : rexec[r] # e
  BY ConstantsAssumption DEF Init, NoSlot, Driving
<1>2. Alone(e)
  BY <1>1 DEF Init, Alone, NoSlot
<1>3. status[e] = "QUEUED" /\ answered[e] = {} /\ ~contFlag[e]
  BY DEF Init
<1> QED BY <1>1, <1>2, <1>3 DEF RunInv, Awaits, Answers, Answering, Flagged, Passed, Over, Recorded

(* The inductive invariant of the held gates, in a timely environment. *)
THEOREM GatesInvariance == ASSUME Timely PROVE Spec => []GInv
<1>1. Init => GInv
  BY TypeInit, OrderInit, PlacesInit, RunInit DEF GInv, IInv
<1>2. GInv /\ [Next]_vars => GInv'
  <2> SUFFICES ASSUME GInv, [Next]_vars PROVE GInv'
    OBVIOUS
  <2>1. IInv /\ Places /\ \A e \in Exec : RunInv(e)
    BY DEF GInv
  <2>2. IInv' /\ Places'
    BY <2>1, TypeStep, OrderStep, PlacesStep DEF IInv
  <2>3. ASSUME NEW e \in Exec PROVE RunInv(e)'
    <3>1. CASE \E w \in Worker : SlotStep(w)
      BY <2>1, <3>1, SlotStepRun
    <3>2. CASE \E r \in Request : RequestStep(r)
      BY <2>1, <3>2, RequestStepRun
    <3>3. CASE UNCHANGED vars
      <4>1. Still(e)
        BY <3>3 DEF vars, Still, row, project, flags, slots, requests
      <4> QED BY <2>1, <4>1, StillKeeps
    <3>4. ASSUME NEW d \in Exec, EditCases(d) PROVE RunInv(e)'
      <4>1. Still(e)
        BY <3>4 DEF EditCases, Still, row, project, flags, slots, requests
      <4> QED BY <2>1, <4>1, StillKeeps
    <3> QED BY <2>1, <3>1, <3>2, <3>3, <3>4, TimelySteps DEF IInv
  <2> QED BY <2>2, <2>3 DEF GInv
<1> QED BY <1>1, <1>2, PTL DEF Spec

(* While a continue-flag is set, no job is left to meet it, and a slot on the run *)
(* is at a gate that was answered.                                                *)
THEOREM NoContinueLeftOver == ASSUME Timely PROVE Spec => []NoLeftoverContinue
<1>1. GInv => NoLeftoverContinue
  BY DEF GInv, RunInv, Flagged, NoJob, Driving, Waiting, NoLeftoverContinue
<1> QED BY <1>1, GatesInvariance, PTL

(* A slot is past a held gate on a human's answer to it. *)
THEOREM HeldGatesAnswered == ASSUME Timely PROVE Spec => []PassedOnAnswer
<1>1. GInv => PassedOnAnswer
  BY DEF GInv, RunInv, Passed, Ending, PassedOnAnswer, IInv, TypeOK, SlotType
<1> QED BY <1>1, GatesInvariance, PTL

(* A completed run was signed off, and every gate of it approved. *)
THEOREM CompletedSignedOff == ASSUME Timely PROVE Spec => []CompletedIsSignedOff
<1>1. GInv => CompletedIsSignedOff
  BY DEF GInv, RunInv, Over, CompletedIsSignedOff
<1> QED BY <1>1, GatesInvariance, PTL

-----------------------------------------------------------------------------
(* The ledger of every approval gate *)

\* The ledger's open gates; what it has granted is "approved".
AskedOfAll == OpenGates(ApprovalGates)

(* Closing any of the open gates is a step of the ledger. *)
LEMMA CloseAny ==
  ASSUME AskedOfAll' \subseteq AskedOfAll, approved' = approved
  PROVE  ApprovalLedger!Next
<1>1. (AskedOfAll \ AskedOfAll') \in SUBSET AskedOfAll /\ AskedOfAll' = AskedOfAll \ (AskedOfAll \ AskedOfAll')
  OBVIOUS
<1> QED BY <1>1 DEF ApprovalLedger!Next, ApprovalLedger!Close, AskedOfAll

(* So is opening a gate when every earlier one is approved. *)
LEMMA OpenNext ==
  ASSUME NEW g \in ApprovalGates, \A h \in ApprovalGates : h < g => h \in approved,
         g \in AskedOfAll', AskedOfAll' \subseteq AskedOfAll \union {g}, approved' = approved
  PROVE  ApprovalLedger!Next
<1>1. /\ (AskedOfAll \ AskedOfAll') \in SUBSET AskedOfAll
      /\ AskedOfAll' = (AskedOfAll \ (AskedOfAll \ AskedOfAll')) \union {g}
  OBVIOUS
<1>2. ApprovalLedger!Before(g) \subseteq approved
  BY DEF ApprovalLedger!Before
<1>3. ApprovalLedger!Open(g)
  BY <1>1, <1>2 DEF ApprovalLedger!Open, AskedOfAll
<1> QED BY <1>3 DEF ApprovalLedger!Next

(* And recording the answer to an open gate. *)
LEMMA GrantAny ==
  ASSUME NEW g \in ApprovalGates, g \in AskedOfAll, AskedOfAll' \subseteq AskedOfAll, approved' = approved \union {g}
  PROVE  ApprovalLedger!Next
<1>1. (AskedOfAll \ AskedOfAll') \in SUBSET AskedOfAll /\ AskedOfAll' = AskedOfAll \ (AskedOfAll \ AskedOfAll')
  OBVIOUS
<1>2. ApprovalLedger!Grant(g)
  BY <1>1 DEF ApprovalLedger!Grant, AskedOfAll
<1> QED BY <1>2 DEF ApprovalLedger!Next

(* What is asked after a step was asked before, or is new in a row. *)
LEMMA AskedOfAllMoves ==
  ASSUME NEW new, RowMoves(new), RequestMoves
  PROVE  AskedOfAll' \subseteq AskedOfAll \union new
<1> SUFFICES ASSUME NEW g \in AskedOfAll' PROVE g \in AskedOfAll \union new
  OBVIOUS
<1>1. CASE \E e \in Exec : status'[e] = "AWAITING" /\ gate'[e] = g
  <2>1. PICK e \in Exec : status'[e] = "AWAITING" /\ gate'[e] = g
    BY <1>1
  <2> QED BY <2>1 DEF RowMoves, AskedOfAll, OpenGates
<1>2. CASE \E r \in Request : rpc'[r] = "grant" /\ rgate'[r] = g
  <2>1. PICK r \in Request : rpc'[r] = "grant" /\ rgate'[r] = g
    BY <1>2
  <2> QED BY <2>1 DEF RequestMoves, AskedOfAll, OpenGates
<1> QED BY <1>1, <1>2 DEF AskedOfAll, OpenGates

(* A slot asks for a gate when every approval before it is on record. *)
LEMMA AskedInOrder ==
  ASSUME GInv, NEW w \in Worker, Ask(w)
  PROVE  \A h \in ApprovalGates : h < wgate[w] => h \in approved
<1> SUFFICES ASSUME NEW h \in ApprovalGates, h < wgate[w] PROVE h \in approved
  OBVIOUS
<1>1. wexec[w] \in Exec
  BY DEF Ask, StageDone, GInv, IInv, TypeOK, SlotType
<1>2. CASE h \in Released
  BY <1>2 DEF GInv, IInv, GateOrder, Cleared
<1>3. CASE h \in Held
  BY <1>1, <1>3 DEF GInv, RunInv, Passed, Recorded
<1> QED BY <1>2, <1>3, GateRanges

(* Every step of the pipeline is a step of the ledger of all gates. *)
LEMMA ApprovalLedgerStep ==
  ASSUME GInv, [Next]_vars
  PROVE  ApprovalLedger!Next
<1> USE DEF GInv
<1>1. CASE Moves({})
  BY <1>1, AskedOfAllMoves, CloseAny DEF Moves
<1>2. ASSUME NEW w \in Worker, Ask(w), Moves({wgate[w]}) PROVE ApprovalLedger!Next
  <2>1. AskedOfAll' \subseteq AskedOfAll \union {wgate[w]} /\ approved' = approved
    BY <1>2, AskedOfAllMoves DEF Moves
  <2>2. CASE wgate[w] \in ApprovalGates
    <3>1. wexec[w] \in Exec
      BY <1>2 DEF Ask, StageDone, IInv, TypeOK, SlotType
    <3>2. status'[wexec[w]] = "AWAITING" /\ gate'[wexec[w]] = wgate[w]
      BY <1>2, <3>1 DEF Ask, SetAwaiting, IInv, TypeOK, RowType
    <3>3. wgate[w] \in AskedOfAll'
      BY <2>2, <3>1, <3>2 DEF AskedOfAll, OpenGates
    <3> QED BY <1>2, <2>1, <2>2, <3>3, OpenNext, AskedInOrder
  <2>3. CASE wgate[w] \notin ApprovalGates
    <3>1. AskedOfAll' \subseteq AskedOfAll
      BY <2>1, <2>3 DEF AskedOfAll, OpenGates
    <3> QED BY <2>1, <3>1, CloseAny
  <2> QED BY <2>2, <2>3
<1>3. ASSUME NEW w \in Worker, Moves({Login}) PROVE ApprovalLedger!Next
  <2>1. AskedOfAll' \subseteq AskedOfAll \union {Login} /\ approved' = approved
    BY <1>3, AskedOfAllMoves DEF Moves
  <2>2. AskedOfAll' \subseteq AskedOfAll
    BY <2>1 DEF AskedOfAll, OpenGates, ApprovalGates
  <2> QED BY <2>1, <2>2, CloseAny
<1>4. ASSUME NEW r \in Request, Grant(r), RowMoves({}), RequestMoves PROVE ApprovalLedger!Next
  <2>1. AskedOfAll' \subseteq AskedOfAll
    BY <1>4, AskedOfAllMoves
  <2>2. approved' = approved \union {rgate[r]} /\ rpc[r] = "grant"
    BY <1>4 DEF Grant
  <2>3. rgate[r] \in ApprovalGates
    BY <2>2 DEF IInv, TypeOK, RequestType
  <2>4. rgate[r] \in AskedOfAll
    BY <2>2, <2>3 DEF AskedOfAll, OpenGates
  <2> QED BY <2>1, <2>2, <2>3, <2>4, GrantAny
<1> QED BY <1>1, <1>2, <1>3, <1>4, StepMoves DEF IInv

(* In a timely environment all the approval gates are put to humans and granted *)
(* as the abstract ledger says.                                                 *)
THEOREM RefinesApprovalLedger == ASSUME Timely PROVE Spec => ImplementsApprovalLedger
<1>1. Init => ApprovalLedger!Init
  BY ConstantsAssumption DEF Init, ApprovalLedger!Init, OpenGates, ApprovalGates, Gates
<1>2. GInv /\ [Next]_vars => [ApprovalLedger!Next]_(ApprovalLedger!ledger)
  BY ApprovalLedgerStep
<1> QED BY <1>1, <1>2, GatesInvariance, PTL DEF Spec, ImplementsApprovalLedger, ApprovalLedger!Spec

-----------------------------------------------------------------------------
(* One driver *)

\* An environment with timers, impatient users and slow handlers, none of which brings a second
\* driver.  A throw after a gate was asked, two requests at once and a death each may.
Orderly == "edge" \notin Hazards /\ "overlap" \notin Hazards /\ MaxCrashes = 0

\* A released gate that is asked, and a handler that will enqueue the job that goes on from it.
AtReleased(e) == status[e] = "AWAITING" /\ gate[e] \in Released
Resuming(r, e) ==
  rexec[r] = e /\ rop[r] = "approve" /\ rgate[r] \in Released /\ rpc[r] \in {"grant", "mark", "signal"}

\* Nothing drives the run then, and it is not asked again before the job is there.
Parked(e) ==
  /\ AtReleased(e) => NoJob(e) /\ NoSlot(e)
  /\ \A r \in Request : Resuming(r, e) =>
       NoJob(e) /\ NoSlot(e) /\ (rpc[r] = "signal" => ~AtReleased(e))

Approving == \A r \in Request : rpc[r] = "grant" => rop[r] = "approve"

DriverInv == IInv /\ Approving /\ \A e \in Exec : Alone(e) /\ Parked(e)

\* No job, slot or request comes to the run, and it is not asked at a released gate.
Quiet(e) ==
  /\ queued'[e] = queued[e]
  /\ \A w \in Worker : Driving(w, e)' => Driving(w, e)
  /\ \A r \in Request :
       /\ rexec'[r] = e => rexec[r] = e
       /\ Resuming(r, e)' => Resuming(r, e) /\ (rpc'[r] = "signal" => rpc[r] = "signal" \/ ~AtReleased(e)')
  /\ AtReleased(e)' => AtReleased(e)

(* A quiet step keeps the run's driver alone. *)
LEMMA QuietKeeps ==
  ASSUME NEW e \in Exec, Alone(e), Parked(e), Quiet(e)
  PROVE  Alone(e)' /\ Parked(e)'
<1>1. Alone(e)'
  BY AloneSame DEF Quiet
<1>2. (NoJob(e) => NoJob(e)') /\ (NoSlot(e) => NoSlot(e)')
  BY DEF Quiet, NoJob, NoSlot
<1>3. ASSUME NEW r \in Request, Resuming(r, e)'
      PROVE  (NoJob(e) /\ NoSlot(e) /\ (rpc[r] = "signal" => ~AtReleased(e)))'
  BY <1>2, <1>3 DEF Quiet, Parked
<1> QED BY <1>1, <1>2, <1>3 DEF Quiet, Parked

(* A slot that drives its run has it for itself. *)
LEMMA DriverAlone ==
  ASSUME NEW e \in Exec, Alone(e), Parked(e), NEW w \in Worker, Driving(w, e)
  PROVE  /\ NoJob(e) /\ ~AtReleased(e)
         /\ \A v \in Worker : Driving(v, e) => v = w
         /\ \A r \in Request : ~Resuming(r, e)
BY DEF Alone, Parked, NoSlot

(* What a slot does short of a claim, a question or an error is quiet. *)
LEMMA SlotQuiet ==
  ASSUME TypeOK, NEW w \in Worker, NEW e \in Exec,
         \/ ReadRow(w) \/ StartRun(w) \/ OpenContext(w) \/ LoadGates(w) \/ GroundCases(w) \/ EnterStage(w) \/ ShowStage(w)
         \/ RunAgent(w) \/ WriteCases(w) \/ Release(w) \/ LaunchBrowser(w) \/ CheckFlags(w) \/ Poll(w) \/ TakeMessage(w)
         \/ CloseProject(w) \/ Complete(w) \/ EndJob(w) \/ StopRun(w)
  PROVE  Quiet(e)
<1>1. UNCHANGED <<queued, requests>>
  BY DEF ReadRow, StartRun, OpenContext, LoadGates, GroundCases, EnterStage, ShowStage, RunAgent, WriteCases, Release,
     LaunchBrowser, CheckFlags, Poll, TakeMessage, CloseProject, Complete, EndJob, StopRun
<1>2. \/ UNCHANGED row
      \/ \E s \in Statuses \ {"AWAITING"} : SetStatus(wexec[w], s)
      \/ SetAwaiting(wexec[w], Login)
  BY DEF ReadRow, StartRun, OpenContext, LoadGates, GroundCases, EnterStage, ShowStage, RunAgent, WriteCases, Release,
     LaunchBrowser, CheckFlags, Poll, TakeMessage, CloseProject, Complete, EndJob, StopRun, Statuses
<1>3. AtReleased(e)' => AtReleased(e)
  <2>1. ASSUME NEW s \in Statuses \ {"AWAITING"}, SetStatus(wexec[w], s) PROVE AtReleased(e)' => AtReleased(e)
    BY <2>1 DEF SetStatus, AtReleased, TypeOK, RowType
  <2>2. ASSUME SetAwaiting(wexec[w], Login) PROVE AtReleased(e)' => AtReleased(e)
    BY <2>2, GateRanges DEF SetAwaiting, AtReleased, TypeOK, RowType
  <2> QED BY <1>2, <2>1, <2>2 DEF row, AtReleased
<1>4. \/ FreeSlot(w)
      \/ UNCHANGED <<wpc, wexec>>
      \/ UNCHANGED wexec /\ wpc[w] # "release" /\ \E pc \in WorkerPcs : Step(w, pc)
  BY DEF ReadRow, StartRun, OpenContext, LoadGates, GroundCases, EnterStage, ShowStage, RunAgent, WriteCases, Release,
     LaunchBrowser, CheckFlags, Poll, TakeMessage, PassGate, CloseProject, Complete, EndJob, StopRun, WorkerPcs, slots
<1>5. ASSUME NEW v \in Worker, Driving(v, e)' PROVE Driving(v, e)
  <2>1. CASE FreeSlot(w)
    BY <1>5, <2>1, ConstantsAssumption DEF FreeSlot, Driving, TypeOK, SlotType
  <2>2. CASE UNCHANGED <<wpc, wexec>>
    BY <1>5, <2>2 DEF Driving
  <2>3. ASSUME NEW pc \in WorkerPcs, UNCHANGED wexec, wpc[w] # "release", Step(w, pc) PROVE Driving(v, e)
    BY <1>5, <2>3 DEF Step, Driving, TypeOK, SlotType
  <2> QED BY <1>4, <2>1, <2>2, <2>3
<1>6. \A r \in Request : Resuming(r, e)' => Resuming(r, e)
  BY <1>1 DEF Resuming, requests
<1> QED BY <1>1, <1>3, <1>5, <1>6 DEF Quiet, requests

(* A job that is claimed was the run's only driver. *)
LEMMA ClaimAlone ==
  ASSUME TypeOK, NEW e \in Exec, Alone(e), Parked(e), NEW w \in Worker, NEW d \in Exec, NEW a \in Attempts, Claim(w, d, a)
  PROVE  Alone(e)' /\ Parked(e)'
<1>1. /\ UNCHANGED <<row, requests>> /\ wpc' = [wpc EXCEPT ![w] = "row"] /\ wexec' = [wexec EXCEPT ![w] = d]
      /\ queued[d][a] > 0 /\ queued' = [queued EXCEPT ![d][a] = @ - 1]
  BY DEF Claim, Step
<1>2. CASE d # e
  <2>1. queued'[e] = queued[e]
    BY <1>1, <1>2 DEF TypeOK, QueueType
  <2>2. \A v \in Worker : Driving(v, e)' => Driving(v, e)
    BY <1>1, <1>2 DEF Driving, TypeOK, SlotType
  <2>3. Quiet(e)
    BY <1>1, <2>1, <2>2 DEF Quiet, Resuming, AtReleased, row, requests
  <2> QED BY <2>3, QuietKeeps
<1>3. CASE d = e
  <2>1. ~NoJob(e) /\ NoSlot(e) /\ ~AtReleased(e) /\ \A r \in Request : ~Resuming(r, e)
    BY <1>1, <1>3 DEF Alone, Parked, NoJob, TypeOK, QueueType
  <2>2. queued[e][a] = 1 /\ \A b \in Attempts : b # a => queued[e][b] = 0
    BY <1>1, <1>3 DEF Alone, TypeOK, QueueType
  <2>3. \A b \in Attempts : queued'[e][b] = 0
    BY <1>1, <1>3, <2>2 DEF TypeOK, QueueType
  <2>4. \A v \in Worker : Driving(v, e)' => v = w
    BY <1>1, <2>1 DEF NoSlot, Driving, TypeOK, SlotType
  <2>5. Alone(e)'
    BY <1>1, <2>3, <2>4 DEF Alone, NoJob, requests
  <2>6. ~AtReleased(e)' /\ \A r \in Request : ~Resuming(r, e)'
    BY <1>1, <2>1 DEF AtReleased, Resuming, row, requests
  <2> QED BY <2>5, <2>6 DEF Parked
<1> QED BY <1>2, <1>3

(* A slot that asks a released gate stops driving; the retry of one that fails takes its place. *)
LEMMA AskAlone ==
  ASSUME TypeOK, NEW e \in Exec, Alone(e), Parked(e), NEW w \in Worker, Ask(w)
  PROVE  Alone(e)' /\ Parked(e)'
<1>1. /\ UNCHANGED <<queued, requests, wexec, wgate>> /\ SetAwaiting(wexec[w], wgate[w])
      /\ wpc[w] \notin {"idle", "release"} /\ wexec[w] \in Exec
  BY DEF Ask, StageDone, TypeOK, SlotType
<1>2. \E pc \in WorkerPcs : Step(w, pc) /\ (wgate[w] \in Released => pc = "release")
  <2>1. Step(w, CASE wgate[w] \in Released -> "release" [] wgate[w] = Login -> "launch" [] OTHER -> "check")
    BY DEF Ask
  <2>2. CASE wgate[w] \in Released
    <3>1. wgate[w] # Login
      BY <2>2, GateRanges
    <3> QED BY <2>1, <2>2, <3>1 DEF WorkerPcs
  <2>3. CASE wgate[w] = Login
    <3>1. wgate[w] \notin Released
      BY <2>3, GateRanges
    <3> QED BY <2>1, <2>3, <3>1 DEF WorkerPcs
  <2>4. CASE wgate[w] \notin Released /\ wgate[w] # Login
    BY <2>1, <2>4 DEF WorkerPcs
  <2> QED BY <2>2, <2>3, <2>4
<1>3. \A v \in Worker : Driving(v, e)' => Driving(v, e)
  BY <1>1, <1>2 DEF Step, Driving, TypeOK, SlotType
<1>4. CASE wexec[w] = e /\ wgate[w] \in Released
  <2>1. Driving(w, e)
    BY <1>1, <1>4 DEF Driving
  <2>2. NoJob(e) /\ (\A v \in Worker : Driving(v, e) => v = w) /\ \A r \in Request : ~Resuming(r, e)
    BY <2>1, DriverAlone
  <2>3. ~Driving(w, e)'
    BY <1>2, <1>4 DEF Step, Driving, TypeOK, SlotType
  <2>4. NoJob(e)' /\ NoSlot(e)' /\ \A r \in Request : ~Resuming(r, e)'
    BY <1>1, <1>3, <2>2, <2>3 DEF NoJob, NoSlot, Resuming, requests
  <2>5. Alone(e)'
    BY <1>1, <1>3, AloneSame DEF requests
  <2> QED BY <2>4, <2>5 DEF Parked
<1>5. CASE ~(wexec[w] = e /\ wgate[w] \in Released)
  <2>1. AtReleased(e)' => AtReleased(e)
    BY <1>1, <1>5 DEF SetAwaiting, AtReleased, TypeOK, RowType
  <2>2. Quiet(e)
    BY <1>1, <1>3, <2>1 DEF Quiet, Resuming, requests
  <2> QED BY <2>2, QuietKeeps
<1> QED BY <1>4, <1>5

LEMMA FailAlone ==
  ASSUME TypeOK, NEW e \in Exec, Alone(e), Parked(e), NEW w \in Worker, wpc[w] \notin {"idle", "release"}, FailRun(w)
  PROVE  Alone(e)' /\ Parked(e)'
<1>1. /\ UNCHANGED requests /\ SetStatus(wexec[w], "FAILED") /\ FreeSlot(w) /\ Retry(w) /\ wexec[w] \in Exec
  BY DEF FailRun, TypeOK, SlotType
<1>2. \A v \in Worker : Driving(v, e)' => Driving(v, e) /\ v # w
  BY <1>1, ConstantsAssumption DEF FreeSlot, Driving, TypeOK, SlotType
<1>3. AtReleased(e)' => AtReleased(e) /\ wexec[w] # e
  BY <1>1 DEF SetStatus, AtReleased, TypeOK, RowType
<1>4. CASE wexec[w] # e
  <2>1. queued'[e] = queued[e]
    BY <1>1, <1>4 DEF Retry, Enqueue, TypeOK, QueueType
  <2>2. Quiet(e)
    BY <1>1, <1>2, <1>3, <2>1 DEF Quiet, Resuming, requests
  <2> QED BY <2>2, QuietKeeps
<1>5. CASE wexec[w] = e
  <2>1. NoJob(e) /\ (\A v \in Worker : Driving(v, e) => v = w) /\ \A r \in Request : ~Resuming(r, e)
    <3>1. Driving(w, e)
      BY <1>5 DEF Driving
    <3> QED BY <3>1, DriverAlone
  <2>2. NoSlot(e)' /\ ~AtReleased(e)' /\ \A r \in Request : ~Resuming(r, e)'
    BY <1>1, <1>2, <1>3, <1>5, <2>1 DEF NoSlot, Resuming, requests
  <2>3. \E b \in Attempts : \A a \in Attempts : queued'[e][a] = IF a = b /\ wtry[w] < MaxAttempts THEN 1 ELSE 0
    <3>1. CASE wtry[w] < MaxAttempts
      <4>1. wtry[w] + 1 \in Attempts
        BY <3>1, ConstantsAssumption DEF TypeOK, SlotType, Attempts
      <4>2. queued' = [queued EXCEPT ![e][wtry[w] + 1] = @ + 1]
        BY <1>1, <1>5, <3>1 DEF Retry, Enqueue
      <4>3. \A a \in Attempts : queued'[e][a] = IF a = wtry[w] + 1 THEN 1 ELSE 0
        BY <2>1, <4>1, <4>2 DEF NoJob, TypeOK, QueueType
      <4> QED BY <3>1, <4>1, <4>3
    <3>2. CASE ~(wtry[w] < MaxAttempts)
      <4>1. 1 \in Attempts
        BY ConstantsAssumption DEF Attempts
      <4> QED BY <1>1, <2>1, <3>2, <4>1 DEF Retry, NoJob
    <3> QED BY <3>1, <3>2
  <2>4. Alone(e)'
    <3>1. \A a \in Attempts : queued'[e][a] \in {0, 1}
      BY <2>3
    <3>2. \A a, b \in Attempts : queued'[e][a] = 1 /\ queued'[e][b] = 1 => a = b
      BY <2>3
    <3>3. \A q, r \in Request : rexec'[q] = e /\ rexec'[r] = e => q = r
      BY <1>1 DEF Alone, requests
    <3> QED BY <2>2, <3>1, <3>2, <3>3 DEF Alone, NoSlot
  <2> QED BY <2>2, <2>4 DEF Parked
<1> QED BY <1>4, <1>5

(* A request comes alone; one that approves a released gate finds nothing that drives. *)
LEMMA ComeAlone ==
  ASSUME TypeOK, Orderly, NEW e \in Exec, Alone(e), Parked(e), NEW r \in Request, User(r)
  PROVE  Alone(e)' /\ Parked(e)'
<1>1. PICK d \in Exec : BeginApprove(r, d) \/ BeginContinue(r, d) \/ BeginCancel(r, d)
  BY DEF User
<1>2. /\ UNCHANGED <<row, queued, slots>> /\ (\A q \in Request : rexec[q] # d) /\ rexec' = [rexec EXCEPT ![r] = d]
      /\ \A q \in Request : q # r => rpc'[q] = rpc[q] /\ rop'[q] = rop[q] /\ rgate'[q] = rgate[q]
      /\ rpc'[r] \in {"grant", "mark"}
      /\ rop'[r] = "approve" => status[d] = "AWAITING" /\ rgate'[r] = gate[d]
  BY <1>1 DEF Orderly, BeginApprove, BeginContinue, BeginCancel, Begin, TypeOK, RequestType
<1>3. \A v \in Worker : Driving(v, e)' <=> Driving(v, e)
  BY <1>2 DEF Driving, slots
<1>4. ASSUME NEW q \in Request, q # r PROVE Resuming(q, e)' <=> Resuming(q, e)
  BY <1>2, <1>4 DEF Resuming, TypeOK, RequestType
<1>5. (NoJob(e)' <=> NoJob(e)) /\ (NoSlot(e)' <=> NoSlot(e)) /\ (AtReleased(e)' <=> AtReleased(e))
  BY <1>2, <1>3 DEF NoJob, NoSlot, AtReleased, row
<1>6. Alone(e)'
  <2>1. \A p, q \in Request : rexec'[p] = e /\ rexec'[q] = e => p = q
    BY <1>2 DEF Alone, TypeOK, RequestType
  <2> QED BY <1>2, <1>3, <1>5, <2>1 DEF Alone
<1>7. Resuming(r, e)' => AtReleased(e) /\ rpc'[r] # "signal"
  BY <1>2 DEF Resuming, AtReleased, TypeOK, RequestType
<1>8. ASSUME NEW q \in Request, Resuming(q, e)'
      PROVE  (NoJob(e) /\ NoSlot(e) /\ (rpc[q] = "signal" => ~AtReleased(e)))'
  <2>1. CASE q = r
    BY <1>5, <1>7, <1>8, <2>1 DEF Parked
  <2>2. CASE q # r
    BY <1>2, <1>4, <1>5, <1>8, <2>2 DEF Parked
  <2> QED BY <2>1, <2>2
<1> QED BY <1>5, <1>6, <1>8 DEF Parked

(* The handler that resumes a run brings it its driver; the others bring none. *)
LEMMA HandleAlone ==
  ASSUME TypeOK, NEW e \in Exec, Alone(e), Parked(e), NEW r \in Request, Handle(r)
  PROVE  Alone(e)' /\ Parked(e)'
<1>1. rpc[r] # "idle" /\ rexec[r] \in Exec
  BY DEF Handle, Grant, Mark, Signal, Publish, TypeOK, RequestType
<1>2. ASSUME NEW pc \in {"mark", "signal", "publish"}, HandlerStep(r, pc), UNCHANGED <<queued, slots>>,
             pc = "mark" => rpc[r] = "grant" /\ UNCHANGED row,
             pc = "signal" => rpc[r] = "mark" /\ \E s \in Statuses \ {"AWAITING"} : SetStatus(rexec[r], s),
             pc = "publish" => UNCHANGED row
      PROVE  Quiet(e)
  <2>1. AtReleased(e)' => AtReleased(e) /\ (pc = "signal" => rexec[r] # e)
    BY <1>2 DEF AtReleased, SetStatus, row, TypeOK, RowType
  <2>2. ASSUME NEW q \in Request, Resuming(q, e)'
        PROVE  Resuming(q, e) /\ (rpc'[q] = "signal" => rpc[q] = "signal" \/ ~AtReleased(e)')
    BY <1>2, <2>1, <2>2 DEF HandlerStep, Resuming, TypeOK, RequestType
  <2>3. \A v \in Worker : Driving(v, e)' => Driving(v, e)
    BY <1>2 DEF Driving, slots
  <2> QED BY <1>2, <2>1, <2>2, <2>3 DEF Quiet, HandlerStep
<1>3. CASE Grant(r)
  <2>1. HandlerStep(r, "mark") /\ UNCHANGED <<queued, slots, row>> /\ rpc[r] = "grant"
    BY <1>3 DEF Grant
  <2> QED BY <1>2, <2>1, QuietKeeps
<1>4. CASE Mark(r)
  <2>1. /\ HandlerStep(r, "signal") /\ UNCHANGED <<queued, slots>> /\ rpc[r] = "mark"
        /\ \E s \in Statuses \ {"AWAITING"} : SetStatus(rexec[r], s)
    BY <1>4 DEF Mark, Statuses
  <2> QED BY <1>2, <2>1, QuietKeeps
<1>5. ASSUME EndHandler(r), UNCHANGED row PROVE \A q \in Request : /\ rexec'[q] = e => rexec[q] = e /\ q # r
                                                                   /\ Resuming(q, e)' => Resuming(q, e) /\ rpc'[q] = rpc[q] /\ q # r
  BY <1>5, ConstantsAssumption DEF EndHandler, Resuming, TypeOK, RequestType
<1>6. CASE Publish(r)
  <2>1. EndHandler(r) /\ UNCHANGED <<row, queued, wexec>>
    BY <1>6 DEF Publish
  <2>2. \A v \in Worker : wpc'[v] = wpc[v] \/ (wpc[v] = "wait" /\ wpc'[v] \in {"stopped", "woken"})
    BY <1>6 DEF Publish
  <2>3. \A v \in Worker : Driving(v, e)' => Driving(v, e)
    BY <2>1, <2>2 DEF Driving
  <2>4. Quiet(e)
    BY <1>5, <2>1, <2>3 DEF Quiet, AtReleased, row
  <2> QED BY <2>4, QuietKeeps
<1>7. CASE rpc[r] = "signal" /\ SignalByFlag(r)
  <2>1. HandlerStep(r, "publish") /\ UNCHANGED <<queued, slots, row>>
    BY <1>7 DEF SignalByFlag
  <2> QED BY <1>2, <2>1, QuietKeeps
<1>8. CASE rpc[r] = "signal" /\ rop[r] = "approve" /\ rgate[r] \in Released /\ SignalByJob(r)
  <2>1. EndHandler(r) /\ UNCHANGED <<row, slots>> /\ 1 \in Attempts
        /\ queued' = [queued EXCEPT ![rexec[r]][1] = @ + 1]
    BY <1>8, ConstantsAssumption DEF SignalByJob, Enqueue, Attempts
  <2>2. \A v \in Worker : Driving(v, e)' <=> Driving(v, e)
    BY <2>1 DEF Driving, slots
  <2>3. CASE rexec[r] # e
    <3>1. queued'[e] = queued[e]
      BY <2>1, <2>3, <1>1 DEF TypeOK, QueueType
    <3>2. Quiet(e)
      BY <1>5, <2>1, <2>2, <3>1 DEF Quiet, AtReleased, row
    <3> QED BY <3>2, QuietKeeps
  <2>4. CASE rexec[r] = e
    <3>1. NoJob(e) /\ NoSlot(e) /\ ~AtReleased(e)
      BY <1>8, <2>4 DEF Parked, Resuming
    <3>2. \A a \in Attempts : queued'[e][a] = IF a = 1 THEN 1 ELSE 0
      BY <2>1, <2>4, <3>1 DEF NoJob, TypeOK, QueueType
    <3>3. \A q \in Request : rexec'[q] # e
      BY <1>5, <2>1, <2>4 DEF Alone
    <3>4. NoSlot(e)' /\ ~AtReleased(e)' /\ \A q \in Request : ~Resuming(q, e)'
      BY <2>1, <2>2, <3>1, <3>3 DEF NoSlot, AtReleased, Resuming, row
    <3>5. Alone(e)'
      BY <3>2, <3>3, <3>4 DEF Alone, NoSlot
    <3> QED BY <3>4, <3>5 DEF Parked
  <2> QED BY <2>3, <2>4
<1> QED BY <1>3, <1>4, <1>6, <1>7, <1>8 DEF Handle, Signal

(* The inductive invariant of the drivers. *)
THEOREM DriverInvariance == ASSUME Orderly PROVE Spec => []DriverInv
<1>1. Init => DriverInv
  <2> SUFFICES ASSUME Init PROVE DriverInv
    OBVIOUS
  <2>1. IInv /\ Approving
    BY TypeInit, OrderInit DEF Init, IInv, Approving
  <2>2. ASSUME NEW e \in Exec PROVE Alone(e) /\ Parked(e)
    <3>1. Alone(e)
      BY <2>2, RunInit DEF RunInv
    <3>2. status[e] = "QUEUED" /\ \A r \in Request : rpc[r] = "idle"
      BY DEF Init
    <3> QED BY <3>1, <3>2 DEF Parked, AtReleased, Resuming
  <2> QED BY <2>1, <2>2 DEF DriverInv
<1>2. DriverInv /\ [Next]_vars => DriverInv'
  <2> SUFFICES ASSUME DriverInv, [Next]_vars PROVE DriverInv'
    OBVIOUS
  <2>1. IInv /\ IInv' /\ TypeOK
    BY TypeStep, OrderStep DEF DriverInv, IInv
  <2>2. Approving'
    <3>1. ASSUME NEW r \in Request, User(r) PROVE Approving'
      BY <2>1, <3>1 DEF User, BeginApprove, BeginContinue, BeginCancel, Begin, DriverInv, Approving, TypeOK, RequestType
    <3>2. ASSUME NEW r \in Request, Handle(r) \/ HandlerDies(r) PROVE Approving'
      BY <2>1, <3>2 DEF Handle, Grant, Mark, Signal, SignalByJob, SignalByFlag, Publish, HandlerDies, HandlerStep,
         EndHandler, DriverInv, Approving, TypeOK, RequestType
    <3>3. ASSUME UNCHANGED requests PROVE Approving'
      BY <3>3 DEF requests, DriverInv, Approving
    <3>4. ASSUME NEW w \in Worker, ClaimAny(w) \/ Drive(w) \/ RunAgent(w) \/ Throw(w) \/ ThrowUnrecorded(w) \/ WaitTimeout(w) \/ Crash(w)
          PROVE  UNCHANGED requests
      BY <3>4 DEF ClaimAny, Claim, Drive, ReadRow, StartRun, OpenContext, LoadGates, GroundCases, EnterStage, ShowStage, RunAgent,
         WriteCases, Ask, Release, LaunchBrowser, CheckFlags, Poll, TakeMessage, CloseProject, Complete, EndJob, StopRun,
         Throw, ThrowUnrecorded, WaitTimeout, FailRun, Crash
    <3>5. ASSUME NEW e \in Exec, FlagExpires(e) \/ EditCases(e) PROVE UNCHANGED requests
      BY <3>5 DEF FlagExpires, EditCases
    <3>6. CASE UNCHANGED vars
      BY <3>3, <3>6 DEF vars
    <3> QED BY <3>1, <3>2, <3>3, <3>4, <3>5, <3>6 DEF Next
  <2>3. ASSUME NEW e \in Exec PROVE Alone(e)' /\ Parked(e)'
    <3>1. Alone(e) /\ Parked(e)
      BY DEF DriverInv
    <3>2. ASSUME NEW w \in Worker, ClaimAny(w) PROVE Alone(e)' /\ Parked(e)'
      BY <2>1, <3>1, <3>2, ClaimAlone DEF ClaimAny
    <3>3. ASSUME NEW w \in Worker, Drive(w) \/ RunAgent(w) PROVE Alone(e)' /\ Parked(e)'
      <4>1. CASE Ask(w)
        BY <2>1, <3>1, <4>1, AskAlone
      <4>2. CASE ~Ask(w)
        <5>1. Quiet(e)
          BY <2>1, <3>3, <4>2, SlotQuiet DEF Drive
        <5> QED BY <3>1, <5>1, QuietKeeps
      <4> QED BY <4>1, <4>2
    <3>4. ASSUME NEW w \in Worker, Throw(w) \/ ThrowUnrecorded(w) \/ WaitTimeout(w) PROVE Alone(e)' /\ Parked(e)'
      <4>1. FailRun(w) /\ wpc[w] \notin {"idle", "release"}
        BY <3>4 DEF Orderly, Throw, ThrowUnrecorded, WaitTimeout
      <4> QED BY <2>1, <3>1, <4>1, FailAlone
    <3>5. ASSUME NEW w \in Worker, Crash(w) PROVE FALSE
      BY <2>1, <3>5 DEF Crash, Orderly, TypeOK, QueueType
    <3>6. ASSUME NEW r \in Request, HandlerDies(r) PROVE FALSE
      BY <2>1, <3>6 DEF HandlerDies, Orderly, TypeOK, QueueType
    <3>7. ASSUME NEW r \in Request, User(r) \/ Handle(r) PROVE Alone(e)' /\ Parked(e)'
      BY <2>1, <3>1, <3>7, ComeAlone, HandleAlone
    <3>8. ASSUME UNCHANGED <<row, queued, slots, requests>> PROVE Alone(e)' /\ Parked(e)'
      <4>1. Quiet(e)
        BY <3>8 DEF Quiet, Driving, Resuming, AtReleased, row, slots, requests
      <4> QED BY <3>1, <4>1, QuietKeeps
    <3>9. ASSUME NEW d \in Exec, FlagExpires(d) \/ EditCases(d) PROVE Alone(e)' /\ Parked(e)'
      BY <3>8, <3>9 DEF FlagExpires, EditCases
    <3>10. CASE UNCHANGED vars
      BY <3>8, <3>10 DEF vars
    <3> QED BY <3>2, <3>3, <3>4, <3>5, <3>6, <3>7, <3>9, <3>10 DEF Next
  <2> QED BY <2>1, <2>2, <2>3 DEF DriverInv
<1> QED BY <1>1, <1>2, PTL DEF Spec

(* A run has one driver: one slot short of releasing, or one waiting job. *)
THEOREM OneDriverAlways == ASSUME Orderly PROVE Spec => []OneDriver
<1>1. DriverInv => OneDriver
  <2> SUFFICES ASSUME DriverInv, NEW e \in Exec
               PROVE  LET drivers == {w \in Worker : wexec[w] = e /\ wpc[w] # "release"}
                          waiting == {a \in Attempts : queued[e][a] > 0}
                      IN Cardinality(drivers) + Cardinality(waiting) <= 1 /\ \A a \in waiting : queued[e][a] = 1
    BY DEF OneDriver
  <2> DEFINE drivers == {w \in Worker : wexec[w] = e /\ wpc[w] # "release"}
             waiting == {a \in Attempts : queued[e][a] > 0}
  <2>1. Alone(e)
    BY DEF DriverInv
  <2>2. \A a \in Attempts : queued[e][a] \in {0, 1}
    BY <2>1 DEF Alone
  <2>3. \A a \in waiting : queued[e][a] = 1
    BY <2>2
  <2>4. (\A v, w \in drivers : v = w) /\ (\A a, b \in waiting : a = b) /\ (drivers = {} \/ waiting = {})
    BY <2>1, <2>2 DEF Alone, NoSlot, NoJob, Driving
  <2>5. drivers = {} \/ \E w : drivers = {w}
    BY <2>4
  <2>6. waiting = {} \/ \E a : waiting = {a}
    BY <2>4
  <2> HIDE DEF drivers, waiting
  <2>7. Cardinality(drivers) \in {0, 1} /\ (drivers = {} => Cardinality(drivers) = 0)
    BY <2>5, FS_EmptySet, FS_Singleton
  <2>8. Cardinality(waiting) \in {0, 1} /\ (waiting = {} => Cardinality(waiting) = 0)
    BY <2>6, FS_EmptySet, FS_Singleton
  <2>9. Cardinality(drivers) + Cardinality(waiting) <= 1
    BY <2>4, <2>7, <2>8
  <2> QED BY <2>3, <2>9 DEF drivers, waiting
<1> QED BY <1>1, DriverInvariance, PTL

\* Approvals and stage belong to the project; here one run is all there is of it.
OneRun == \A d, e \in Exec : d = e

\* What became of the cases' steps: past the design approval, past a grounding, past the data approval.
Covered == {"reviewed", "grounded", "accepted", "changed"}
Bound   == {"grounded", "accepted", "changed"}
Final   == {"accepted", "changed"}

AtStage(w, g) == wpc[w] \in {"work", "show", "busy", "drafted"} /\ wgate[w] = g

\* Nobody designs under an approval, and the data stage finds the cases grounded.
Designing == \A w \in Worker : AtStage(w, 1) => 1 \notin approved
DataStage == \A w \in Worker, e \in Exec : AtStage(w, LastReleased) => cases[e] \in Bound

\* So does the user who is asked to approve the data; an approval covers the cases there are.
CasesInv ==
  /\ 1 \in approved => \A e \in Exec : cases[e] \in Covered
  /\ \A d, e \in Exec : status[d] = "AWAITING" /\ gate[d] = LastReleased => cases[e] \in Bound
  /\ \A r \in Request, e \in Exec : rpc[r] = "grant" /\ rgate[r] = LastReleased => cases[e] \in Bound
  /\ LastReleased \in approved => \A e \in Exec : cases[e] \in Final

RunCases == DriverInv /\ Placed /\ Designing /\ DataStage /\ CasesInv

(* A slot comes to the stage of a released gate by the open gate, or from the grounding. *)
LEMMA StageEntry ==
  ASSUME TypeOK, SlotPlace, [Next]_vars, NEW v \in Worker, NEW g \in Released, AtStage(v, g)'
  PROVE  \/ AtStage(v, g)
         \/ LoadGates(v) /\ wgate[v] = g /\ g \notin approved /\ g # LastReleased
         \/ GroundCases(v) /\ wgate[v] = g
<1> SUFFICES ASSUME ~AtStage(v, g), ~LoadGates(v), ~GroundCases(v) PROVE FALSE
  <2>1. ASSUME LoadGates(v) PROVE wgate[v] = g /\ g \notin approved /\ g # LastReleased
    BY <2>1, ConstantsAssumption DEF LoadGates, Step, AtStage, TypeOK, SlotType, Gates
  <2>2. ASSUME GroundCases(v) PROVE wgate[v] = g
    BY <2>2 DEF GroundCases, AtStage
  <2> QED BY <2>1, <2>2
<1>2. ~(wpc'[v] = wpc[v] /\ wgate'[v] = wgate[v])
  BY DEF AtStage
<1>3. ASSUME NEW w \in Worker, PassGate(w), wgate[w] \in Held PROVE FALSE
  <2>1. wgate[w] + 1 # g
    BY <1>3, ConstantsAssumption DEF Held, Login, Released
  <2> QED BY <1>2, <1>3, <2>1 DEF PassGate, Step, AtStage, TypeOK, SlotType
<1>4. ASSUME NEW w \in Worker, FreeSlot(w) PROVE FALSE
  BY <1>2, <1>4 DEF FreeSlot, AtStage, TypeOK, SlotType
<1>5. ASSUME NEW w \in Worker, NEW pc, Step(w, pc), UNCHANGED wgate, pc \notin {"work", "show", "busy", "drafted"} PROVE FALSE
  BY <1>2, <1>5 DEF Step, AtStage, TypeOK, SlotType
<1>6. ASSUME NEW w \in Worker, wpc[w] \in {"work", "show", "busy"}, NEW pc, Step(w, pc), UNCHANGED wgate PROVE FALSE
  BY <1>2, <1>6 DEF Step, AtStage, TypeOK, SlotType
<1>7. ASSUME NEW w \in Worker, LoadGates(w) \/ GroundCases(w) PROVE FALSE
  BY <1>2, <1>7 DEF LoadGates, GroundCases, Step, TypeOK, SlotType
<1>8. ASSUME NEW w \in Worker, ClaimAny(w) PROVE FALSE
  BY <1>5, <1>8 DEF ClaimAny, Claim
<1>9. ASSUME NEW w \in Worker, Drive(w) \/ RunAgent(w) PROVE FALSE
  <2>2. CASE ReadRow(w) \/ StartRun(w) \/ OpenContext(w) \/ RunAgent(w) \/ Release(w) \/ LaunchBrowser(w)
             \/ CloseProject(w) \/ Complete(w) \/ EndJob(w) \/ StopRun(w)
    BY <1>2, <1>4, <1>5, <2>2
       DEF ReadRow, StartRun, OpenContext, RunAgent, Release, LaunchBrowser, CloseProject, Complete, EndJob, StopRun, slots
  <2>3. CASE EnterStage(w) \/ ShowStage(w) \/ WriteCases(w)
    BY <1>6, <2>3 DEF EnterStage, ShowStage, WriteCases
  <2>4. CASE Ask(w)
    <3>1. UNCHANGED wgate /\ Step(w, CASE wgate[w] \in Released -> "release" [] wgate[w] = Login -> "launch" [] OTHER -> "check")
      BY <2>4 DEF Ask
    <3>2. Login \notin Released
      BY GateRanges
    <3> QED BY <1>5, <3>1, <3>2
  <2>5. CASE CheckFlags(w) \/ Poll(w) \/ TakeMessage(w)
    <3>1. wgate[w] \in Held
      BY <2>5 DEF CheckFlags, Poll, TakeMessage, SlotPlace, AtHeldGate
    <3> QED BY <1>3, <1>5, <2>5, <3>1 DEF CheckFlags, Poll, TakeMessage
  <2> QED BY <1>7, <1>9, <2>2, <2>3, <2>4, <2>5 DEF Drive
<1>10. ASSUME NEW w \in Worker, Throw(w) \/ ThrowUnrecorded(w) \/ WaitTimeout(w) \/ Crash(w) PROVE FALSE
  BY <1>4, <1>10 DEF Throw, ThrowUnrecorded, WaitTimeout, FailRun, Crash
<1>11. ASSUME NEW r \in Request, Publish(r) PROVE FALSE
  BY <1>2, <1>11 DEF Publish, AtStage, TypeOK, SlotType
<1>12. ASSUME UNCHANGED slots PROVE FALSE
  BY <1>2, <1>12 DEF slots
<1>13. ASSUME NEW r \in Request, User(r) \/ Handle(r) \/ HandlerDies(r) PROVE FALSE
  BY <1>11, <1>12, <1>13 DEF User, BeginApprove, BeginContinue, BeginCancel, Begin, Handle, Grant, Mark, Signal,
     SignalByJob, SignalByFlag, HandlerDies
<1>14. ASSUME NEW e \in Exec, FlagExpires(e) \/ EditCases(e) PROVE FALSE
  BY <1>12, <1>14 DEF FlagExpires, EditCases
<1>15. CASE UNCHANGED vars
  BY <1>12, <1>15 DEF vars
<1> QED BY <1>8, <1>9, <1>10, <1>13, <1>14, <1>15 DEF Next

(* Only design takes a text back; the other steps leave the cases as they are or bring them on. *)
LEMMA CasesMove ==
  ASSUME TypeOK, [Next]_vars, NEW e \in Exec
  PROVE  \/ cases'[e] = cases[e]
         \/ cases[e] = "reviewed" /\ cases'[e] = "grounded"
         \/ cases[e] \in Covered /\ cases'[e] = "changed"
         \/ \E r \in Request : Grant(r) /\ cases'[e] = Approved(cases[e], rgate[r])
         \/ \E w \in Worker : WriteCases(w)
<1>1. ASSUME NEW w \in Worker, GroundCases(w)
      PROVE  cases'[e] = cases[e] \/ (cases[e] = "reviewed" /\ cases'[e] = "grounded")
  BY <1>1 DEF GroundCases, TypeOK, ProjectType
<1>2. ASSUME NEW w \in Worker,
             ClaimAny(w) \/ Drive(w) \/ RunAgent(w) \/ Throw(w) \/ ThrowUnrecorded(w) \/ WaitTimeout(w) \/ Crash(w)
      PROVE  GroundCases(w) \/ WriteCases(w) \/ UNCHANGED cases
  BY <1>2 DEF ClaimAny, Claim, Drive, ReadRow, StartRun, OpenContext, LoadGates, EnterStage, ShowStage, RunAgent, Ask, Release,
     LaunchBrowser, CheckFlags, Poll, TakeMessage, CloseProject, Complete, EndJob, StopRun, Throw, ThrowUnrecorded,
     WaitTimeout, FailRun, Crash
<1>3. ASSUME NEW r \in Request, Grant(r) PROVE cases'[e] \in {cases[e], Approved(cases[e], rgate[r])}
  BY <1>3 DEF Grant, TypeOK, ProjectType
<1>4. ASSUME NEW r \in Request, User(r) \/ Handle(r) \/ HandlerDies(r) PROVE Grant(r) \/ UNCHANGED cases
  BY <1>4 DEF User, BeginApprove, BeginContinue, BeginCancel, Begin, Handle, Mark, Signal, SignalByJob, SignalByFlag,
     Publish, HandlerDies
<1>5. ASSUME NEW d \in Exec, FlagExpires(d) \/ EditCases(d)
      PROVE  cases'[e] = cases[e] \/ (cases[e] \in Covered /\ cases'[e] = "changed")
  BY <1>5 DEF FlagExpires, EditCases, Covered, TypeOK, ProjectType
<1>6. CASE UNCHANGED vars
  BY <1>6 DEF vars
<1> QED BY <1>1, <1>2, <1>3, <1>4, <1>5, <1>6 DEF Next

(* An approval brings the cases on as well. *)
LEMMA ApprovedText ==
  ASSUME NEW c \in CaseTexts, NEW g
  PROVE  /\ c \in Covered => Approved(c, g) \in Covered
         /\ c \in Bound => Approved(c, g) \in Bound
         /\ c \in Final => Approved(c, g) \in Final
         /\ g = 1 => Approved(c, g) \in Covered
         /\ g = LastReleased /\ c \in Bound => Approved(c, g) \in Final
<1>1. LastReleased # 1
  BY ConstantsAssumption
<1>2. CASE g = 1 /\ c \in {"none", "draft"}
  <2>1. Approved(c, g) = "reviewed"
    BY <1>1, <1>2 DEF Approved
  <2> QED BY <1>1, <1>2, <2>1 DEF Covered, Bound, Final
<1>3. CASE g = LastReleased /\ c = "grounded"
  <2>1. Approved(c, g) = "accepted"
    BY <1>1, <1>3 DEF Approved
  <2> QED BY <1>1, <1>3, <2>1 DEF Covered, Bound, Final
<1>4. CASE ~(g = 1 /\ c \in {"none", "draft"}) /\ ~(g = LastReleased /\ c = "grounded")
  <2>1. Approved(c, g) = c
    BY <1>4 DEF Approved
  <2> QED BY <1>4, <2>1 DEF Covered, Bound, Final, CaseTexts
<1> QED BY <1>2, <1>3, <1>4

(* While design writes the cases nothing is approved, asked or grounded. *)
LEMMA WritingCases ==
  ASSUME OneRun, RunCases, NEW w \in Worker, WriteCases(w)
  PROVE  /\ \A g \in Released : g \notin approved
         /\ \A d \in Exec : ~(status[d] = "AWAITING" /\ gate[d] = LastReleased)
         /\ \A r \in Request : ~(rpc[r] = "grant" /\ rgate[r] = LastReleased)
         /\ \A v \in Worker : ~AtStage(v, LastReleased)
<1>1. 1 \notin approved /\ LastReleased \in Released /\ 1 < LastReleased
  BY ConstantsAssumption DEF WriteCases, RunCases, Designing, AtStage, Released
<1>2. \A g \in Released : g \notin approved
  BY <1>1, ConstantsAssumption DEF RunCases, DriverInv, IInv, GateOrder, Cleared, Released
<1>3. PICK e \in Exec : Driving(w, e)
  BY DEF WriteCases, Driving, RunCases, DriverInv, IInv, TypeOK, SlotType
<1>4. ~AtReleased(e) /\ \A r \in Request : ~Resuming(r, e)
  BY <1>3, DriverAlone DEF RunCases, DriverInv
<1>5. ASSUME NEW r \in Request, rpc[r] = "grant", rgate[r] = LastReleased PROVE FALSE
  <2>1. rexec[r] = e /\ rop[r] = "approve"
    BY <1>5 DEF OneRun, RunCases, DriverInv, Approving, IInv, TypeOK, RequestType
  <2> QED BY <1>1, <1>4, <1>5, <2>1 DEF Resuming
<1>6. ASSUME NEW d \in Exec, status[d] = "AWAITING", gate[d] = LastReleased PROVE FALSE
  BY <1>1, <1>4, <1>6 DEF OneRun, AtReleased
<1>7. ASSUME NEW v \in Worker, AtStage(v, LastReleased) PROVE FALSE
  <2>1. Cleared(wgate[v])
    BY DEF RunCases, DriverInv, IInv, GateOrder
  <2> QED BY <1>1, <1>7, <2>1, GateRanges DEF AtStage, Cleared
<1> QED BY <1>2, <1>5, <1>6, <1>7

(* Otherwise what was approved, or grounded, stays so. *)
LEMMA CasesStay ==
  ASSUME TypeOK, [Next]_vars, \A w \in Worker : ~WriteCases(w), NEW e \in Exec
  PROVE  /\ cases[e] \in Covered => cases'[e] \in Covered
         /\ cases[e] \in Bound => cases'[e] \in Bound
         /\ cases[e] \in Final => cases'[e] \in Final
<1>1. cases[e] \in CaseTexts
  BY DEF TypeOK, ProjectType
<1>2. CASE cases'[e] = cases[e] \/ (cases[e] = "reviewed" /\ cases'[e] = "grounded")
           \/ (cases[e] \in Covered /\ cases'[e] = "changed")
  BY <1>2 DEF Covered, Bound, Final
<1>3. CASE \E r \in Request : cases'[e] = Approved(cases[e], rgate[r])
  BY <1>1, <1>3, ApprovedText
<1> QED BY <1>2, <1>3, CasesMove

(* The stages that write or read the cases keep to their order. *)
LEMMA StagesKeepCases ==
  ASSUME OneRun, RunCases, [Next]_vars
  PROVE  Designing' /\ DataStage'
<1>1. TypeOK /\ SlotPlace /\ Placed /\ 1 \in Released /\ LastReleased \in Released /\ LastReleased # 1
  BY ConstantsAssumption DEF RunCases, DriverInv, IInv, Released
<1>2. Designing'
  <2> SUFFICES ASSUME NEW v \in Worker, AtStage(v, 1)', 1 \in approved' PROVE FALSE
    BY DEF Designing
  <2>1. AtStage(v, 1) \/ (LoadGates(v) /\ 1 \notin approved)
    <3>1. GroundCases(v) => wgate[v] # 1
      BY <1>1, ConstantsAssumption DEF GroundCases, Placed, Login
    <3> QED BY <1>1, <3>1, StageEntry
  <2>2. AtStage(v, 1) => 1 \notin approved
    BY DEF RunCases, Designing
  <2>3. PICK r \in Request : Grant(r) /\ rgate[r] = 1
    <3>1. approved' # approved
      BY <2>1, <2>2
    <3>2. PICK r \in Request : Grant(r)
      BY <1>1, <3>1, StepMoves DEF Moves
    <3> QED BY <2>1, <2>2, <3>2 DEF Grant
  <2>4. rpc[r] = "grant" /\ rexec[r] \in Exec /\ rop[r] = "approve"
    BY <1>1, <2>3 DEF Grant, RunCases, DriverInv, Approving, TypeOK, RequestType
  <2>5. NoSlot(rexec[r])
    BY <1>1, <2>3, <2>4 DEF RunCases, DriverInv, Parked, Resuming
  <2>6. wexec[v] = rexec[r] /\ wpc[v] \in {"work", "show", "busy", "drafted"}
    <3>1. wpc'[v] = wpc[v] /\ wgate'[v] = wgate[v]
      BY <2>3 DEF Grant, slots
    <3>2. wpc[v] \in {"work", "show", "busy", "drafted"}
      BY <3>1 DEF AtStage
    <3> QED BY <1>1, <2>4, <3>2 DEF OneRun, TypeOK, SlotType
  <2> QED BY <2>5, <2>6 DEF NoSlot, Driving
<1>3. DataStage'
  <2> SUFFICES ASSUME NEW v \in Worker, NEW e \in Exec, AtStage(v, LastReleased)' PROVE cases'[e] \in Bound
    BY DEF DataStage
  <2>1. CASE AtStage(v, LastReleased)
    <3>1. cases[e] \in Bound /\ \A w \in Worker : ~WriteCases(w)
      BY <2>1, WritingCases DEF RunCases, DataStage
    <3> QED BY <1>1, <3>1, CasesStay
  <2>2. CASE GroundCases(v) /\ wgate[v] = LastReleased
    <3>1. 1 \in approved
      BY <1>1, <2>2, GateRanges, ConstantsAssumption DEF RunCases, DriverInv, IInv, GateOrder, Cleared
    <3>2. cases[e] \in Covered
      BY <3>1 DEF RunCases, CasesInv
    <3>3. cases'[e] = IF cases[e] = "reviewed" THEN "grounded" ELSE cases[e]
      BY <1>1, <2>2 DEF GroundCases, OneRun, TypeOK, SlotType, ProjectType
    <3> QED BY <3>2, <3>3 DEF Covered, Bound
  <2> QED BY <1>1, <2>1, <2>2, StageEntry
<1> QED BY <1>2, <1>3

(* The data gate is asked with the cases grounded, and approved so. *)
LEMMA CasesStep ==
  ASSUME OneRun, RunCases, [Next]_vars
  PROVE  CasesInv'
<1>1. TypeOK /\ SlotPlace /\ Placed /\ 1 \in Released /\ LastReleased \in Released /\ LastReleased # 1 /\ LastReleased # Login
  BY ConstantsAssumption DEF RunCases, DriverInv, IInv, Released, Login
<1>2. ASSUME NEW w \in Worker, WriteCases(w) PROVE CasesInv'
  <2>1. UNCHANGED <<approved, row, requests>>
    BY <1>2 DEF WriteCases, project
  <2> QED BY <1>1, <1>2, <2>1, WritingCases DEF CasesInv, row, requests
<1>3. ASSUME \A w \in Worker : ~WriteCases(w) PROVE CasesInv'
  <2>1. \A e \in Exec : /\ cases[e] \in Covered => cases'[e] \in Covered
                        /\ cases[e] \in Bound => cases'[e] \in Bound
                        /\ cases[e] \in Final => cases'[e] \in Final
    BY <1>1, <1>3, CasesStay
  <2>2. ASSUME NEW new, RowMoves(new), RequestMoves, LastReleased \in new => \A e \in Exec : cases[e] \in Bound
        PROVE  /\ \A d, e \in Exec : status'[d] = "AWAITING" /\ gate'[d] = LastReleased => cases'[e] \in Bound
               /\ \A r \in Request, e \in Exec : rpc'[r] = "grant" /\ rgate'[r] = LastReleased => cases'[e] \in Bound
    <3>1. ASSUME NEW d \in Exec, NEW e \in Exec, status'[d] = "AWAITING", gate'[d] = LastReleased PROVE cases'[e] \in Bound
      BY <2>1, <2>2, <3>1 DEF RowMoves, RunCases, CasesInv
    <3>2. ASSUME NEW r \in Request, NEW e \in Exec, rpc'[r] = "grant", rgate'[r] = LastReleased PROVE cases'[e] \in Bound
      <4>1. (rpc[r] = "grant" /\ rgate[r] = LastReleased) \/ \E d \in Exec : status[d] = "AWAITING" /\ gate[d] = LastReleased
        BY <2>2, <3>2 DEF RequestMoves
      <4> QED BY <2>1, <4>1 DEF RunCases, CasesInv
    <3> QED BY <3>1, <3>2
  <2>3. ASSUME NEW new, Moves(new), LastReleased \in new => \A e \in Exec : cases[e] \in Bound PROVE CasesInv'
    BY <2>1, <2>2, <2>3 DEF Moves, RunCases, CasesInv
  <2>4. CASE Moves({})
    BY <2>3, <2>4
  <2>5. ASSUME NEW w \in Worker, Ask(w), Moves({wgate[w]}) PROVE CasesInv'
    <3>1. wgate[w] = LastReleased => AtStage(w, LastReleased)
      BY <1>1, <2>5 DEF Ask, StageDone, AtStage
    <3> QED BY <2>3, <2>5, <3>1 DEF RunCases, DataStage
  <2>6. CASE Moves({Login})
    BY <1>1, <2>3, <2>6
  <2>7. ASSUME NEW r \in Request, Grant(r), RowMoves({}), RequestMoves PROVE CasesInv'
    <3>1. approved' = approved \union {rgate[r]} /\ rpc[r] = "grant" /\ rexec[r] \in Exec
      BY <1>1, <2>7 DEF Grant, TypeOK, RequestType
    <3>2. \A e \in Exec : cases[e] \in CaseTexts /\ cases'[e] = Approved(cases[e], rgate[r])
      BY <1>1, <2>7, <3>1 DEF Grant, OneRun, TypeOK, ProjectType
    <3>3. rgate[r] = 1 => \A e \in Exec : cases'[e] \in Covered
      BY <3>2, ApprovedText
    <3>4. rgate[r] = LastReleased => \A e \in Exec : cases'[e] \in Final
      BY <3>1, <3>2, ApprovedText DEF RunCases, CasesInv
    <3>5. 1 \in approved' => \A e \in Exec : cases'[e] \in Covered
      BY <2>1, <3>1, <3>3 DEF RunCases, CasesInv
    <3>6. LastReleased \in approved' => \A e \in Exec : cases'[e] \in Final
      BY <2>1, <3>1, <3>4 DEF RunCases, CasesInv
    <3> QED BY <2>2, <2>7, <3>5, <3>6 DEF CasesInv
  <2> QED BY <1>1, <2>4, <2>5, <2>6, <2>7, StepMoves
<1> QED BY <1>2, <1>3

(* No slot is past the design gate with cases that design wrote again, nor past the data gate *)
(* with steps that the run's own grounding changed after they were approved there.            *)
THEOREM CasesApproved == ASSUME Orderly, OneRun PROVE Spec => []ExecutedCasesApproved
<1>1. Init => Placed /\ Designing /\ DataStage /\ CasesInv
  BY PlacesInit DEF Init, Places, Designing, DataStage, CasesInv, AtStage
<1>2. RunCases /\ [Next]_vars => Placed' /\ Designing' /\ DataStage' /\ CasesInv'
  BY PlacedStep, StagesKeepCases, CasesStep DEF RunCases, DriverInv, IInv
<1>3. DriverInv /\ Placed /\ Designing /\ DataStage /\ CasesInv <=> RunCases
  BY DEF RunCases
<1>4. RunCases => ExecutedCasesApproved
  <2> SUFFICES ASSUME RunCases, NEW w \in Worker, wpc[w] # "idle"
               PROVE  /\ wgate[w] > 1 => cases[wexec[w]] \in Covered
                      /\ wgate[w] > LastReleased => cases[wexec[w]] \in Final
    BY DEF ExecutedCasesApproved, Covered, Final
  <2>1. wexec[w] \in Exec /\ Cleared(wgate[w])
    BY DEF RunCases, DriverInv, IInv, TypeOK, SlotType, GateOrder
  <2>2. 1 \in Released /\ LastReleased \in Released
    BY ConstantsAssumption DEF Released
  <2>3. (wgate[w] > 1 => 1 \in approved) /\ (wgate[w] > LastReleased => LastReleased \in approved)
    BY <2>1, <2>2 DEF Cleared
  <2> QED BY <2>1, <2>3 DEF RunCases, CasesInv
<1> QED BY <1>1, <1>2, <1>3, <1>4, DriverInvariance, PTL DEF Spec

-----------------------------------------------------------------------------
(* The stage of a project with one run *)

\* A user who hurries leaves a continue-flag behind, and an approval by a slow handler may then
\* meet a slot that is a gate too far.  Either alone does no harm to the stage.
Steady == Orderly /\ ("slow" \notin Hazards \/ "impatient" \notin Hazards)

Patient == "impatient" \notin Hazards
AtHeld(e) == status[e] = "AWAITING" /\ gate[e] \in Held

\* Answers on their way to a slot, by what is left of them to do.
Pending(e) ==
  \E r \in Request : Answering(r, e) /\ rpc[r] \in {"grant", "mark", "signal"} /\ ~Resuming(r, e)
Signalling(e) == \E r \in Request : Answering(r, e) /\ rpc[r] = "signal"
Publishing(e) == \E r \in Request : Answering(r, e) /\ rpc[r] = "publish"

\* The slot of a row that awaits a held gate is at that gate or has just passed it.
Follows(w, g) ==
  \/ wgate[w] = g /\ wpc[w] \in {"launch", "check", "wait", "woken", "stopped", "cancelled", "closing", "done"}
  \/ wgate[w] = g + 1 /\ wpc[w] = "work"

\* A stage that was entered, and a run that was completed, took the row from its gate.
OnRow(w, e) ==
  /\ AtHeld(e) => Follows(w, gate[e])
  /\ wpc[w] \in {"show", "ended"} => status[e] # "AWAITING"

\* Nobody works on the stage of a released gate that is approved.
AtOpen(w) == wpc[w] \in {"ground", "work", "show", "busy", "drafted"} /\ wgate[w] \in Released => wgate[w] \notin approved

\* A stage past execution approval is shown when it is entered, the ones before it earlier.
Entering(w) == wpc[w] \in {"work", "show"} /\ wgate[w] > Login + 1
ShownSlot(w) == ~Entering(w) => stage >= StageOf(wgate[w])

\* Where users are patient, a slot takes its continue-flag at the gate it was set for.
Spare == {"check", "woken", "stopped", "cancelled"}

FlagInPlace(w, e) ==
  /\ Pending(e) /\ contFlag[e] => wpc[w] \in Spare
  /\ Signalling(e) /\ AtHeld(e) => ~contFlag[e] /\ wgate[w] = gate[e] /\ wpc[w] \notin {"woken", "closing", "done"}
  /\ wpc[w] = "wait" /\ contFlag[e] => Publishing(e)
  /\ AtHeld(e) /\ contFlag[e] => wpc[w] \notin {"work", "closing", "done"}

\* A slot is at most one gate past the one that is about to be granted.
Near(w, r) ==
  \/ wgate[w] <= rgate[r]
  \/ /\ wgate[w] = rgate[r] + 1
     /\ "slow" \in Hazards => ~contFlag[rexec[r]] /\ wpc[w] # "woken"
     /\ "slow" \notin Hazards => wpc[w] \in {"work", "show", "busy"}

SlotInv(w, e) ==
  /\ OnRow(w, e) /\ AtOpen(w) /\ ShownSlot(w)
  /\ Patient => FlagInPlace(w, e)
  /\ \A r \in Request : rexec[r] = e /\ rpc[r] = "grant" => Near(w, r)

\* A released gate that is asked, or about to be granted, is not approved.
Unreviewed(e) ==
  /\ AtReleased(e) /\ gate[e] \in approved => \E r \in Request : Answering(r, e) /\ rpc[r] = "mark"
  /\ \A r \in Request : rexec[r] = e /\ rpc[r] = "grant" /\ rgate[r] \in Released => rgate[r] \notin approved

\* The row is not ahead of the stage, nor more than one gate ahead of a grant.
ShownRow(e) == status[e] = "AWAITING" => stage >= StageOf(gate[e])
NextRow(e) ==
  \A r \in Request : rexec[r] = e /\ rpc[r] = "grant" /\ status[e] = "AWAITING" => gate[e] <= rgate[r] + 1

RowInv(e) ==
  /\ AtHeld(e) => ~NoSlot(e)
  /\ Patient /\ Pending(e) /\ contFlag[e] => NoJob(e)
  /\ Unreviewed(e) /\ ShownRow(e) /\ NextRow(e)

ShownApproved == \A g \in Released : g \in approved => stage >= StageOf(g + 1)

Stages ==
  /\ ShownApproved
  /\ \A e \in Exec : RowInv(e) /\ \A w \in Worker : Driving(w, e) => SlotInv(w, e)

StageInv == DriverInv /\ Placed /\ Stages

(* Later gates are not shown under earlier stages. *)
LEMMA StageOrder ==
  /\ \A g, h \in 0..(LastGate + 1) : g <= h => StageOf(g) <= StageOf(h)
  /\ StageOf(Login + 1) = Login /\ StageOf(Login) = Login /\ StageOf(1) = 1
  /\ \A g \in Gates : StageOf(g) <= LastGate /\ StageOf(g) \in Nat /\ StageOf(g + 1) \in Nat
  /\ \A g \in Released : StageOf(g + 1) <= Login
  /\ \A g \in Gates : g > Login => Login <= StageOf(g) /\ Login <= StageOf(g + 1)
BY ConstantsAssumption DEF StageOf, Gates, Login, Released

(* A slot that drives the one run is the only one at work, and leaves no released gate to answer. *)
LEMMA SoleSlot ==
  ASSUME OneRun, StageInv, NEW e \in Exec, NEW w \in Worker, Driving(w, e)
  PROVE  /\ wexec[w] = e /\ wpc[w] \notin {"idle", "release"}
         /\ NoJob(e) /\ ~AtReleased(e) /\ \A r \in Request : ~Resuming(r, e)
         /\ \A v \in Worker : v # w => wpc[v] \in {"idle", "release"}
         /\ \A r \in Request : rexec[r] = e /\ rpc[r] = "grant" => rgate[r] \in Held /\ rgate[r] > Login
         /\ SlotInv(w, e) /\ RowInv(e) /\ wgate[w] \in Gates
<1>1. NoJob(e) /\ ~AtReleased(e) /\ (\A r \in Request : ~Resuming(r, e)) /\ \A v \in Worker : Driving(v, e) => v = w
  BY DriverAlone DEF StageInv, DriverInv
<1>2. wexec[w] = e /\ wpc[w] \notin {"idle", "release"}
  BY ConstantsAssumption DEF Driving, StageInv, Placed
<1>3. ASSUME NEW v \in Worker, wpc[v] \notin {"idle", "release"} PROVE v = w
  <2>1. wexec[v] = e
    BY <1>3 DEF OneRun, StageInv, DriverInv, IInv, TypeOK, SlotType
  <2> QED BY <1>1, <1>3, <2>1 DEF Driving
<1>4. ASSUME NEW r \in Request, rexec[r] = e, rpc[r] = "grant" PROVE rgate[r] \in Held /\ rgate[r] > Login
  <2>1. rop[r] = "approve" /\ rgate[r] \in ApprovalGates
    BY <1>4 DEF StageInv, DriverInv, Approving, IInv, TypeOK, RequestType
  <2>2. rgate[r] \notin Released
    BY <1>1, <1>4, <2>1 DEF Resuming
  <2> QED BY <2>1, <2>2, ConstantsAssumption DEF ApprovalGates, Gates, Held, Released, Login
<1>5. SlotInv(w, e) /\ RowInv(e) /\ wgate[w] \in Gates
  BY DEF StageInv, Stages, DriverInv, IInv, TypeOK, SlotType
<1> QED BY <1>1, <1>2, <1>3, <1>4, <1>5

(* Nothing but the run's own parts is to be kept. *)
LEMMA OneRunStages ==
  ASSUME OneRun, NEW e \in Exec, ShownApproved', RowInv(e)', \A w \in Worker : Driving(w, e)' => SlotInv(w, e)'
  PROVE  Stages'
<1>1. \A d \in Exec : d = e
  BY DEF OneRun
<1>2. ASSUME NEW d \in Exec PROVE RowInv(d)' /\ \A w \in Worker : Driving(w, d)' => SlotInv(w, d)'
  BY <1>1
<1> QED BY <1>2 DEF Stages

(* A step of the driving slot after which it still drives. *)
LEMMA DriverMoves ==
  ASSUME OneRun, StageInv, NEW e \in Exec, NEW w \in Worker, Driving(w, e),
         UNCHANGED <<requests, queued, approved, wexec>>, contFlag'[e] => contFlag[e],
         \A v \in Worker : v # w => wpc'[v] = wpc[v],
         wpc'[w] # "release",
         \/ UNCHANGED row /\ stage' \in {stage, LastGate + 1}
         \/ status'[e] # "AWAITING"
         \/ gate'[e] = wgate'[w] /\ wgate'[w] \in Held /\ ~Entering(w)',
         SlotInv(w, e)', ShownApproved'
  PROVE  Stages'
<1>1. /\ wexec[w] = e /\ NoJob(e) /\ ~AtReleased(e) /\ RowInv(e)
      /\ \A v \in Worker : v # w => wpc[v] \in {"idle", "release"}
  BY SoleSlot
<1>2. ASSUME NEW v \in Worker, Driving(v, e)' PROVE v = w
  <2>1. ASSUME v # w, wpc[v] = "idle" PROVE FALSE
    BY <1>2, <2>1, ConstantsAssumption DEF Driving, StageInv, Placed
  <2> QED BY <1>1, <1>2, <2>1 DEF Driving
<1>3. ~NoSlot(e)' /\ NoJob(e)'
  BY <1>1 DEF NoSlot, NoJob, Driving
<1>4. Unreviewed(e)'
  <2>1. wgate'[w] \in Held => wgate'[w] \notin Released
    BY GateRanges
  <2>2. ~AtReleased(e)'
    BY <1>1, <2>1 DEF AtReleased, row
  <2> QED BY <1>1, <2>2 DEF RowInv, Unreviewed, requests
<1>5. ShownRow(e)'
  <2>1. CASE UNCHANGED row /\ stage' \in {stage, LastGate + 1}
    <3>1. gate[e] \in 0..LastGate
      BY DEF StageInv, DriverInv, IInv, TypeOK, RowType
    <3>2. StageOf(gate[e]) <= LastGate + 1
      BY <3>1, ConstantsAssumption DEF StageOf, Login
    <3> QED BY <1>1, <2>1, <3>2 DEF RowInv, ShownRow, row
  <2>2. CASE status'[e] # "AWAITING"
    BY <2>2 DEF ShownRow
  <2>3. CASE gate'[e] = wgate'[w] /\ ~Entering(w)'
    BY <2>3 DEF ShownRow, SlotInv, ShownSlot
  <2> QED BY <2>1, <2>2, <2>3
<1>6. NextRow(e)'
  <2> SUFFICES ASSUME NEW r \in Request, rexec'[r] = e, rpc'[r] = "grant", status'[e] = "AWAITING"
               PROVE  gate'[e] <= rgate'[r] + 1
    BY DEF NextRow
  <2>1. Near(w, r)'
    BY DEF SlotInv
  <2>2. rgate'[r] = rgate[r] /\ rgate[r] \in Nat /\ rpc[r] = "grant" /\ rexec[r] = e
    BY ConstantsAssumption DEF requests, StageInv, DriverInv, IInv, TypeOK, RequestType
  <2>3. CASE UNCHANGED row
    BY <1>1, <2>2, <2>3 DEF RowInv, NextRow, row
  <2>4. CASE gate'[e] = wgate'[w] /\ wgate'[w] \in Held
    <3>1. wgate'[w] \in Nat
      BY <2>4, GateRanges
    <3>2. wgate'[w] <= rgate'[r] \/ wgate'[w] = rgate'[r] + 1
      BY <2>1 DEF Near
    <3> QED BY <2>2, <2>4, <3>1, <3>2
  <2> QED BY <2>3, <2>4
<1>7. RowInv(e)'
  BY <1>3, <1>4, <1>5, <1>6 DEF RowInv
<1> QED BY <1>2, <1>7, OneRunStages

(* A step after which nobody drives: the slot ends its job, or asks at a released gate. *)
LEMMA DriverLeaves ==
  ASSUME OneRun, StageInv, NEW e \in Exec, NEW w \in Worker, Driving(w, e),
         UNCHANGED <<requests, approved, contFlag>>, UNCHANGED queued \/ wpc[w] \notin Spare,
         \A v \in Worker : v # w => wpc'[v] = wpc[v] /\ wexec'[v] = wexec[v],
         wpc'[w] = "release" \/ wexec'[w] = NoExec,
         \/ status'[e] # "AWAITING"
         \/ gate'[e] = wgate[w] /\ wgate[w] \in Released /\ wpc[w] \in {"busy", "drafted"} /\ UNCHANGED stage,
         ShownApproved'
  PROVE  Stages'
<1>1. /\ NoJob(e) /\ SlotInv(w, e) /\ RowInv(e)
      /\ \A v \in Worker : v # w => wpc[v] \in {"idle", "release"}
      /\ \A r \in Request : rexec[r] = e /\ rpc[r] = "grant" => rgate[r] > Login
  BY SoleSlot
<1>2. NoSlot(e)'
  BY <1>1, ConstantsAssumption DEF NoSlot, Driving, StageInv, Placed
<1>3. ~AtHeld(e)'
  BY GateRanges DEF AtHeld
<1>4. Patient /\ Pending(e)' /\ contFlag'[e] => NoJob(e)'
  <2>1. Pending(e)' => Pending(e)
    BY DEF Pending, Answering, Resuming, requests
  <2>2. CASE UNCHANGED queued
    BY <1>1, <2>2 DEF NoJob
  <2>3. CASE wpc[w] \notin Spare
    BY <1>1, <2>1, <2>3 DEF SlotInv, FlagInPlace
  <2> QED BY <2>2, <2>3
<1>5. Unreviewed(e)'
  <2>1. AtReleased(e)' => gate'[e] \notin approved
    BY <1>1 DEF AtReleased, SlotInv, AtOpen
  <2> QED BY <1>1, <2>1 DEF RowInv, Unreviewed, requests
<1>6. ShownRow(e)'
  BY <1>1 DEF ShownRow, SlotInv, ShownSlot, Entering
<1>7. NextRow(e)'
  <2> SUFFICES ASSUME NEW r \in Request, rexec'[r] = e, rpc'[r] = "grant", status'[e] = "AWAITING"
               PROVE  gate'[e] <= rgate'[r] + 1
    BY DEF NextRow
  <2>1. rgate'[r] = rgate[r] /\ rgate[r] \in Nat /\ rgate[r] > Login
    BY <1>1, ConstantsAssumption DEF requests, StageInv, DriverInv, IInv, TypeOK, RequestType
  <2>2. gate'[e] <= LastReleased
    BY DEF Released
  <2> QED BY <2>1, <2>2, ConstantsAssumption DEF Login, Released
<1> QED BY <1>2, <1>3, <1>4, <1>5, <1>6, <1>7, OneRunStages DEF RowInv, NoSlot

(* A step within the stages before a gate is asked. *)
LEMMA StageMove ==
  ASSUME OneRun, StageInv, NEW e \in Exec, NEW w \in Worker, Driving(w, e), wpc[w] \in AtWork, wpc'[w] \in AtWork,
         UNCHANGED <<requests, queued, approved, wexec, contFlag>>,
         \A v \in Worker : v # w => wpc'[v] = wpc[v],
         \/ status'[e] # "AWAITING"
         \/ UNCHANGED <<row, stage>> /\ (wpc[w] = "work" => wgate[w] \in Released),
         \/ wgate'[w] \in 1..Login
         \/ wgate'[w] = wgate[w] /\ {wpc[w], wpc'[w]} \subseteq {"work", "show", "busy"},
         wpc'[w] = "show" => status'[e] # "AWAITING", AtOpen(w)', ShownSlot(w)', ShownApproved'
  PROVE  Stages'
<1>1. /\ SlotInv(w, e) /\ wexec[w] = e
      /\ \A r \in Request : rexec[r] = e /\ rpc[r] = "grant" => rgate[r] \in Held /\ rgate[r] > Login
  BY SoleSlot
<1>2. wpc[w] \notin {"launch", "check", "wait", "woken", "stopped", "cancelled", "closing", "done"}
      /\ wpc'[w] \notin {"wait", "woken", "release", "ended"}
  BY DEF AtWork
<1>3. ~AtHeld(e)'
  <2>1. ASSUME AtHeld(e), wgate[w] \in Released PROVE wpc[w] # "work"
    <3>1. gate[e] \in Held
      BY <2>1 DEF AtHeld
    <3> QED BY <1>1, <1>2, <2>1, <3>1, ConstantsAssumption DEF SlotInv, OnRow, Follows, Held, Released, Login
  <2>2. AtHeld(e) => wpc[w] = "work"
    BY <1>1, <1>2 DEF SlotInv, OnRow, Follows
  <2> QED BY <2>1, <2>2 DEF AtHeld, row
<1>4. Patient => FlagInPlace(w, e)'
  <2>1. Pending(e)' <=> Pending(e)
    BY DEF Pending, Answering, Resuming, requests
  <2> QED BY <1>1, <1>2, <1>3, <2>1 DEF SlotInv, FlagInPlace, Spare
<1>5. ASSUME NEW r \in Request, rexec'[r] = e, rpc'[r] = "grant" PROVE Near(w, r)'
  <2>1. /\ rexec[r] = e /\ rpc[r] = "grant" /\ rgate'[r] = rgate[r] /\ rexec'[r] = rexec[r]
        /\ rgate[r] > Login /\ rgate[r] \in Nat /\ Login \in Nat
    BY <1>1, <1>5, ConstantsAssumption DEF requests, Login, StageInv, DriverInv, IInv, TypeOK, RequestType
  <2>2. CASE wgate'[w] \in 1..Login
    BY <2>1, <2>2 DEF Near
  <2>3. CASE wgate'[w] = wgate[w] /\ {wpc[w], wpc'[w]} \subseteq {"work", "show", "busy"}
    <3>1. Near(w, r)
      BY <1>1, <2>1 DEF SlotInv
    <3> QED BY <1>2, <2>1, <2>3, <3>1 DEF Near
  <2> QED BY <2>2, <2>3
<1>6. SlotInv(w, e)'
  BY <1>2, <1>3, <1>4, <1>5 DEF SlotInv, OnRow
<1> QED BY <1>2, <1>6, DriverMoves DEF Driving

(* The stages before the first gate that is asked are shown when they are loaded. *)
LEMMA OpenStages ==
  ASSUME OneRun, StageInv, NEW e \in Exec, NEW w \in Worker, Driving(w, e),
         ReadRow(w) \/ StartRun(w) \/ OpenContext(w) \/ LoadGates(w) \/ GroundCases(w)
  PROVE  Stages'
<1>1. /\ SlotInv(w, e) /\ wexec[w] = e /\ wgate[w] \in Gates /\ wpc[w] \in AtWork /\ wpc[w] \notin {"work", "show"}
      /\ wgate[w] \in 1..Login /\ (wpc[w] # "ground" => wgate[w] \in Released)
  <2>1. wpc[w] \in Early \union {"gates", "ground"} /\ wpc[w] \in AtWork /\ wpc[w] \notin {"work", "show"}
    BY DEF ReadRow, StartRun, OpenContext, LoadGates, GroundCases, Early, AtWork
  <2>2. wpc[w] # "ground" => wgate[w] \in Released
    BY <2>1, GateRanges DEF StageInv, DriverInv, IInv, SlotPlace
  <2>3. wpc[w] = "ground" => wgate[w] \in {LastReleased, Login}
    BY DEF StageInv, Placed
  <2> QED BY <2>1, <2>2, <2>3, SoleSlot, ConstantsAssumption DEF Released, Login
<1>2. /\ UNCHANGED <<project, flags, queued, requests>>
      /\ \A v \in Worker : v # w => wpc'[v] = wpc[v] /\ wexec'[v] = wexec[v]
  BY DEF ReadRow, StartRun, OpenContext, LoadGates, GroundCases, FreeSlot, Step, StageInv, DriverInv, IInv, TypeOK, SlotType
<1>3. UNCHANGED <<approved, stage, contFlag>> /\ ShownApproved'
  BY <1>2 DEF project, flags, StageInv, Stages, ShownApproved
<1>4. ShownSlot(w) /\ stage >= StageOf(wgate[w])
  BY <1>1 DEF SlotInv, ShownSlot, Entering
<1>5. ASSUME NEW pc \in {"init", "context", "gates"}, Step(w, pc), UNCHANGED <<wgate, wexec>>,
             UNCHANGED row \/ SetStatus(e, "RUNNING")
      PROVE  Stages'
  <2>1. wpc'[w] = pc
    BY <1>5 DEF Step, StageInv, DriverInv, IInv, TypeOK, SlotType
  <2>2. UNCHANGED row \/ status'[e] # "AWAITING"
    BY <1>5 DEF SetStatus, StageInv, DriverInv, IInv, TypeOK, RowType
  <2>3. AtOpen(w)' /\ ShownSlot(w)'
    BY <1>3, <1>4, <1>5, <2>1 DEF AtOpen, ShownSlot
  <2>4. wpc'[w] \in AtWork /\ wpc'[w] # "show"
    BY <1>5, <2>1 DEF AtWork
  <2> QED BY <1>1, <1>2, <1>3, <1>5, <2>1, <2>2, <2>3, <2>4, StageMove
<1>6. CASE ReadRow(w)
  <2>1. CASE FreeSlot(w)
    <3>1. wexec'[w] = NoExec /\ status'[e] # "AWAITING"
      BY <1>1, <1>6, <2>1 DEF ReadRow, FreeSlot, Step, row, StageInv, DriverInv, IInv, TypeOK, SlotType
    <3> QED BY <1>2, <1>3, <3>1, DriverLeaves
  <2>2. CASE ~FreeSlot(w)
    BY <1>5, <1>6, <2>2 DEF ReadRow
  <2> QED BY <2>1, <2>2
<1>7. CASE StartRun(w)
  BY <1>1, <1>5, <1>7 DEF StartRun
<1>8. CASE OpenContext(w)
  BY <1>5, <1>8 DEF OpenContext
<1>9. CASE LoadGates(w)
  <2>1. wpc'[w] \in AtWork \ {"show"} /\ UNCHANGED <<row, wexec>> /\ wgate[w] \in Released
    BY <1>1, <1>9 DEF LoadGates, Step, AtWork, StageInv, DriverInv, IInv, TypeOK, SlotType
  <2>2. CASE wgate[w] \in approved
    <3>1. wpc'[w] = (IF wgate[w] = LastReleased THEN "ground" ELSE "gates") /\ wgate'[w] = wgate[w] + 1
      BY <1>9, <2>2 DEF LoadGates, Step, StageInv, DriverInv, IInv, TypeOK, SlotType
    <3>2. wgate'[w] \in 1..Login /\ (wgate[w] = LastReleased => wgate'[w] \notin Released)
      BY <2>1, <3>1, ConstantsAssumption DEF Released, Login
    <3>3. stage >= StageOf(wgate[w] + 1)
      BY <2>1, <2>2 DEF StageInv, Stages, ShownApproved
    <3>4. AtOpen(w)' /\ ShownSlot(w)'
      BY <1>3, <3>1, <3>2, <3>3 DEF AtOpen, ShownSlot
    <3> QED BY <1>1, <1>2, <1>3, <2>1, <3>2, <3>4, StageMove
  <2>3. CASE wgate[w] \notin approved
    <3>1. wpc'[w] \in {"ground", "work"} /\ wgate'[w] = wgate[w]
      BY <1>9, <2>3 DEF LoadGates, Step, StageInv, DriverInv, IInv, TypeOK, SlotType
    <3>2. AtOpen(w)' /\ ShownSlot(w)'
      BY <1>3, <1>4, <2>3, <3>1 DEF AtOpen, ShownSlot
    <3> QED BY <1>1, <1>2, <1>3, <2>1, <3>1, <3>2, StageMove
  <2> QED BY <2>2, <2>3
<1>10. CASE GroundCases(w)
  <2>1. wpc[w] = "ground" /\ wpc'[w] = "work" /\ wpc'[w] \in AtWork /\ UNCHANGED <<row, wexec, wgate>>
    BY <1>10 DEF GroundCases, Step, AtWork, StageInv, DriverInv, IInv, TypeOK, SlotType
  <2>2. AtOpen(w)' /\ ShownSlot(w)'
    BY <1>1, <1>3, <1>4, <2>1 DEF SlotInv, AtOpen, ShownSlot
  <2> QED BY <1>1, <1>2, <1>3, <2>1, <2>2, StageMove
<1> QED BY <1>6, <1>7, <1>8, <1>9, <1>10

(* A stage at work leaves its gate open, and is shown when it is entered. *)
LEMMA WorkStages ==
  ASSUME OneRun, StageInv, NEW e \in Exec, NEW w \in Worker, Driving(w, e),
         EnterStage(w) \/ ShowStage(w) \/ RunAgent(w) \/ WriteCases(w)
  PROVE  Stages'
<1>1. /\ SlotInv(w, e) /\ wexec[w] = e /\ wgate[w] \in Gates
      /\ wpc[w] \in {"work", "show", "busy"} /\ wpc[w] \in AtWork
  BY SoleSlot DEF EnterStage, ShowStage, RunAgent, WriteCases, AtWork
<1>2. /\ UNCHANGED <<approved, contFlag, queued, requests, wgate, wexec>>
      /\ \A v \in Worker : v # w => wpc'[v] = wpc[v]
      /\ wpc'[w] \in {"show", "busy", "drafted"} /\ wpc'[w] \in AtWork
  BY <1>1 DEF EnterStage, ShowStage, RunAgent, WriteCases, Step, project, flags, slots, AtWork,
     StageInv, DriverInv, IInv, TypeOK, SlotType
<1>3. AtOpen(w)'
  BY <1>1, <1>2 DEF SlotInv, AtOpen
<1>4. CASE RunAgent(w) \/ WriteCases(w)
  <2>1. wpc[w] = "busy" /\ wpc'[w] # "show" /\ UNCHANGED stage
    BY <1>1, <1>4 DEF RunAgent, WriteCases, Step, project, slots, StageInv, DriverInv, IInv, TypeOK, SlotType
  <2>2. ShownApproved' /\ ShownSlot(w)'
    BY <1>1, <1>2, <2>1 DEF StageInv, Stages, ShownApproved, SlotInv, ShownSlot, Entering
  <2>3. UNCHANGED row \/ status'[e] # "AWAITING"
    BY <1>1, <1>4 DEF RunAgent, WriteCases, SetStatus, StageInv, DriverInv, IInv, TypeOK, RowType
  <2>4. wpc'[w] = "busy" \/ wgate[w] = 1
    BY <1>4, <2>1 DEF RunAgent, WriteCases, slots
  <2>5. 1 \in 1..Login
    BY ConstantsAssumption DEF Login
  <2> QED BY <1>1, <1>2, <1>3, <2>1, <2>2, <2>3, <2>4, <2>5, StageMove
<1>5. CASE EnterStage(w)
  <2>1. /\ wpc[w] = "work" /\ wpc'[w] = (IF ShowsStage(wgate[w]) THEN "show" ELSE "busy") /\ UNCHANGED stage
    BY <1>5 DEF EnterStage, Step, project, StageInv, DriverInv, IInv, TypeOK, SlotType
  <2>2. \/ status'[e] # "AWAITING"
        \/ wgate[w] = LastReleased /\ UNCHANGED row
    BY <1>1, <1>5 DEF EnterStage, SetStatus, StageInv, DriverInv, IInv, TypeOK, RowType
  <2>3. wgate[w] = LastReleased => wgate[w] \in Released /\ ~ShowsStage(wgate[w])
    BY ConstantsAssumption DEF Login, Released, ShowsStage
  <2>4. ShownSlot(w)' /\ ShownApproved'
    BY <1>1, <1>2, <2>1 DEF StageInv, Stages, ShownApproved, SlotInv, ShownSlot, Entering, ShowsStage
  <2>5. wpc'[w] \in {"show", "busy"} /\ (wpc'[w] = "show" => status'[e] # "AWAITING")
    BY <2>1, <2>2, <2>3
  <2> QED BY <1>1, <1>2, <1>3, <2>1, <2>2, <2>3, <2>4, <2>5, StageMove
<1>6. CASE ShowStage(w)
  <2>1. /\ wpc[w] = "show" /\ wpc'[w] = "busy" /\ wpc[w] \in {"ground", "work", "show", "busy", "drafted"}
        /\ stage' = StageOf(wgate[w]) /\ UNCHANGED row
    BY <1>6 DEF ShowStage, Step, StageInv, DriverInv, IInv, TypeOK, SlotType
  <2>2. status'[e] # "AWAITING"
    BY <1>1, <2>1 DEF SlotInv, OnRow, row
  <2>3. ShownSlot(w)'
    BY <1>1, <1>2, <2>1, StageOrder DEF ShownSlot
  <2>4. ShownApproved'
    <3>1. CASE wgate[w] = 1
      <4>1. 1 \notin approved
        BY <1>1, <2>1, <3>1, GateRanges DEF SlotInv, AtOpen
      <4>2. \A g \in Released : g \notin approved
        BY <4>1, ConstantsAssumption DEF StageInv, DriverInv, IInv, GateOrder, Cleared, Released
      <4> QED BY <1>2, <4>2 DEF ShownApproved
    <3>2. CASE wgate[w] > Login + 1
      <4>1. wgate[w] > Login
        BY <1>1, <3>2, ConstantsAssumption DEF Login, Gates
      <4>2. Login <= StageOf(wgate[w]) /\ stage' = StageOf(wgate[w]) /\ StageOf(wgate[w]) \in Nat
        BY <1>1, <2>1, <3>2, <4>1, StageOrder
      <4>3. \A g \in Released : StageOf(g + 1) <= Login /\ StageOf(g + 1) \in Nat /\ Login \in Nat
        BY StageOrder, GateRanges, ConstantsAssumption DEF Login
      <4>4. \A g \in Released : stage' >= StageOf(g + 1)
        BY <4>2, <4>3
      <4> QED BY <4>4 DEF ShownApproved
    <3> QED BY <2>1, <3>1, <3>2 DEF StageInv, Placed, ShowsStage
  <2> QED BY <1>1, <1>2, <1>3, <2>1, <2>2, <2>3, <2>4, StageMove
<1> QED BY <1>4, <1>5, <1>6

(* A gate that is asked is not behind the stage shown. *)
LEMMA AskStages ==
  ASSUME OneRun, StageInv, NEW e \in Exec, NEW w \in Worker, Driving(w, e), Ask(w)
  PROVE  Stages'
<1>1. /\ SlotInv(w, e) /\ wexec[w] = e /\ wgate[w] \in Gates
      /\ \A r \in Request : ~Resuming(r, e)
      /\ \A r \in Request : rexec[r] = e /\ rpc[r] = "grant" => rgate[r] \in Held /\ rgate[r] > Login
  BY SoleSlot
<1>2. /\ (wpc[w] = "work" /\ wgate[w] = Login) \/ wpc[w] \in {"busy", "drafted"}
      /\ wpc[w] \notin Spare
  BY DEF Ask, StageDone, Spare
<1>3. UNCHANGED <<approved, stage, contFlag, queued, wexec, wgate, requests>>
  BY DEF Ask, project, flags
<1>4. status'[e] = "AWAITING" /\ gate'[e] = wgate[w]
  BY <1>1 DEF Ask, SetAwaiting, StageInv, DriverInv, IInv, TypeOK, RowType
<1>5. /\ \A v \in Worker : v # w => wpc'[v] = wpc[v] /\ wexec'[v] = wexec[v]
      /\ wpc'[w] = CASE wgate[w] \in Released -> "release" [] wgate[w] = Login -> "launch" [] OTHER -> "check"
  BY DEF Ask, Step, StageInv, DriverInv, IInv, TypeOK, SlotType
<1>6. ShownApproved'
  BY <1>3 DEF StageInv, Stages, ShownApproved
<1>7. CASE wgate[w] \in Released
  <2>1. wpc'[w] = "release" /\ wpc[w] \in {"busy", "drafted"}
    BY <1>2, <1>5, <1>7, GateRanges
  <2> QED BY <1>1, <1>3, <1>4, <1>5, <1>6, <1>7, <2>1, DriverLeaves
<1>8. CASE wgate[w] \notin Released
  <2>1. wgate[w] \in Held /\ wpc'[w] \in {"launch", "check"}
    BY <1>1, <1>5, <1>8, GateRanges
  <2>2. OnRow(w, e)' /\ AtOpen(w)'
    BY <1>3, <1>4, <2>1 DEF OnRow, Follows, AtOpen
  <2>3. ~Entering(w) /\ ~Entering(w)' /\ ShownSlot(w)'
    <3>1. ~Entering(w)
      BY <1>2, ConstantsAssumption DEF Entering, Login
    <3> QED BY <1>1, <1>3, <2>1, <3>1 DEF SlotInv, ShownSlot, Entering
  <2>4. Patient => FlagInPlace(w, e)'
    <3>1. (Pending(e)' <=> Pending(e)) /\ (Signalling(e)' <=> Signalling(e)) /\ (Signalling(e) => Pending(e))
      BY <1>1, <1>3 DEF Pending, Signalling, Answering, Resuming, requests
    <3>2. Patient => ~(Pending(e) /\ contFlag[e])
      BY <1>1, <1>2 DEF SlotInv, FlagInPlace
    <3> QED BY <1>3, <1>4, <2>1, <3>1, <3>2 DEF FlagInPlace
  <2>5. ASSUME NEW r \in Request, rexec'[r] = e, rpc'[r] = "grant" PROVE Near(w, r)'
    <3>1. rexec[r] = e /\ rpc[r] = "grant"
      BY <1>3, <2>5 DEF requests
    <3>2. "slow" \in Hazards
      BY <1>1, <3>1 DEF Ask, HandlersDone
    <3>3. Near(w, r)
      BY <1>1, <3>1 DEF SlotInv
    <3> QED BY <1>3, <2>1, <3>2, <3>3 DEF Near, requests
  <2> QED BY <1>1, <1>3, <1>4, <1>5, <1>6, <2>1, <2>2, <2>3, <2>4, <2>5, DriverMoves DEF SlotInv
<1> QED BY <1>7, <1>8

(* So is the login gate when its browser is up. *)
LEMMA LaunchStages ==
  ASSUME OneRun, StageInv, NEW e \in Exec, NEW w \in Worker, Driving(w, e), LaunchBrowser(w)
  PROVE  Stages'
<1>1. /\ SlotInv(w, e) /\ wexec[w] = e /\ wgate[w] = Login /\ wpc[w] = "launch"
      /\ \A r \in Request : ~Resuming(r, e)
      /\ \A r \in Request : rexec[r] = e /\ rpc[r] = "grant" => rgate[r] \in Held /\ rgate[r] > Login
  BY SoleSlot DEF LaunchBrowser, StageInv, Placed
<1>2. UNCHANGED <<approved, stage, contFlag, queued, wexec, wgate, requests>>
  BY DEF LaunchBrowser, project, flags
<1>3. status'[e] = "AWAITING" /\ gate'[e] = Login
  BY <1>1 DEF LaunchBrowser, SetAwaiting, StageInv, DriverInv, IInv, TypeOK, RowType
<1>4. wpc'[w] = "check" /\ \A v \in Worker : v # w => wpc'[v] = wpc[v]
  BY DEF LaunchBrowser, Step, StageInv, DriverInv, IInv, TypeOK, SlotType
<1>5. OnRow(w, e)' /\ AtOpen(w)' /\ ShownSlot(w)' /\ ~Entering(w)'
  BY <1>1, <1>2, <1>3, <1>4 DEF OnRow, Follows, AtOpen, SlotInv, ShownSlot, Entering
<1>6. Patient => FlagInPlace(w, e)'
  <2>1. (Pending(e)' <=> Pending(e)) /\ (Signalling(e)' <=> Signalling(e)) /\ (Signalling(e) => Pending(e))
    BY <1>1, <1>2 DEF Pending, Signalling, Answering, Resuming, requests
  <2>2. Patient => ~(Pending(e) /\ contFlag[e])
    BY <1>1 DEF SlotInv, FlagInPlace, Spare
  <2> QED BY <1>1, <1>2, <1>3, <1>4, <2>1, <2>2 DEF FlagInPlace
<1>7. ASSUME NEW r \in Request, rexec'[r] = e, rpc'[r] = "grant" PROVE Near(w, r)'
  <2>1. rgate'[r] = rgate[r] /\ rgate[r] > Login /\ rgate[r] \in Nat /\ Login \in Nat
    BY <1>1, <1>2, <1>7, ConstantsAssumption DEF requests, Login, StageInv, DriverInv, IInv, TypeOK, RequestType
  <2> QED BY <1>1, <1>2, <2>1 DEF Near
<1>8. ShownApproved' /\ Login \in Held
  BY <1>2, GateRanges DEF StageInv, Stages, ShownApproved
<1> QED BY <1>1, <1>2, <1>3, <1>4, <1>5, <1>6, <1>7, <1>8, DriverMoves DEF SlotInv

(* A slot that stays at its gate. *)
LEMMA WaitStays ==
  ASSUME OneRun, StageInv, NEW e \in Exec, NEW w \in Worker, Driving(w, e), wpc[w] \in Waiting,
         UNCHANGED <<row, project, queued, wexec, wgate, requests>>, contFlag'[e] => contFlag[e],
         \/ wpc'[w] = "cancelled"
         \/ wpc'[w] = "wait" /\ ~contFlag[e],
         \A v \in Worker : v # w => wpc'[v] = wpc[v]
  PROVE  Stages'
<1>1. SlotInv(w, e) /\ wexec[w] = e
  BY SoleSlot
<1>2. wpc[w] \notin {"work", "show", "busy", "launch"} /\ UNCHANGED <<stage, approved>>
  BY DEF Waiting, project
<1>3. OnRow(w, e)' /\ AtOpen(w)' /\ ShownSlot(w)'
  BY <1>1, <1>2 DEF SlotInv, OnRow, AtHeld, Follows, AtOpen, ShownSlot, Entering, row
<1>4. Patient => FlagInPlace(w, e)'
  <2>1. (Pending(e)' <=> Pending(e)) /\ (Signalling(e)' <=> Signalling(e)) /\ (AtHeld(e)' <=> AtHeld(e))
    BY DEF Pending, Signalling, Answering, Resuming, AtHeld, requests, row
  <2>2. gate'[e] = gate[e]
    BY DEF row
  <2> QED BY <1>1, <2>1, <2>2 DEF SlotInv, FlagInPlace, Spare
<1>5. ASSUME NEW r \in Request, rexec'[r] = e, rpc'[r] = "grant" PROVE Near(w, r)'
  <2>1. Near(w, r) /\ rexec[r] = e /\ rexec'[r] = e /\ rgate'[r] = rgate[r]
    BY <1>1, <1>5 DEF SlotInv, requests
  <2> QED BY <1>2, <2>1 DEF Near
<1>6. ShownApproved' /\ wpc'[w] # "release"
  BY <1>2 DEF StageInv, Stages, ShownApproved
<1> QED BY <1>1, <1>2, <1>3, <1>4, <1>5, <1>6, DriverMoves DEF SlotInv

(* A slot that passes its gate takes its continue-flag along. *)
LEMMA WaitPasses ==
  ASSUME OneRun, StageInv, NEW e \in Exec, NEW w \in Worker, Driving(w, e), wpc[w] \in Waiting,
         UNCHANGED <<row, project, queued, wexec, requests>>, ~contFlag'[e],
         PassGate(w), contFlag[e] \/ wpc[w] = "woken"
  PROVE  Stages'
<1>1. /\ SlotInv(w, e) /\ wexec[w] = e /\ wgate[w] \in Gates /\ wgate[w] \in Held /\ wgate[w] \in Nat
      /\ \A r \in Request : rexec[r] = e /\ rpc[r] = "grant" => rgate[r] \in Held /\ rgate[r] > Login
  BY SoleSlot, GateRanges DEF Waiting, AtHeldGate, StageInv, DriverInv, IInv, SlotPlace
<1>2. wpc[w] \notin {"work", "show", "busy", "launch"} /\ UNCHANGED <<stage, approved>>
  BY DEF Waiting, project
<1>3. /\ \/ wgate[w] = LastGate /\ wpc'[w] = "closing" /\ wgate'[w] = wgate[w]
         \/ wpc'[w] = "work" /\ wgate'[w] = wgate[w] + 1
      /\ \A v \in Worker : v # w => wpc'[v] = wpc[v]
  BY DEF PassGate, Step, StageInv, DriverInv, IInv, TypeOK, SlotType
<1>4. OnRow(w, e)'
  BY <1>1, <1>2, <1>3 DEF SlotInv, OnRow, AtHeld, Follows, row
<1>5. AtOpen(w)'
  <2>1. wgate[w] + 1 \notin Released
    BY <1>1, ConstantsAssumption DEF Held, Login, Released
  <2> QED BY <1>3, <2>1 DEF AtOpen
<1>6. ShownSlot(w)'
  <2>1. stage >= StageOf(wgate[w])
    BY <1>1, <1>2 DEF SlotInv, ShownSlot, Entering
  <2>2. CASE wgate'[w] = wgate[w]
    BY <1>2, <2>1, <2>2 DEF ShownSlot
  <2>3. CASE wpc'[w] = "work" /\ wgate'[w] = wgate[w] + 1
    <3>1. ~Entering(w)' => wgate[w] = Login
      BY <1>1, <2>3, ConstantsAssumption DEF Entering, Held, Login
    <3>2. wgate[w] = Login => StageOf(wgate[w] + 1) = StageOf(wgate[w])
      BY StageOrder
    <3> QED BY <1>2, <2>1, <2>3, <3>1, <3>2 DEF ShownSlot
  <2> QED BY <1>3, <2>2, <2>3
<1>7. Patient => FlagInPlace(w, e)'
  <2>1. (Signalling(e)' <=> Signalling(e)) /\ (AtHeld(e)' <=> AtHeld(e))
    BY DEF Signalling, Answering, AtHeld, requests, row
  <2>2. Patient => ~(Signalling(e) /\ AtHeld(e))
    BY <1>1 DEF SlotInv, FlagInPlace
  <2> QED BY <2>1, <2>2 DEF FlagInPlace
<1>8. ASSUME NEW r \in Request, rexec'[r] = e, rpc'[r] = "grant" PROVE Near(w, r)'
  <2>1. Near(w, r) /\ rexec[r] = e /\ rexec'[r] = e /\ rgate'[r] = rgate[r] /\ rgate[r] \in Nat
    BY <1>1, <1>8, ConstantsAssumption DEF SlotInv, requests, StageInv, DriverInv, IInv, TypeOK, RequestType
  <2>2. wgate[w] <= rgate[r]
    BY <1>2, <2>1 DEF Near
  <2>3. wpc'[w] # "woken" /\ (wgate'[w] = wgate[w] \/ (wpc'[w] = "work" /\ wgate'[w] = wgate[w] + 1))
    BY <1>3
  <2> QED BY <1>1, <2>1, <2>2, <2>3 DEF Near
<1>9. ShownApproved' /\ wpc'[w] # "release"
  BY <1>2, <1>3 DEF StageInv, Stages, ShownApproved
<1> QED BY <1>1, <1>2, <1>3, <1>4, <1>5, <1>6, <1>7, <1>8, <1>9, DriverMoves DEF SlotInv

(* What a waiting slot does at its gate. *)
LEMMA WaitStages ==
  ASSUME OneRun, StageInv, NEW e \in Exec, NEW w \in Worker, Driving(w, e), CheckFlags(w) \/ Poll(w) \/ TakeMessage(w)
  PROVE  Stages'
<1>1. wexec[w] = e /\ wpc[w] \in Waiting
  BY SoleSlot DEF CheckFlags, Poll, TakeMessage, Waiting
<1>2. UNCHANGED <<row, project, queued, wexec, requests>>
  BY DEF CheckFlags, Poll, TakeMessage
<1>3. ASSUME PassGate(w), contFlag' = [contFlag EXCEPT ![e] = FALSE], contFlag[e] \/ wpc[w] = "woken" PROVE Stages'
  <2>1. ~contFlag'[e]
    BY <1>3 DEF StageInv, DriverInv, IInv, TypeOK, FlagType
  <2> QED BY <1>1, <1>2, <1>3, <2>1, WaitPasses
<1>4. ASSUME UNCHANGED wgate, NEW pc, Step(w, pc), pc = "cancelled" \/ (pc = "wait" /\ ~contFlag[e]),
             UNCHANGED contFlag \/ contFlag' = [contFlag EXCEPT ![e] = FALSE]
      PROVE  Stages'
  <2>1. wpc'[w] = pc /\ \A v \in Worker : v # w => wpc'[v] = wpc[v]
    BY <1>4 DEF Step, StageInv, DriverInv, IInv, TypeOK, SlotType
  <2>2. contFlag'[e] => contFlag[e]
    BY <1>4 DEF StageInv, DriverInv, IInv, TypeOK, FlagType
  <2> QED BY <1>1, <1>2, <1>4, <2>1, <2>2, WaitStays
<1>5. CASE CheckFlags(w)
  BY <1>1, <1>3, <1>4, <1>5 DEF CheckFlags, flags
<1>6. CASE Poll(w)
  BY <1>1, <1>3, <1>4, <1>6 DEF Poll
<1>7. CASE TakeMessage(w)
  BY <1>1, <1>3, <1>4, <1>7 DEF TakeMessage
<1> QED BY <1>5, <1>6, <1>7

(* A run that closes shows the end of the pipeline, then completes its row. *)
LEMMA CloseStages ==
  ASSUME OneRun, StageInv, NEW e \in Exec, NEW w \in Worker, Driving(w, e), CloseProject(w) \/ Complete(w)
  PROVE  Stages'
<1>1. /\ SlotInv(w, e) /\ wexec[w] = e /\ wgate[w] \in Gates /\ wpc[w] \in Ending
      /\ \A r \in Request : rexec[r] = e /\ rpc[r] = "grant" => rgate[r] \in Held /\ rgate[r] > Login
  BY SoleSlot DEF CloseProject, Complete, Ending
<1>2. UNCHANGED <<approved, contFlag, queued, wexec, wgate, requests>> /\ wgate[w] = LastGate
  BY <1>1 DEF CloseProject, Complete, project, flags, StageInv, Placed
<1>3. /\ wpc'[w] \in {"done", "ended"} /\ \A v \in Worker : v # w => wpc'[v] = wpc[v]
      /\ stage' \in {stage, LastGate + 1} /\ stage' >= stage
  BY ConstantsAssumption DEF CloseProject, Complete, Step, project, StageInv, DriverInv, IInv, TypeOK, SlotType, ProjectType
<1>4. \/ CloseProject(w) /\ UNCHANGED row /\ wpc[w] = "closing" /\ wpc'[w] = "done"
      \/ status'[e] # "AWAITING"
  BY <1>1 DEF CloseProject, Complete, Step, SetStatus, StageInv, DriverInv, IInv, TypeOK, SlotType, RowType
<1>5. OnRow(w, e)'
  BY <1>1, <1>2, <1>4 DEF SlotInv, OnRow, AtHeld, Follows, row
<1>6. AtOpen(w)' /\ ShownSlot(w)'
  <2>1. stage >= StageOf(wgate[w]) /\ StageOf(wgate[w]) \in Nat /\ stage \in Nat
    BY <1>1, StageOrder, ConstantsAssumption
       DEF SlotInv, ShownSlot, Entering, Ending, StageInv, DriverInv, IInv, TypeOK, ProjectType
  <2>2. stage' >= StageOf(wgate[w])
    BY <1>3, <2>1, ConstantsAssumption
  <2> QED BY <1>2, <1>3, <2>2 DEF AtOpen, ShownSlot
<1>7. Patient => FlagInPlace(w, e)'
  <2>1. (Pending(e)' <=> Pending(e)) /\ (Signalling(e)' <=> Signalling(e))
    BY <1>2 DEF Pending, Signalling, Answering, Resuming, requests
  <2>2. AtHeld(e)' => AtHeld(e) /\ wpc[w] = "closing" /\ wpc'[w] = "done"
    BY <1>4 DEF AtHeld, row
  <2> QED BY <1>1, <1>2, <1>3, <2>1, <2>2 DEF SlotInv, FlagInPlace, Ending, Spare
<1>8. ASSUME NEW r \in Request, rexec'[r] = e, rpc'[r] = "grant" PROVE Near(w, r)'
  <2>1. rgate'[r] = rgate[r] /\ Near(w, r) /\ rexec'[r] = rexec[r] /\ rexec[r] = e /\ rpc[r] = "grant"
    BY <1>1, <1>2, <1>8 DEF SlotInv, requests
  <2> QED BY <1>1, <1>2, <1>3, <2>1 DEF Near, Ending
<1>9. ShownApproved'
  <2>1. \A g \in Released : StageOf(g + 1) \in Nat
    BY StageOrder, GateRanges
  <2>2. stage \in Nat /\ stage' \in Nat
    BY <1>3, ConstantsAssumption DEF StageInv, DriverInv, IInv, TypeOK, ProjectType
  <2> QED BY <1>2, <1>3, <2>1, <2>2 DEF StageInv, Stages, ShownApproved
<1>10. wpc'[w] # "release" /\ (UNCHANGED row \/ status'[e] # "AWAITING")
  BY <1>3, <1>4
<1> QED BY <1>2, <1>3, <1>5, <1>6, <1>7, <1>8, <1>9, <1>10, DriverMoves DEF SlotInv

(* The ends of a job. *)
LEMMA EndStages ==
  ASSUME OneRun, StageInv, NEW e \in Exec, NEW w \in Worker, Driving(w, e),
         \/ EndJob(w) \/ StopRun(w)
         \/ FailRun(w) /\ wpc[w] \notin Spare
  PROVE  Stages'
<1>1. SlotInv(w, e) /\ wexec[w] = e
  BY SoleSlot
<1>2. UNCHANGED <<approved, stage, contFlag, requests>> /\ FreeSlot(w) /\ (UNCHANGED queued \/ wpc[w] \notin Spare)
  BY DEF EndJob, StopRun, FailRun, project, flags
<1>3. wexec'[w] = NoExec /\ \A v \in Worker : v # w => wpc'[v] = wpc[v] /\ wexec'[v] = wexec[v]
  BY <1>2 DEF FreeSlot, StageInv, DriverInv, IInv, TypeOK, SlotType
<1>4. status'[e] # "AWAITING"
  <2>1. CASE EndJob(w)
    BY <1>1, <2>1 DEF EndJob, SlotInv, OnRow, row
  <2>2. CASE StopRun(w) \/ FailRun(w)
    BY <1>1, <2>2 DEF StopRun, FailRun, SetStatus, StageInv, DriverInv, IInv, TypeOK, RowType
  <2> QED BY <2>1, <2>2
<1>5. ShownApproved'
  BY <1>2 DEF StageInv, Stages, ShownApproved
<1> QED BY <1>2, <1>3, <1>4, <1>5, DriverLeaves

(* A claimed job starts at the first stage. *)
LEMMA ClaimStages ==
  ASSUME OneRun, StageInv, NEW w \in Worker, NEW e \in Exec, NEW a \in Attempts, Claim(w, e, a)
  PROVE  Stages'
<1>1. ~NoJob(e) /\ RowInv(e) /\ NoSlot(e)
  <2>1. ~NoJob(e)
    BY DEF Claim, NoJob
  <2> QED BY <2>1 DEF StageInv, Stages, DriverInv, Alone
<1>2. /\ UNCHANGED <<row, project, contFlag, requests>>
      /\ wpc'[w] = "row" /\ wgate'[w] = 1
      /\ \A v \in Worker : v # w => wpc'[v] = wpc[v] /\ wexec'[v] = wexec[v]
  BY DEF Claim, Step, flags, StageInv, DriverInv, IInv, TypeOK, SlotType, SlotPlace, Early
<1>3. (AtHeld(e)' <=> AtHeld(e)) /\ (Pending(e)' <=> Pending(e)) /\ (AtReleased(e)' <=> AtReleased(e))
  BY <1>2 DEF AtHeld, Pending, Answering, Resuming, AtReleased, requests, row
<1>4. ~AtHeld(e) /\ (Patient => ~(Pending(e) /\ contFlag[e]))
  BY <1>1 DEF RowInv
<1>5. RowInv(e)'
  <2>1. Unreviewed(e)' /\ ShownRow(e)' /\ NextRow(e)'
    BY <1>1, <1>2 DEF RowInv, Unreviewed, ShownRow, NextRow, AtReleased, Answering, row, project, requests
  <2> QED BY <1>2, <1>3, <1>4, <2>1 DEF RowInv
<1>6. ASSUME NEW v \in Worker, Driving(v, e)' PROVE SlotInv(v, e)'
  <2>1. v = w
    BY <1>1, <1>2, <1>6 DEF NoSlot, Driving
  <2>2. OnRow(w, e)' /\ AtOpen(w)'
    BY <1>2, <1>3, <1>4 DEF OnRow, AtOpen
  <2>3. ShownSlot(w)'
    <3>1. stage' >= 1
      BY <1>2 DEF project, StageInv, DriverInv, IInv, TypeOK, ProjectType
    <3> QED BY <1>2, <3>1, StageOrder DEF ShownSlot
  <2>4. Patient => FlagInPlace(w, e)'
    BY <1>2, <1>3, <1>4 DEF FlagInPlace
  <2>5. ASSUME NEW r \in Request, rexec'[r] = e, rpc'[r] = "grant" PROVE Near(w, r)'
    <3>1. rgate'[r] \in ApprovalGates
      BY <1>2, <2>5 DEF requests, StageInv, DriverInv, IInv, TypeOK, RequestType
    <3> QED BY <1>2, <3>1 DEF Near, ApprovalGates, Gates
  <2> QED BY <2>1, <2>2, <2>3, <2>4, <2>5 DEF SlotInv
<1>7. ShownApproved'
  BY <1>2 DEF project, StageInv, Stages, ShownApproved
<1> QED BY <1>5, <1>6, <1>7, OneRunStages

(* Steps that neither drive the run nor answer it. *)
LEMMA RestStages ==
  ASSUME OneRun, StageInv, NEW e \in Exec, UNCHANGED <<row, project, requests, queued>>, contFlag'[e] => contFlag[e],
         \A v \in Worker : Driving(v, e)' \/ Driving(v, e) =>
           wexec'[v] = wexec[v] /\ wpc'[v] = wpc[v] /\ wgate'[v] = wgate[v]
  PROVE  Stages'
<1>1. RowInv(e) /\ ShownApproved /\ \A v \in Worker : Driving(v, e) => SlotInv(v, e)
  BY DEF StageInv, Stages
<1>2. \A v \in Worker : Driving(v, e)' <=> Driving(v, e)
  BY DEF Driving
<1>3. /\ (AtHeld(e)' <=> AtHeld(e)) /\ (AtReleased(e)' <=> AtReleased(e)) /\ gate'[e] = gate[e]
      /\ (Pending(e)' <=> Pending(e)) /\ (Signalling(e)' <=> Signalling(e)) /\ (Publishing(e)' <=> Publishing(e))
      /\ status'[e] = status[e]
  BY DEF AtHeld, AtReleased, Pending, Signalling, Publishing, Answering, Resuming, row, requests
<1>4. RowInv(e)'
  <2>1. (NoSlot(e)' <=> NoSlot(e)) /\ (NoJob(e)' <=> NoJob(e))
    BY <1>2 DEF NoSlot, NoJob
  <2>2. Unreviewed(e)' /\ ShownRow(e)' /\ NextRow(e)'
    BY <1>1 DEF RowInv, Unreviewed, ShownRow, NextRow, AtReleased, Answering, row, project, requests
  <2> QED BY <1>1, <1>3, <2>1, <2>2 DEF RowInv
<1>5. ASSUME NEW v \in Worker, Driving(v, e)' PROVE SlotInv(v, e)'
  <2>1. SlotInv(v, e) /\ wexec[v] = e /\ wpc'[v] = wpc[v] /\ wgate'[v] = wgate[v]
    BY <1>1, <1>2, <1>5 DEF Driving
  <2>2. OnRow(v, e)' /\ AtOpen(v)' /\ ShownSlot(v)'
    BY <1>3, <2>1 DEF SlotInv, OnRow, Follows, AtOpen, ShownSlot, Entering, project
  <2>3. Patient => FlagInPlace(v, e)'
    BY <1>3, <2>1 DEF SlotInv, FlagInPlace
  <2>4. ASSUME NEW r \in Request, rexec'[r] = e, rpc'[r] = "grant" PROVE Near(v, r)'
    <3>1. rexec[r] = e /\ rexec'[r] = e /\ rgate'[r] = rgate[r] /\ Near(v, r)
      BY <2>1, <2>4 DEF SlotInv, requests
    <3> QED BY <2>1, <3>1 DEF Near
  <2> QED BY <2>2, <2>3, <2>4 DEF SlotInv
<1>6. ShownApproved'
  BY <1>1 DEF project, ShownApproved
<1> QED BY <1>4, <1>5, <1>6, OneRunStages

(* Every step of a slot keeps the stages. *)
LEMMA SlotStages ==
  ASSUME Steady, OneRun, StageInv, NEW w \in Worker,
         ClaimAny(w) \/ Drive(w) \/ RunAgent(w) \/ Throw(w) \/ ThrowUnrecorded(w) \/ WaitTimeout(w)
  PROVE  Stages'
<1>1. CASE ClaimAny(w)
  BY <1>1, ClaimStages DEF ClaimAny
<1>2. CASE Release(w)
  <2>1. wpc[w] = "release" /\ wexec[w] \in Exec
    BY <1>2 DEF Release, StageInv, DriverInv, IInv, TypeOK, SlotType
  <2>2. wexec'[w] = NoExec
        /\ \A v \in Worker : v # w => wpc'[v] = wpc[v] /\ wgate'[v] = wgate[v] /\ wexec'[v] = wexec[v]
    BY <1>2 DEF Release, FreeSlot, StageInv, DriverInv, IInv, TypeOK, SlotType
  <2>3. UNCHANGED <<row, project, requests, queued, contFlag>>
    BY <1>2 DEF Release, flags
  <2> QED BY <2>1, <2>2, <2>3, RestStages, ConstantsAssumption DEF Driving
<1>3. ASSUME ~ClaimAny(w), ~Release(w) PROVE Stages'
  <2>1. wpc[w] \notin {"idle", "release"}
    BY <1>3 DEF Drive, ReadRow, StartRun, OpenContext, LoadGates, EnterStage, RunAgent, WriteCases, Ask, StageDone,
       GroundCases, ShowStage, LaunchBrowser, CheckFlags, Poll, TakeMessage, CloseProject, Complete, EndJob, StopRun, Throw, ThrowUnrecorded, WaitTimeout, Steady, Orderly
  <2>2. wexec[w] \in Exec /\ Driving(w, wexec[w])
    BY <2>1 DEF Driving, StageInv, DriverInv, IInv, TypeOK, SlotType
  <2>3. Throw(w) \/ ThrowUnrecorded(w) \/ WaitTimeout(w) => FailRun(w) /\ wpc[w] \notin Spare
    BY DEF Throw, ThrowUnrecorded, WaitTimeout, Spare, Steady, Orderly
  <2> QED
    BY <1>3, <2>2, <2>3, OpenStages, WorkStages, AskStages, LaunchStages, WaitStages, CloseStages, EndStages DEF Drive
<1> QED BY <1>1, <1>2, <1>3

(* A request that comes finds the slot where it is offered the answer. *)
LEMMA UserStages ==
  ASSUME Steady, OneRun, StageInv, NEW r \in Request, NEW e \in Exec,
         BeginApprove(r, e) \/ BeginContinue(r, e) \/ BeginCancel(r, e)
  PROVE  Stages'
<1>1. /\ UNCHANGED <<row, project, flags, queued, slots>>
      /\ \A q \in Request : rexec[q] # e
      /\ rexec'[r] = e /\ \A q \in Request : q # r => rexec'[q] # e
      /\ rpc'[r] \in {"grant", "mark"}
  BY DEF Steady, Orderly, BeginApprove, BeginContinue, BeginCancel, Begin, StageInv, DriverInv, IInv, TypeOK, RequestType
<1>2. /\ UNCHANGED <<stage, approved, contFlag, wpc, wexec, wgate>>
      /\ (\A v \in Worker : Driving(v, e)' <=> Driving(v, e)) /\ gate'[e] = gate[e] /\ status'[e] = status[e]
      /\ (AtHeld(e)' <=> AtHeld(e)) /\ (AtReleased(e)' <=> AtReleased(e))
      /\ (NoSlot(e)' <=> NoSlot(e)) /\ (NoJob(e)' <=> NoJob(e))
  BY <1>1 DEF Driving, AtHeld, AtReleased, NoSlot, NoJob, row, project, flags, slots
<1>3. ~Signalling(e)' /\ ~Publishing(e)
  BY <1>1 DEF Signalling, Publishing, Answering
<1>4. RowInv(e) /\ ShownApproved /\ \A w \in Worker : Driving(w, e) => SlotInv(w, e)
  BY DEF StageInv, Stages
<1>5. AtReleased(e) => gate[e] \notin approved
  BY <1>1, <1>4 DEF RowInv, Unreviewed, Answering
<1>6. rpc'[r] = "grant" => status[e] = "AWAITING" /\ rgate'[r] = gate[e] /\ gate[e] \in ApprovalGates
  BY DEF BeginApprove, BeginContinue, BeginCancel, Begin, StageInv, DriverInv, IInv, TypeOK, RequestType
<1>7. ASSUME Patient, Pending(e)'
      PROVE  AtHeld(e) /\ \A w \in Worker : Driving(w, e) => wpc[w] # "launch"
  <2>1. Answering(r, e)' /\ ~Resuming(r, e)'
    BY <1>1, <1>7 DEF Pending, Answering
  <2>2. CASE BeginApprove(r, e)
    <3>1. rop'[r] = "approve" /\ rgate'[r] = gate[e] /\ status[e] = "AWAITING" /\ gate[e] \in ApprovalGates
      BY <2>2 DEF BeginApprove, Begin, StageInv, DriverInv, IInv, TypeOK, RequestType
    <3>2. gate[e] \in Held /\ gate[e] # Login
      BY <1>1, <2>1, <3>1, GateRanges DEF Resuming, ApprovalGates
    <3>3. ASSUME NEW w \in Worker, Driving(w, e) PROVE wpc[w] # "launch"
      BY <1>4, <3>1, <3>2, <3>3 DEF AtHeld, SlotInv, OnRow, Follows, StageInv, Placed
    <3> QED BY <3>1, <3>2, <3>3 DEF AtHeld
  <2>3. CASE BeginContinue(r, e)
    <3>1. status[e] = "AWAITING" /\ gate[e] = Login /\ LoginOffered(e)
      BY <1>7, <2>3 DEF BeginContinue, Patient
    <3>2. PICK v \in Worker : wexec[v] = e /\ wpc[v] \in {"check", "wait"}
      BY <1>7, <3>1 DEF LoginOffered, Patient
    <3>3. \A w \in Worker : Driving(w, e) => w = v
      BY <3>2 DEF Driving, StageInv, DriverInv, Alone
    <3> QED BY <3>1, <3>2, <3>3, GateRanges DEF AtHeld
  <2>4. CASE BeginCancel(r, e)
    BY <2>1, <2>4 DEF Answering, BeginCancel, Begin, StageInv, DriverInv, IInv, TypeOK, RequestType
  <2> QED BY <2>2, <2>3, <2>4
<1>8. RowInv(e)'
  <2>1. Patient /\ Pending(e)' => NoJob(e)
    BY <1>4, <1>7 DEF RowInv, StageInv, DriverInv, Alone
  <2>2. Unreviewed(e)'
    <3>1. rpc'[r] = "grant" /\ rgate'[r] \in Released => rgate'[r] \notin approved
      BY <1>5, <1>6 DEF AtReleased
    <3> QED BY <1>1, <1>2, <1>5, <3>1 DEF Unreviewed
  <2>3. ShownRow(e)'
    BY <1>1, <1>2, <1>4 DEF RowInv, ShownRow, row
  <2>4. NextRow(e)'
    <3>1. gate[e] \in Nat
      BY ConstantsAssumption DEF StageInv, DriverInv, IInv, TypeOK, RowType
    <3> QED BY <1>1, <1>2, <1>6, <3>1 DEF NextRow
  <2> QED BY <1>2, <1>4, <2>1, <2>2, <2>3, <2>4 DEF RowInv
<1>9. ASSUME NEW w \in Worker, Driving(w, e)' PROVE SlotInv(w, e)'
  <2>1. Driving(w, e) /\ SlotInv(w, e)
    BY <1>2, <1>4, <1>9
  <2>2. OnRow(w, e)' /\ AtOpen(w)' /\ ShownSlot(w)'
    BY <1>2, <2>1 DEF SlotInv, OnRow, Follows, AtOpen, ShownSlot, Entering
  <2>3. Patient => FlagInPlace(w, e)'
    <3>1. ASSUME Patient, Pending(e)', contFlag[e] PROVE wpc[w] \in Spare
      <4>1. AtHeld(e) /\ wpc[w] # "launch"
        BY <1>7, <2>1, <3>1
      <4>2. Follows(w, gate[e]) /\ wpc[w] \notin {"work", "closing", "done", "wait"}
        BY <1>3, <2>1, <3>1, <4>1 DEF SlotInv, OnRow, FlagInPlace
      <4> QED BY <4>1, <4>2 DEF Follows, Spare
    <3> QED BY <1>2, <1>3, <2>1, <3>1 DEF SlotInv, FlagInPlace
  <2>4. ASSUME NEW q \in Request, rexec'[q] = e, rpc'[q] = "grant" PROVE Near(w, q)'
    <3>1. q = r
      BY <1>1, <2>4
    <3>2. AtHeld(e)
      <4>1. ~AtReleased(e)
        BY <2>1, SoleSlot
      <4> QED BY <1>6, <2>4, <3>1, <4>1, GateRanges DEF AtHeld, AtReleased
    <3>3. Follows(w, gate[e]) /\ rgate'[r] = gate[e] /\ gate[e] \in Nat
      BY <1>6, <2>1, <2>4, <3>1, <3>2, GateRanges DEF SlotInv, OnRow
    <3>4. "slow" \in Hazards => Patient
      BY DEF Steady, Patient
    <3>5. wpc[w] = "work" /\ Patient => ~contFlag[e]
      BY <2>1, <3>2 DEF SlotInv, FlagInPlace
    <3> QED BY <1>2, <2>4, <3>1, <3>3, <3>4, <3>5 DEF Near, Follows
  <2> QED BY <2>2, <2>3, <2>4 DEF SlotInv
<1>10. ShownApproved'
  BY <1>2, <1>4 DEF ShownApproved
<1> QED BY <1>8, <1>9, <1>10, OneRunStages

(* An approval shows the next stage, which is not behind. *)
LEMMA GrantStages ==
  ASSUME OneRun, StageInv, NEW r \in Request, NEW e \in Exec, rexec[r] = e, Grant(r)
  PROVE  Stages'
<1> DEFINE g == rgate[r]
<1>1. rpc[r] = "grant" /\ rop[r] = "approve" /\ g \in ApprovalGates /\ g \in Gates /\ g \in Nat /\ Answering(r, e)
  BY GateRanges DEF Grant, StageInv, DriverInv, Approving, IInv, TypeOK, RequestType, Answering
<1>2. /\ approved' = approved \union {g}
      /\ stage' = IF g = LastGate THEN LastGate + 1 ELSE StageOf(g + 1)
      /\ UNCHANGED <<row, slots, flags, queued>>
  BY DEF Grant
<1>3. /\ rpc'[r] = "mark" /\ UNCHANGED <<rop, rexec, rgate>>
      /\ \A q \in Request : rexec[q] = e => q = r
  BY DEF Grant, HandlerStep, StageInv, DriverInv, Alone, IInv, TypeOK, RequestType
<1>4. /\ UNCHANGED <<contFlag, wpc, wexec, wgate>>
      /\ (\A v \in Worker : Driving(v, e)' <=> Driving(v, e)) /\ gate'[e] = gate[e] /\ status'[e] = status[e]
      /\ (AtHeld(e)' <=> AtHeld(e)) /\ (NoSlot(e)' <=> NoSlot(e)) /\ (NoJob(e)' <=> NoJob(e))
  BY <1>2 DEF Driving, AtHeld, NoSlot, NoJob, row, flags, slots
<1>5. (Pending(e)' <=> Pending(e)) /\ ~Signalling(e)' /\ ~Publishing(e)
  <2>1. Resuming(r, e)' <=> Resuming(r, e)
    BY <1>1, <1>3 DEF Resuming
  <2> QED BY <1>1, <1>3, <2>1 DEF Pending, Signalling, Publishing, Answering
<1>6. RowInv(e) /\ ShownApproved /\ \A w \in Worker : Driving(w, e) => SlotInv(w, e)
  BY DEF StageInv, Stages
<1>7. \A h \in 0..(g + 1) : h <= LastGate => stage' >= StageOf(h)
  <2> SUFFICES ASSUME NEW h \in 0..(g + 1), h <= LastGate PROVE stage' >= StageOf(h)
    OBVIOUS
  <2>1. g \in 1..LastGate /\ LastGate \in Nat
    BY <1>1, ConstantsAssumption DEF Gates
  <2>2. CASE g = LastGate
    <3>1. h \in 0..(LastGate + 1) /\ LastGate \in 0..(LastGate + 1) /\ LastGate \in Gates
      BY <2>1 DEF Gates
    <3>2. StageOf(h) <= StageOf(LastGate) /\ StageOf(LastGate) <= LastGate /\ StageOf(LastGate) \in Nat
      BY <3>1, StageOrder
    <3>3. StageOf(h) \in Int
      BY <2>1, ConstantsAssumption DEF StageOf, Login
    <3> QED BY <1>2, <2>1, <2>2, <3>2, <3>3
  <2>3. CASE g # LastGate
    <3>1. h \in 0..(LastGate + 1) /\ g + 1 \in 0..(LastGate + 1) /\ h <= g + 1
      BY <2>1
    <3>2. StageOf(h) <= StageOf(g + 1)
      BY <3>1, StageOrder
    <3>3. StageOf(g + 1) \in Int /\ StageOf(h) \in Int
      BY <2>1, ConstantsAssumption DEF StageOf, Login
    <3> QED BY <1>2, <2>3, <3>2, <3>3
  <2> QED BY <2>2, <2>3
<1>8. stage' \in Nat /\ (g \notin Released => stage' >= Login)
  <2>1. StageOf(g + 1) \in Nat /\ LastGate \in Nat /\ Login \in Nat /\ Login <= LastGate
    BY <1>1, StageOrder, ConstantsAssumption DEF Login
  <2>2. g \notin Released => g > Login
    BY <1>1, ConstantsAssumption DEF ApprovalGates, Gates, Released, Login
  <2>3. g > Login => Login <= StageOf(g + 1)
    BY <1>1, StageOrder
  <2> HIDE DEF g
  <2> QED BY <1>2, <2>1, <2>2, <2>3
<1>9. ShownApproved'
  <2> SUFFICES ASSUME NEW h \in Released, h \in approved' PROVE stage' >= StageOf(h + 1)
    BY DEF ShownApproved
  <2>1. h + 1 \in Nat /\ h + 1 <= LastGate
    BY ConstantsAssumption DEF Released
  <2>2. CASE g \in Released
    <3>1. g \notin approved
      BY <1>1, <1>6, <2>2 DEF RowInv, Unreviewed
    <3>2. h = g \/ h \in approved
      BY <1>2
    <3>3. h <= g
      <4>1. CASE h = g
        BY <1>1, <4>1
      <4>2. CASE h \in approved
        <5>1. ~(g < h)
          BY <2>2, <3>1, <4>2 DEF StageInv, DriverInv, IInv, GateOrder, Cleared
        <5> QED BY <1>1, <5>1 DEF Released
      <4> QED BY <3>2, <4>1, <4>2
    <3>4. h + 1 \in 0..(g + 1)
      BY <1>1, <2>1, <3>3 DEF Released
    <3> QED BY <1>7, <2>1, <3>4
  <2>3. CASE g \notin Released
    <3>1. StageOf(h + 1) <= Login /\ StageOf(h + 1) \in Nat /\ Login \in Nat
      BY StageOrder, GateRanges, ConstantsAssumption DEF Login
    <3> HIDE DEF g
    <3> QED BY <1>8, <2>3, <3>1
  <2> QED BY <2>2, <2>3
<1>10. RowInv(e)'
  <2>1. Unreviewed(e)' /\ NextRow(e)'
    BY <1>1, <1>3 DEF Unreviewed, NextRow, Answering
  <2>2. ShownRow(e)'
    <3> SUFFICES ASSUME status[e] = "AWAITING" PROVE stage' >= StageOf(gate[e])
      BY <1>4 DEF ShownRow
    <3>1. gate[e] <= g + 1
      BY <1>1, <1>6 DEF RowInv, NextRow
    <3>2. gate[e] \in 0..(g + 1) /\ gate[e] <= LastGate
      BY <1>1, <3>1 DEF StageInv, DriverInv, IInv, TypeOK, RowType
    <3> QED BY <1>7, <3>2
  <2> QED BY <1>4, <1>5, <1>6, <2>1, <2>2 DEF RowInv
<1>11. ASSUME NEW w \in Worker, Driving(w, e)' PROVE SlotInv(w, e)'
  <2>1. Driving(w, e) /\ SlotInv(w, e) /\ g \in Held /\ wgate[w] \in Gates
    BY <1>1, <1>4, <1>11, SoleSlot
  <2>2. OnRow(w, e)'
    BY <1>4, <2>1 DEF SlotInv, OnRow, Follows
  <2>3. AtOpen(w)'
    <3>1. g \notin Released
      BY <2>1, GateRanges
    <3> QED BY <1>2, <1>4, <2>1, <3>1 DEF SlotInv, AtOpen
  <2>4. ShownSlot(w)'
    <3>1. wgate[w] <= g \/ wgate[w] = g + 1
      BY <1>1, <2>1 DEF SlotInv, Near
    <3>2. wgate[w] \in 0..(g + 1) /\ wgate[w] <= LastGate
      BY <1>1, <2>1, <3>1, ConstantsAssumption DEF Gates
    <3>3. stage' >= StageOf(wgate[w])
      BY <1>7, <3>2
    <3> QED BY <1>4, <3>3 DEF ShownSlot
  <2>5. Patient => FlagInPlace(w, e)'
    BY <1>4, <1>5, <2>1 DEF SlotInv, FlagInPlace
  <2>6. \A q \in Request : ~(rexec'[q] = e /\ rpc'[q] = "grant")
    BY <1>3
  <2> QED BY <2>2, <2>3, <2>4, <2>5, <2>6 DEF SlotInv
<1> QED BY <1>9, <1>10, <1>11, OneRunStages

(* A handler that resumes or cancels the run takes its row from the gate. *)
LEMMA MarkStages ==
  ASSUME OneRun, StageInv, NEW r \in Request, NEW e \in Exec, rexec[r] = e, Mark(r)
  PROVE  Stages'
<1>1. /\ UNCHANGED <<project, contFlag, queued, wpc, wexec, wgate>>
      /\ rpc[r] = "mark" /\ rpc'[r] = "signal" /\ UNCHANGED <<rop, rexec, rgate>>
      /\ \A q \in Request : rexec[q] = e => q = r
      /\ status'[e] # "AWAITING"
  BY DEF Mark, HandlerStep, SetStatus, flags, slots, StageInv, DriverInv, Alone, IInv, TypeOK, RequestType, RowType
<1>2. (Pending(e)' <=> Pending(e)) /\ ~Publishing(e)
  <2>1. Resuming(r, e)' <=> Resuming(r, e)
    BY <1>1 DEF Resuming
  <2> QED BY <1>1, <2>1 DEF Pending, Publishing, Answering
<1>3. ~AtHeld(e)' /\ ~AtReleased(e)'
  BY <1>1 DEF AtHeld, AtReleased
<1>4. \A v \in Worker : Driving(v, e)' <=> Driving(v, e)
  BY <1>1 DEF Driving
<1>5. RowInv(e) /\ ShownApproved /\ \A w \in Worker : Driving(w, e) => SlotInv(w, e)
  BY DEF StageInv, Stages
<1>6. \A q \in Request : ~(rexec'[q] = e /\ rpc'[q] = "grant")
  BY <1>1
<1>7. RowInv(e)'
  <2>1. NoJob(e)' <=> NoJob(e)
    BY <1>1 DEF NoJob
  <2> QED BY <1>1, <1>2, <1>3, <1>5, <1>6, <2>1 DEF RowInv, Unreviewed, ShownRow, NextRow
<1>8. ASSUME NEW w \in Worker, Driving(w, e)' PROVE SlotInv(w, e)'
  <2>1. SlotInv(w, e)
    BY <1>4, <1>5, <1>8
  <2>2. OnRow(w, e)' /\ AtOpen(w)' /\ ShownSlot(w)'
    BY <1>1, <1>3, <2>1 DEF SlotInv, OnRow, AtOpen, ShownSlot, Entering, project
  <2>3. Patient => FlagInPlace(w, e)'
    BY <1>1, <1>2, <1>3, <2>1 DEF SlotInv, FlagInPlace
  <2> QED BY <1>6, <2>2, <2>3 DEF SlotInv
<1>9. ShownApproved'
  BY <1>1, <1>5 DEF project, ShownApproved
<1> QED BY <1>7, <1>8, <1>9, OneRunStages

(* A signal at a held gate finds the slot where the flag is taken. *)
LEMMA SignalStages ==
  ASSUME OneRun, StageInv, NEW r \in Request, NEW e \in Exec, rexec[r] = e, Signal(r)
  PROVE  Stages'
<1>1. /\ UNCHANGED <<row, project, slots>> /\ rpc[r] = "signal"
      /\ \A q \in Request : rexec[q] = e => q = r
  BY DEF Signal, SignalByJob, SignalByFlag, StageInv, DriverInv, Alone
<1>2. /\ (\A v \in Worker : Driving(v, e)' <=> Driving(v, e)) /\ gate'[e] = gate[e] /\ status'[e] = status[e]
      /\ (AtHeld(e)' <=> AtHeld(e)) /\ (AtReleased(e)' <=> AtReleased(e)) /\ (NoSlot(e)' <=> NoSlot(e))
      /\ UNCHANGED <<wpc, wexec, wgate>>
  BY <1>1 DEF Driving, AtHeld, AtReleased, NoSlot, row, slots
<1>3. RowInv(e) /\ ShownApproved /\ \A w \in Worker : Driving(w, e) => SlotInv(w, e)
  BY DEF StageInv, Stages
<1>4. ~(AtReleased(e) /\ gate[e] \in approved) /\ ~Publishing(e)
  BY <1>1, <1>3 DEF RowInv, Unreviewed, Publishing, Answering
<1>5. \A q \in Request : rexec'[q] = e => q = r /\ rpc'[q] = "publish"
  BY <1>1, ConstantsAssumption
     DEF Signal, SignalByJob, SignalByFlag, HandlerStep, EndHandler, StageInv, DriverInv, IInv, TypeOK, RequestType
<1>6. ~Pending(e)' /\ ~Signalling(e)'
  BY <1>5 DEF Pending, Signalling, Answering
<1>7. RowInv(e)'
  <2>1. Unreviewed(e)' /\ NextRow(e)'
    BY <1>1, <1>2, <1>4, <1>5 DEF Unreviewed, NextRow, project
  <2>2. ShownRow(e)'
    BY <1>1, <1>3 DEF RowInv, ShownRow, row, project
  <2> QED BY <1>2, <1>3, <1>6, <2>1, <2>2 DEF RowInv
<1>8. ASSUME NEW w \in Worker, Driving(w, e)' PROVE SlotInv(w, e)'
  <2>1. Driving(w, e) /\ SlotInv(w, e) /\ ~Resuming(r, e)
    BY <1>2, <1>8, SoleSlot
  <2>2. OnRow(w, e)' /\ AtOpen(w)' /\ ShownSlot(w)'
    BY <1>1, <1>2, <2>1 DEF SlotInv, OnRow, Follows, AtOpen, ShownSlot, Entering, project
  <2>3. SignalByFlag(r)
    BY <1>1, <2>1 DEF Signal, Resuming
  <2>4. CASE rop[r] = "cancel"
    <3>1. contFlag'[e] = contFlag[e]
      BY <2>3, <2>4 DEF SignalByFlag
    <3> QED BY <1>2, <1>4, <1>5, <1>6, <2>1, <2>2, <3>1 DEF SlotInv, FlagInPlace
  <2>5. CASE rop[r] # "cancel"
    <3>1. Signalling(e) /\ Publishing(e)'
      <4>1. rexec'[r] = e /\ rop'[r] = rop[r] /\ rpc'[r] = "publish"
        BY <2>3 DEF SignalByFlag, HandlerStep, StageInv, DriverInv, IInv, TypeOK, RequestType
      <4> QED BY <1>1, <2>5, <4>1 DEF Signalling, Publishing, Answering
    <3>2. Patient /\ AtHeld(e) => wpc[w] \notin {"work", "closing", "done"}
      <4> SUFFICES ASSUME Patient, AtHeld(e) PROVE wpc[w] \notin {"work", "closing", "done"}
        OBVIOUS
      <4>1. wgate[w] = gate[e] /\ wpc[w] \notin {"closing", "done"} /\ Follows(w, gate[e])
        BY <2>1, <3>1 DEF SlotInv, FlagInPlace, OnRow
      <4>2. gate[e] \in Nat
        BY ConstantsAssumption DEF StageInv, DriverInv, IInv, TypeOK, RowType
      <4> QED BY <4>1, <4>2 DEF Follows
    <3> QED BY <1>2, <1>5, <1>6, <2>2, <3>1, <3>2 DEF SlotInv, FlagInPlace
  <2> QED BY <2>4, <2>5
<1>9. ShownApproved'
  BY <1>1, <1>3 DEF project, ShownApproved
<1> QED BY <1>7, <1>8, <1>9, OneRunStages

(* A message wakes every slot that waits for it. *)
LEMMA PublishStages ==
  ASSUME OneRun, StageInv, NEW r \in Request, NEW e \in Exec, rexec[r] = e, Publish(r)
  PROVE  Stages'
<1>1. /\ UNCHANGED <<row, project, contFlag, queued, wexec, wgate>> /\ rpc[r] = "publish"
      /\ \A q \in Request : rexec[q] = e => q = r
      /\ \A q \in Request : rexec'[q] # e
  BY ConstantsAssumption DEF Publish, EndHandler, flags, StageInv, DriverInv, Alone, IInv, TypeOK, RequestType
<1>2. \A v \in Worker : /\ wexec[v] = e => wpc'[v] # "wait"
                        /\ wpc'[v] = wpc[v] \/ (wpc[v] = "wait" /\ wpc'[v] \in {"stopped", "woken"})
  BY DEF Publish
<1>3. \A v \in Worker : Driving(v, e)' <=> Driving(v, e)
  BY <1>1, <1>2 DEF Driving
<1>4. /\ (AtHeld(e)' <=> AtHeld(e)) /\ (AtReleased(e)' <=> AtReleased(e)) /\ gate'[e] = gate[e]
      /\ (NoSlot(e)' <=> NoSlot(e)) /\ status'[e] = status[e] /\ UNCHANGED <<stage, approved>>
  BY <1>1, <1>3 DEF AtHeld, AtReleased, NoSlot, row, project
<1>5. RowInv(e) /\ ShownApproved /\ \A w \in Worker : Driving(w, e) => SlotInv(w, e)
  BY DEF StageInv, Stages
<1>6. ~Pending(e)' /\ ~Signalling(e)'
  BY <1>1 DEF Pending, Signalling, Answering
<1>7. RowInv(e)'
  <2>1. ~(AtReleased(e) /\ gate[e] \in approved)
    BY <1>1, <1>5 DEF RowInv, Unreviewed, Answering
  <2>2. Unreviewed(e)' /\ NextRow(e)'
    BY <1>1, <1>4, <2>1 DEF Unreviewed, NextRow
  <2>3. ShownRow(e)'
    BY <1>1, <1>4, <1>5 DEF RowInv, ShownRow, row
  <2> QED BY <1>4, <1>5, <1>6, <2>2, <2>3 DEF RowInv
<1>8. ASSUME NEW w \in Worker, Driving(w, e)' PROVE SlotInv(w, e)'
  <2>1. SlotInv(w, e) /\ wexec[w] = e
    BY <1>3, <1>5, <1>8 DEF Driving
  <2>2. OnRow(w, e)' /\ AtOpen(w)' /\ ShownSlot(w)'
    BY <1>1, <1>2, <1>4, <2>1 DEF SlotInv, OnRow, Follows, AtOpen, ShownSlot, Entering
  <2>3. Patient => FlagInPlace(w, e)'
    BY <1>1, <1>2, <1>4, <1>6, <2>1 DEF SlotInv, FlagInPlace
  <2> QED BY <1>1, <2>2, <2>3 DEF SlotInv
<1>9. ShownApproved'
  BY <1>4, <1>5 DEF ShownApproved
<1> QED BY <1>7, <1>8, <1>9, OneRunStages

(* Every step of a request keeps the stages. *)
LEMMA RequestStages ==
  ASSUME Steady, OneRun, StageInv, NEW r \in Request, User(r) \/ Handle(r)
  PROVE  Stages'
<1>1. CASE User(r)
  BY <1>1, UserStages DEF User
<1>2. CASE Handle(r)
  <2>1. rexec[r] \in Exec
    BY <1>2 DEF Handle, Grant, Mark, Signal, Publish, StageInv, DriverInv, IInv, TypeOK, RequestType
  <2> QED BY <1>2, <2>1, GrantStages, MarkStages, SignalStages, PublishStages DEF Handle
<1> QED BY <1>1, <1>2

(* The inductive invariant of a project with one run. *)
THEOREM StageInvariance == ASSUME Steady, OneRun PROVE Spec => []StageInv
<1>1. Init => Placed /\ Stages
  <2> SUFFICES ASSUME Init PROVE Stages
    BY PlacesInit DEF Places
  <2>1. /\ approved = {} /\ \A e \in Exec : status[e] = "QUEUED" /\ ~contFlag[e]
        /\ (\A w \in Worker : wexec[w] = NoExec) /\ \A r \in Request : rpc[r] = "idle"
    BY DEF Init
  <2>2. \A e \in Exec, w \in Worker : ~Driving(w, e)
    BY <2>1, ConstantsAssumption DEF Driving
  <2> QED BY <2>1, <2>2 DEF Stages, ShownApproved, RowInv, AtHeld, AtReleased, Unreviewed, ShownRow, NextRow
<1>2. StageInv /\ [Next]_vars => Placed' /\ Stages'
  <2> SUFFICES ASSUME StageInv, [Next]_vars PROVE Stages'
    BY PlacedStep DEF StageInv, DriverInv, IInv
  <2>1. ASSUME NEW w \in Worker, ClaimAny(w) \/ Drive(w) \/ RunAgent(w) \/ Throw(w) \/ ThrowUnrecorded(w) \/ WaitTimeout(w)
        PROVE  Stages'
    BY <2>1, SlotStages
  <2>2. ASSUME NEW r \in Request, User(r) \/ Handle(r) PROVE Stages'
    BY <2>2, RequestStages
  <2>3. ASSUME NEW w \in Worker, Crash(w) PROVE FALSE
    BY <2>3 DEF Crash, Steady, Orderly, StageInv, DriverInv, IInv, TypeOK, QueueType
  <2>4. ASSUME NEW r \in Request, HandlerDies(r) PROVE FALSE
    BY <2>4 DEF HandlerDies, Steady, Orderly, StageInv, DriverInv, IInv, TypeOK, QueueType
  <2>5. ASSUME NEW e \in Exec, FlagExpires(e) \/ EditCases(e) PROVE Stages'
    <3>1. UNCHANGED <<row, project, requests, queued, slots>> /\ (contFlag'[e] => contFlag[e])
      BY <2>5 DEF FlagExpires, EditCases, flags, StageInv, DriverInv, IInv, TypeOK, FlagType
    <3> QED BY <3>1, RestStages DEF slots
  <2>6. CASE UNCHANGED vars
    <3>1. ASSUME NEW e \in Exec PROVE Stages'
      <4>1. UNCHANGED <<row, project, requests, queued, slots, contFlag>>
        BY <2>6 DEF vars, flags
      <4> QED BY <3>1, <4>1, RestStages DEF slots
    <3>2. CASE Exec = {}
      <4>1. UNCHANGED <<approved, stage>>
        BY <2>6 DEF vars, project
      <4>2. ShownApproved'
        BY <4>1 DEF StageInv, Stages, ShownApproved
      <4> QED BY <3>2, <4>2 DEF Stages
    <3> QED BY <3>1, <3>2
  <2> QED BY <2>1, <2>2, <2>3, <2>4, <2>5, <2>6 DEF Next
<1>3. DriverInv /\ Placed /\ Stages <=> StageInv
  BY DEF StageInv
<1> QED BY <1>1, <1>2, <1>3, DriverInvariance, PTL DEF Spec, Steady

(* While a gate is open and no handler is in flight, the stage shown is not behind it. *)
THEOREM StageShown == ASSUME Steady, OneRun PROVE Spec => []StageNotBehind
<1>1. StageInv => StageNotBehind
  BY DEF StageInv, Stages, RowInv, ShownRow, StageNotBehind
<1> QED BY <1>1, StageInvariance, PTL
=============================================================================
