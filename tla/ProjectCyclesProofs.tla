-------------------------- MODULE ProjectCyclesProofs --------------------------
(***************************************************************************)
(* The properties of ProjectCycles for every number of requests and runs.  *)
(* CyclesInv says of each actor what the properties need:                  *)
(*   Placed     a request that makes a next cycle knows a parent           *)
(*   OneRun     a run that had no other beside it is the newest            *)
(*   Picked     what the project row still grants was granted to that run  *)
(*   Sourced    a design up for review or approved wrote its run's cases   *)
(*   AllMoved   a queued or running run has somebody who will act on it    *)
(* One lemma for each part and one step for each action that can disturb   *)
(* it; the other actions leave the variables of the part alone.            *)
(***************************************************************************)
EXTENDS ProjectCycles, FiniteSetTheorems, TLAPS

\* Where a next cycle is being made, the request knows a parent that exists.
PlacedAt(q) ==
  /\ pc[q] = "branch" => seen[q].parent \in Made
  /\ pc[q] \in {"copy", "copying", "advance"} => parent[run[q]] \in Runs

Placed == \A q \in Request : PlacedAt(q)

\* A request past its first write.
About(q) == pc[q] \notin {"idle", "create", "check", "branch"}

\* The bounds are numbers.
LEMMA Bounds == /\ MaxRuns \in Nat /\ 0 \in Numbers /\ Runs \subseteq Numbers
                /\ \A n \in Numbers : n \in Runs <=> n # 0
BY CyclesAssumption DEF Numbers, Runs

\* Runs that exist are among the runs.
LEMMA MadeRuns == ASSUME RowType PROVE Made \subseteq Runs /\ Made \subseteq Numbers
BY CyclesAssumption DEF RowType, Made, Runs, Numbers

\* The statuses that actions write, and the snapshot of an idle request, are typed.
LEMMA Literals ==
  /\ {"NONE", "QUEUED", "RUNNING", "COMPLETED", "FAILED", "CANCELLED", "AWAITING_HELD"} \subseteq Statuses
  /\ NothingSeen \in Snapshots
<1>1. {"NONE", "QUEUED", "RUNNING", "COMPLETED", "FAILED", "CANCELLED", "AWAITING_HELD"} \subseteq Statuses
  BY DEF Statuses, Waiting, Ended
<1> QED BY <1>1, Bounds DEF NothingSeen, Snapshots

\* A request past its first write is about a run that exists.
LEMMA AboutMade ==
  ASSUME RowType, RequestType, NEW q \in Request, About(q)
  PROVE  run[q] \in Made /\ run[q] \in Runs /\ run[q] \in Numbers
BY MadeRuns DEF RequestType, About, Made

\* A handler that is over leaves a typed request.
LEMMA DoneTyped ==
  ASSUME RequestType, NEW q \in Request, Done(q), made' = made PROVE RequestType'
BY Literals, Bounds DEF RequestType, Done, Pcs

\* A status written to a run that exists leaves the rows typed.
LEMMA StatusWrite ==
  ASSUME RowType, NEW i \in Made, NEW s \in Statuses, s # "NONE",
         status' = [status EXCEPT ![i] = s], UNCHANGED <<made, cycle, parent, cases>>
  PROVE  RowType'
<1>1. i \in Runs /\ made \in Nat /\ ~(i > made) BY MadeRuns, CyclesAssumption DEF RowType, Made, Numbers
<1>2. status' \in [Runs -> Statuses] BY <1>1 DEF RowType
<1>3. \A j \in Runs : status'[j] = "NONE" <=> j > made' BY <1>1 DEF RowType
<1> QED BY <1>2, <1>3 DEF RowType

\* The execution rows stay typed.
LEMMA RowTypeStep ==
  ASSUME RowType, RequestType, Placed, [Next]_vars
  PROVE  RowType'
PROOF
  <1>1. ASSUME UNCHANGED rows PROVE RowType'
    BY <1>1 DEF rows, RowType
  <1>2. ASSUME NEW q \in Request, DropDuplicates(q) PROVE RowType'
    BY <1>2, CyclesAssumption DEF DropDuplicates, Goto, rows, project, worker, requests, history, Runs,
       Numbers, Made, RowType, Statuses, Waiting, Awaiting, Ended, Released
  <1>3. ASSUME NEW q \in Request, Create(q) PROVE RowType'
    BY <1>3, CyclesAssumption DEF Create, NewRun, Goto, rows, project, worker, requests, history, Runs,
       Numbers, Made, RowType, Statuses, Waiting, Awaiting, Ended, Released, RequestType
  <1>4. ASSUME NEW q \in Request, Branch(q) PROVE RowType'
    <2>1. seen[q].parent \in Runs /\ seen[q].cycle \in Nat
      BY <1>4, MadeRuns DEF Branch, Placed, PlacedAt, RequestType, Snapshots
    <2>2. Larger(seen[q].cycle, cycle[seen[q].parent]) + 1 \in Nat BY <2>1 DEF Larger, RowType
    <2>3. seen[q].parent \in Numbers BY <2>1, Bounds
    <2>4. /\ made \in Nat /\ made < MaxRuns /\ made' = made + 1 /\ made + 1 \in Runs /\ made' \in Numbers
          /\ status' = [status EXCEPT ![made + 1] = "QUEUED"]
          /\ cycle' = [cycle EXCEPT ![made + 1] = Larger(seen[q].cycle, cycle[seen[q].parent]) + 1]
          /\ parent' = [parent EXCEPT ![made + 1] = seen[q].parent] /\ cases' = cases
      BY <1>4, CyclesAssumption DEF Branch, NewRun, RowType, Runs, Numbers
    <2>5. /\ status' \in [Runs -> Statuses] /\ cycle' \in [Runs -> Nat]
          /\ parent' \in [Runs -> Numbers]
      BY <2>2, <2>3, <2>4, Literals DEF RowType
    <2>6. ASSUME NEW i \in Runs PROVE status'[i] = "NONE" <=> i > made'
      <3>1. i \in Nat BY DEF Runs
      <3>2. CASE i = made + 1 BY <2>4, <3>2 DEF RowType
      <3>3. CASE i # made + 1
        <4>1. status'[i] = status[i] BY <2>4, <3>3 DEF RowType
        <4>2. i > made' <=> i > made BY <2>4, <3>1, <3>3
        <4> QED BY <4>1, <4>2 DEF RowType
      <3> QED BY <3>2, <3>3
    <2> QED BY <2>4, <2>5, <2>6 DEF RowType
  <1>5. ASSUME NEW q \in Request, CopyFirst(q) PROVE RowType'
    BY <1>5, CyclesAssumption DEF CopyFirst, Goto, rows, project, worker, requests, history, Runs,
       Numbers, Made, RowType, Statuses, Waiting, Awaiting, Ended, Released, RequestType, Placed,
          PlacedAt, Pcs
  <1>6. ASSUME NEW q \in Request, CopyRest(q) PROVE RowType'
    BY <1>6, CyclesAssumption DEF CopyRest, Goto, rows, project, worker, requests, history, Runs,
       Numbers, Made, RowType, Statuses, Waiting, Awaiting, Ended, Released, RequestType, Placed,
          PlacedAt, Pcs
  <1>7. ASSUME NEW q \in Request, NEW i \in Made, NEW g \in Released, Approve(q, i, g) PROVE RowType'
    BY <1>7, StatusWrite, Literals DEF Approve
  <1>8. ASSUME NEW i \in Made, SignOff(i) PROVE RowType'
    BY <1>8, StatusWrite, Literals DEF SignOff
  <1>9. ASSUME NEW i \in Made, Cancel(i) PROVE RowType'
    BY <1>9, StatusWrite, Literals DEF Cancel
  <1>10. ASSUME NEW i \in Made, Take(i) PROVE RowType'
    <2>1. CASE UNCHANGED status BY <1>10, <1>1, <2>1 DEF Take, rows
    <2>2. CASE status' = [status EXCEPT ![i] = "RUNNING"] BY <1>10, <2>2, StatusWrite, Literals DEF Take
    <2> QED BY <1>10, <2>1, <2>2 DEF Take
  <1>11. ASSUME NEW i \in Made, Design(i) PROVE RowType'
    BY <1>11, CyclesAssumption DEF Design, StopsAt, Unapproved, rows, project, worker, requests, history,
       Runs, Numbers, Made, RowType, Statuses, Waiting, Awaiting, Ended, Released
  <1>12. ASSUME NEW i \in Made, NEW g \in Released, Prepare(i, g) PROVE RowType'
    BY <1>12, CyclesAssumption DEF Prepare, StopsAt, Unapproved, rows, project, worker, requests,
       history, Runs, Numbers, Made, RowType, Statuses, Waiting, Awaiting, Ended, Released
  <1>13. ASSUME NEW i \in Made, Execute(i) PROVE RowType'
    BY <1>13, StatusWrite, Literals DEF Execute
  <1>14. ASSUME NEW i \in Made, Fail(i) PROVE RowType'
    BY <1>14, StatusWrite, Literals DEF Fail
  <1>15. ASSUME NEW q \in Request, StartFresh(q) \/ StartAgain(q) \/ Resume(q) \/ Reset(q)
     \/ NextLoad(q) \/ NextCheck(q) \/ Advance(q) \/ Enqueue(q) \/ Die(q) PROVE RowType'
    BY <1>1, <1>15 DEF StartFresh, Goto, NoneActive, StartAgain, Resume, Done, StillQueued, Reset,
       Withdrawn, NextLoad, NextCheck, Advance, NextCycleApprovals, Enqueue, Die, rows, project, worker,
          requests, history
  <1>16. CASE Withdraw \/ ClearAll \/ ApproveRequirements
    BY <1>1, <1>16 DEF Withdraw, Withdrawn, ClearAll, NoApproval, ApproveRequirements, rows, project,
       worker, requests, history
  <1>17. CASE UNCHANGED vars BY <1>1, <1>17 DEF vars, rows, project, worker, requests, history
  <1> QED
    BY <1>2, <1>3, <1>4, <1>5, <1>6, <1>7, <1>8, <1>9, <1>10, <1>11, <1>12, <1>13, <1>14, <1>15, <1>16,
       <1>17
    DEF Next, RequestStep, StartStep, NextCycleStep, WorkerStep, Released

\* The project row stays typed.
LEMMA ProjectTypeStep ==
  ASSUME RowType, ProjectType, RequestType, [Next]_vars
  PROVE  ProjectType'
PROOF
  <1>1. ASSUME UNCHANGED project PROVE ProjectType'
    BY <1>1 DEF project, ProjectType
  <1>2. ASSUME NEW q \in Request, Reset(q) PROVE ProjectType'
    BY <1>2, CyclesAssumption DEF Reset, Goto, Withdrawn, rows, project, worker, requests, history, Runs,
       Numbers, Made, ProjectType, Released
  <1>3. ASSUME NEW q \in Request, Advance(q) PROVE ProjectType'
    <2>1. About(q) BY <1>3 DEF Advance, About
    <2>2. cycle[run[q]] \in Nat BY <2>1, AboutMade DEF RowType
    <2> QED BY <1>3, <2>2, Bounds DEF Advance, NextCycleApprovals, ProjectType
  <1>4. ASSUME NEW q \in Request, NEW i \in Made, NEW g \in Released, Approve(q, i, g) PROVE ProjectType'
    BY <1>4, CyclesAssumption DEF Approve, Goto, rows, project, worker, requests, history, Runs, Numbers,
       Made, ProjectType, Released, RowType
  <1>5. CASE Withdraw
    BY <1>5, Bounds DEF Withdraw, Withdrawn, ProjectType
  <1>6. CASE ClearAll
    BY <1>6, Bounds DEF ClearAll, NoApproval, ProjectType
  <1>7. CASE ApproveRequirements
    BY <1>7, CyclesAssumption DEF ApproveRequirements, rows, project, worker, requests, history, Runs,
       Numbers, Made, ProjectType, Released
  <1>8. ASSUME NEW q \in Request, StartFresh(q) \/ StartAgain(q) \/ DropDuplicates(q) \/ Resume(q)
     \/ Create(q) \/ NextLoad(q) \/ NextCheck(q) \/ Branch(q) \/ CopyFirst(q) \/ CopyRest(q) \/ Enqueue(q) \/ Die(q) PROVE ProjectType'
    BY <1>1, <1>8 DEF StartFresh, Goto, NoneActive, StartAgain, DropDuplicates, Resume, Done,
       StillQueued, Create, NewRun, NextLoad, NextCheck, Branch, Larger, CopyFirst, CopyRest, Enqueue,
          Die, rows, project, worker, requests, history
  <1>9. ASSUME NEW i \in Made, Take(i) \/ Design(i) \/ Execute(i) \/ Fail(i) \/ SignOff(i)
     \/ Cancel(i) PROVE ProjectType'
    BY <1>1, <1>9 DEF Take, Design, StopsAt, Unapproved, Execute, Fail, AttemptLeft, SignOff, Cancel,
       rows, project, worker, requests, history
  <1>10. ASSUME NEW i \in Made, NEW g \in Released, Prepare(i, g) PROVE ProjectType'
    BY <1>1, <1>10 DEF Prepare, StopsAt, Unapproved, rows, project, worker, requests, history
  <1>11. CASE UNCHANGED vars BY <1>1, <1>11 DEF vars, rows, project, worker, requests, history
  <1> QED
    BY <1>2, <1>3, <1>4, <1>5, <1>6, <1>7, <1>8, <1>9, <1>10, <1>11
    DEF Next, RequestStep, StartStep, NextCycleStep, WorkerStep, Released

\* Jobs, slots and attempts stay typed.
LEMMA WorkerTypeStep ==
  ASSUME RowType, WorkerType, RequestType, [Next]_vars
  PROVE  WorkerType'
PROOF
  <1>1. ASSUME UNCHANGED worker PROVE WorkerType'
    BY <1>1 DEF worker, WorkerType
  <1>2. ASSUME NEW q \in Request, Resume(q) PROVE WorkerType'
    <2>1. About(q) BY <1>2 DEF Resume, About
    <2>2. run[q] \in Runs BY <2>1, AboutMade
    <2> QED BY <1>2, <2>2 DEF Resume, WorkerType
  <1>3. ASSUME NEW q \in Request, Enqueue(q) PROVE WorkerType'
    <2>1. About(q) BY <1>3 DEF Enqueue, About
    <2>2. run[q] \in Runs BY <2>1, AboutMade
    <2> QED BY <1>3, <2>2 DEF Enqueue, WorkerType
  <1>4. ASSUME NEW i \in Made, SignOff(i) PROVE WorkerType'
    BY <1>4, CyclesAssumption DEF SignOff, rows, project, worker, requests, history, Runs, Numbers, Made,
       RowType, WorkerType
  <1>5. ASSUME NEW i \in Made, Cancel(i) PROVE WorkerType'
    BY <1>5, CyclesAssumption DEF Cancel, rows, project, worker, requests, history, Runs, Numbers, Made,
       RowType, WorkerType
  <1>6. ASSUME NEW i \in Made, Take(i) PROVE WorkerType'
    <2>1. i \in Runs BY MadeRuns
    <2> QED BY <1>6, <2>1 DEF Take, WorkerType
  <1>7. ASSUME NEW i \in Made, Design(i) PROVE WorkerType'
    BY <1>7, CyclesAssumption DEF Design, StopsAt, Unapproved, rows, project, worker, requests, history,
       Runs, Numbers, Made, RowType, WorkerType
  <1>8. ASSUME NEW i \in Made, NEW g \in Released, Prepare(i, g) PROVE WorkerType'
    BY <1>8, CyclesAssumption DEF Prepare, StopsAt, Unapproved, rows, project, worker, requests, history,
       Runs, Numbers, Made, RowType, WorkerType
  <1>9. ASSUME NEW i \in Made, Fail(i) PROVE WorkerType'
    <2>1. i \in Runs BY MadeRuns
    <2>2. CASE AttemptLeft(i)
      <3>1. tries[i] + 1 \in 0..(MaxAttempts - 1)
        BY <2>1, <2>2, CyclesAssumption DEF AttemptLeft, WorkerType
      <3> QED BY <1>9, <2>1, <2>2, <3>1 DEF Fail, WorkerType
    <2>3. CASE ~AttemptLeft(i) BY <1>9, <2>3 DEF Fail, WorkerType
    <2> QED BY <2>2, <2>3
  <1>10. ASSUME NEW q \in Request, StartFresh(q) \/ StartAgain(q) \/ DropDuplicates(q) \/ Create(q)
     \/ Reset(q) \/ NextLoad(q) \/ NextCheck(q) \/ Branch(q) \/ CopyFirst(q) \/ CopyRest(q) \/ Advance(q) \/ Die(q) PROVE WorkerType'
    BY <1>1, <1>10 DEF StartFresh, Goto, NoneActive, StartAgain, DropDuplicates, Create, NewRun, Reset,
       Withdrawn, NextLoad, NextCheck, Done, Branch, Larger, CopyFirst, CopyRest, Advance,
          NextCycleApprovals, Die, rows, project, worker, requests, history
  <1>11. ASSUME NEW i \in Made, Execute(i) PROVE WorkerType'
    BY <1>1, <1>11 DEF Execute, Unapproved, rows, project, worker, requests, history
  <1>12. CASE Withdraw \/ ClearAll \/ ApproveRequirements
    BY <1>1, <1>12 DEF Withdraw, Withdrawn, ClearAll, NoApproval, ApproveRequirements, rows, project,
       worker, requests, history
  <1>13. ASSUME NEW q \in Request, NEW i \in Made, NEW g \in Released, Approve(q, i, g) PROVE WorkerType'
    BY <1>1, <1>13 DEF Approve, Goto, rows, project, worker, requests, history
  <1>14. CASE UNCHANGED vars BY <1>1, <1>14 DEF vars, rows, project, worker, requests, history
  <1> QED
    BY <1>2, <1>3, <1>4, <1>5, <1>6, <1>7, <1>8, <1>9, <1>10, <1>11, <1>12, <1>13, <1>14
    DEF Next, RequestStep, StartStep, NextCycleStep, WorkerStep, Released

\* The histories stay typed.
LEMMA HistoryTypeStep ==
  ASSUME RowType, RequestType, HistoryType, [Next]_vars
  PROVE  HistoryType'
PROOF
  <1>1. ASSUME UNCHANGED history PROVE HistoryType'
    BY <1>1 DEF history, HistoryType
  <1>2. ASSUME NEW q \in Request, Resume(q) PROVE HistoryType'
    BY <1>2, CyclesAssumption DEF Resume, Done, StillQueued, rows, project, worker, requests, history,
       Runs, Numbers, Made, RowType, HistoryType, RequestType, Pcs
  <1>3. ASSUME NEW q \in Request, Create(q) PROVE HistoryType'
    BY <1>3, CyclesAssumption DEF Create, NewRun, Goto, rows, project, worker, requests, history, Runs,
       Numbers, Made, RowType, HistoryType
  <1>4. ASSUME NEW q \in Request, Reset(q) PROVE HistoryType'
    BY <1>4, CyclesAssumption DEF Reset, Goto, Withdrawn, rows, project, worker, requests, history, Runs,
       Numbers, Made, RowType, HistoryType, RequestType, Pcs
  <1>5. ASSUME NEW q \in Request, Branch(q) PROVE HistoryType'
    BY <1>5, CyclesAssumption DEF Branch, NewRun, Goto, Larger, rows, project, worker, requests, history,
       Runs, Numbers, Made, RowType, HistoryType
  <1>6. ASSUME NEW q \in Request, Advance(q) PROVE HistoryType'
    BY <1>6, CyclesAssumption DEF Advance, Goto, NextCycleApprovals, rows, project, worker, requests,
       history, Runs, Numbers, Made, RowType, HistoryType, RequestType, Pcs
  <1>7. ASSUME NEW q \in Request, Die(q) PROVE HistoryType'
    <2>1. run[q] \in Numbers BY DEF RequestType
    <2>2. lost' \subseteq Runs BY <1>7, <2>1, Bounds DEF Die, HistoryType
    <2> QED BY <1>7, <2>2, CyclesAssumption DEF Die, HistoryType
  <1>8. ASSUME NEW i \in Made, Take(i) PROVE HistoryType'
    BY <1>8, CyclesAssumption DEF Take, rows, project, worker, requests, history, Runs, Numbers, Made,
       RowType, HistoryType
  <1>9. CASE Withdraw
    BY <1>9, CyclesAssumption DEF Withdraw, Withdrawn, rows, project, worker, requests, history, Runs,
       Numbers, Made, RowType, HistoryType
  <1>10. CASE ClearAll
    BY <1>10, CyclesAssumption DEF ClearAll, NoApproval, rows, project, worker, requests, history, Runs,
       Numbers, Made, RowType, HistoryType
  <1>11. ASSUME NEW q \in Request, StartFresh(q) \/ StartAgain(q) \/ DropDuplicates(q) \/ NextLoad(q)
     \/ NextCheck(q) \/ CopyFirst(q) \/ CopyRest(q) \/ Enqueue(q) PROVE HistoryType'
    BY <1>1, <1>11 DEF StartFresh, Goto, NoneActive, StartAgain, DropDuplicates, NextLoad, NextCheck,
       Done, CopyFirst, CopyRest, Enqueue, rows, project, worker, requests, history
  <1>12. ASSUME NEW i \in Made, Design(i) \/ Execute(i) \/ Fail(i) \/ SignOff(i)
     \/ Cancel(i) PROVE HistoryType'
    BY <1>1, <1>12 DEF Design, StopsAt, Unapproved, Execute, Fail, AttemptLeft, SignOff, Cancel, rows,
       project, worker, requests, history
  <1>13. CASE ApproveRequirements
    BY <1>1, <1>13 DEF ApproveRequirements, rows, project, worker, requests, history
  <1>14. ASSUME NEW q \in Request, NEW i \in Made, NEW g \in Released, Approve(q, i, g) PROVE HistoryType'
    BY <1>1, <1>14 DEF Approve, Goto, rows, project, worker, requests, history
  <1>15. ASSUME NEW i \in Made, NEW g \in Released, Prepare(i, g) PROVE HistoryType'
    BY <1>1, <1>15 DEF Prepare, StopsAt, Unapproved, rows, project, worker, requests, history
  <1>16. CASE UNCHANGED vars BY <1>1, <1>16 DEF vars, rows, project, worker, requests, history
  <1> QED
    BY <1>2, <1>3, <1>4, <1>5, <1>6, <1>7, <1>8, <1>9, <1>10, <1>11, <1>12, <1>13, <1>14, <1>15, <1>16
    DEF Next, RequestStep, StartStep, NextCycleStep, WorkerStep, Released

\* Requests stay typed, and what they are about exists.
LEMMA RequestTypeStep ==
  ASSUME RowType, ProjectType, RequestType, [Next]_vars
  PROVE  RequestType'
PROOF
  <1>1. ASSUME UNCHANGED <<made, requests>> PROVE RequestType'
    BY <1>1 DEF requests, RequestType
  <1>2. ASSUME NEW q \in Request, StartFresh(q) PROVE RequestType'
    BY <1>2, CyclesAssumption DEF StartFresh, Goto, NoneActive, rows, project, worker, requests, history,
       Runs, Numbers, Made, RowType, RequestType, Snapshots, NothingSeen, Pcs
  <1>3. ASSUME NEW q \in Request, StartAgain(q) PROVE RequestType'
    <2>1. PICK i \in Active : run' = [run EXCEPT ![q] = i] /\ seen' = [seen EXCEPT ![q].status = status[i]]
      BY <1>3 DEF StartAgain
    <2>2. i \in Made /\ i \in Numbers /\ status[i] \in Statuses BY MadeRuns DEF Active, RowType
    <2>3. seen' \in [Request -> Snapshots] BY <2>1, <2>2 DEF RequestType, Snapshots
    <2> QED BY <1>3, <2>1, <2>2, <2>3 DEF StartAgain, Goto, RequestType, Pcs, rows, Made
  <1>4. ASSUME NEW q \in Request, DropDuplicates(q) PROVE RequestType'
    BY <1>4, CyclesAssumption DEF DropDuplicates, Goto, rows, project, worker, requests, history, Runs,
       Numbers, Made, RowType, RequestType, Snapshots, NothingSeen, Pcs
  <1>5. ASSUME NEW q \in Request, Resume(q) PROVE RequestType'
    BY <1>5, DoneTyped DEF Resume, rows
  <1>6. ASSUME NEW q \in Request, Create(q) PROVE RequestType'
    <2>1. made' \in Numbers /\ made' = made + 1 /\ made \in Nat
      BY <1>6, CyclesAssumption DEF Create, NewRun, RowType, Numbers
    <2> QED BY <1>6, <2>1 DEF Create, NewRun, Goto, RequestType, Pcs
  <1>7. ASSUME NEW q \in Request, Reset(q) PROVE RequestType'
    BY <1>7, CyclesAssumption DEF Reset, Goto, Withdrawn, rows, project, worker, requests, history, Runs,
       Numbers, Made, RowType, RequestType, Snapshots, NothingSeen, Pcs
  <1>8. ASSUME NEW q \in Request, NextLoad(q) PROVE RequestType'
    BY <1>8, CyclesAssumption DEF NextLoad, Goto, rows, project, worker, requests, history, Runs,
       Numbers, Made, RowType, RequestType, Snapshots, NothingSeen, Pcs, ProjectType
  <1>9. ASSUME NEW q \in Request, NextCheck(q) PROVE RequestType'
    <2>1. CASE Done(q) BY <1>9, <2>1, DoneTyped DEF NextCheck, rows
    <2>2. CASE NoneActive /\ made > 0
      <3>1. PICK i \in Made : seen' = [seen EXCEPT ![q].parent = i] BY <1>9, <2>2 DEF NextCheck
      <3>2. i \in Numbers BY MadeRuns
      <3>3. seen' \in [Request -> Snapshots] BY <3>1, <3>2 DEF RequestType, Snapshots
      <3> QED BY <1>9, <2>2, <3>3 DEF NextCheck, Goto, RequestType, Pcs, rows
    <2> QED BY <1>9, <2>1, <2>2 DEF NextCheck
  <1>10. ASSUME NEW q \in Request, Branch(q) PROVE RequestType'
    <2>1. made' \in Numbers /\ made' = made + 1 /\ made \in Nat
      BY <1>10, CyclesAssumption DEF Branch, NewRun, RowType, Numbers
    <2> QED BY <1>10, <2>1 DEF Branch, NewRun, Goto, RequestType, Pcs
  <1>11. ASSUME NEW q \in Request, CopyFirst(q) PROVE RequestType'
    BY <1>11, CyclesAssumption DEF CopyFirst, Goto, rows, project, worker, requests, history, Runs,
       Numbers, Made, RowType, RequestType, Snapshots, NothingSeen, Pcs
  <1>12. ASSUME NEW q \in Request, CopyRest(q) PROVE RequestType'
    BY <1>12, CyclesAssumption DEF CopyRest, Goto, rows, project, worker, requests, history, Runs,
       Numbers, Made, RowType, RequestType, Snapshots, NothingSeen, Pcs
  <1>13. ASSUME NEW q \in Request, Advance(q) PROVE RequestType'
    BY <1>13, CyclesAssumption DEF Advance, Goto, NextCycleApprovals, rows, project, worker, requests,
       history, Runs, Numbers, Made, RowType, RequestType, Snapshots, NothingSeen, Pcs
  <1>14. ASSUME NEW q \in Request, Enqueue(q) PROVE RequestType'
    BY <1>14, DoneTyped DEF Enqueue, rows
  <1>15. ASSUME NEW q \in Request, Die(q) PROVE RequestType'
    BY <1>15, DoneTyped DEF Die, rows
  <1>16. ASSUME NEW q \in Request, NEW i \in Made, NEW g \in Released, Approve(q, i, g) PROVE RequestType'
    BY <1>16, CyclesAssumption DEF Approve, Goto, rows, project, worker, requests, history, Runs,
       Numbers, Made, RowType, RequestType, Snapshots, NothingSeen, Pcs, Released
  <1>17. ASSUME NEW i \in Made, Take(i) \/ Design(i) \/ Execute(i) \/ Fail(i) \/ SignOff(i)
     \/ Cancel(i) PROVE RequestType'
    BY <1>1, <1>17 DEF Take, Design, StopsAt, Unapproved, Execute, Fail, AttemptLeft, SignOff, Cancel,
       rows, project, worker, requests, history
  <1>18. CASE Withdraw \/ ClearAll \/ ApproveRequirements
    BY <1>1, <1>18 DEF Withdraw, Withdrawn, ClearAll, NoApproval, ApproveRequirements, rows, project,
       worker, requests, history
  <1>19. ASSUME NEW i \in Made, NEW g \in Released, Prepare(i, g) PROVE RequestType'
    BY <1>1, <1>19 DEF Prepare, StopsAt, Unapproved, rows, project, worker, requests, history
  <1>20. CASE UNCHANGED vars BY <1>1, <1>20 DEF vars, rows, project, worker, requests, history
  <1> QED
    BY <1>2, <1>3, <1>4, <1>5, <1>6, <1>7, <1>8, <1>9, <1>10, <1>11, <1>12, <1>13, <1>14, <1>15, <1>16,
       <1>17, <1>18, <1>19, <1>20
    DEF Next, RequestStep, StartStep, NextCycleStep, WorkerStep, Released

\* Histories and approvals are about runs that exist.
SettledMade == \A i \in Runs : settled[i] => i \in Made

AskedMade == \A g \in Released : approval[g] \in Made \union {0}

\* While no run has been beside another only the newest is active.
OneRun == ~crossed => Active \subseteq {made}

\* The approvals on the project row are cleared or the newest run's, once the row was reset
\* for it; its design's only when start made it, since a next cycle keeps the design.
Picked ==
  ~crossed /\ made \in Runs /\ settled[made] =>
    /\ approval["DATA"] \in {0, made}
    /\ parent[made] = 0 => approval["DESIGN"] \in {0, made}

Own(i) == cases[i] = [from |-> i, whole |-> TRUE]

\* A run made by start has its own design's cases once that design is up for review.
SourcedAt(i) ==
  parent[i] = 0 /\ (status[i] = "AWAITING_DESIGN" \/ approval["DESIGN"] = i) => Own(i)

Sourced == \A i \in Runs : SourcedAt(i)

\* Somebody will still act on the run: a request that only resumes it leaves it as it is.
Moves(q, i) == run[q] = i /\ pc[q] \in {"reset", "enqueue", "copy", "copying", "advance"}
Moved(i)    == i \in jobs \union driving \union lost \/ \E q \in Request : Moves(q, i)
AllMoved    == \A i \in Made : status[i] \in {"QUEUED", "RUNNING"} => Moved(i)

\* What a new run changes: itself.
LEMMA Newcomer ==
  ASSUME RowType, NEW q \in Request, NEW c, NEW p, NewRun(q, c, p)
  PROVE  /\ made + 1 \in Runs /\ made + 1 \notin Made /\ made + 1 # 0
         /\ made' = made + 1 /\ Made' = Made \union {made + 1}
         /\ status'[made + 1] = "QUEUED" /\ parent'[made + 1] = p
         /\ \A i \in Runs \ {made + 1} : status'[i] = status[i] /\ parent'[i] = parent[i]
         /\ Active' = Active \union {made + 1}
PROOF
  <1>1. /\ made \in Nat /\ made < MaxRuns /\ made' = made + 1 /\ made + 1 \in Runs
        /\ made + 1 \notin Made /\ Made' = Made \union {made + 1}
    BY CyclesAssumption DEF NewRun, RowType, Numbers, Runs, Made
  <1>2. /\ status' = [status EXCEPT ![made + 1] = "QUEUED"]
        /\ parent' = [parent EXCEPT ![made + 1] = p]
    BY DEF NewRun
  <1>3. /\ status'[made + 1] = "QUEUED" /\ parent'[made + 1] = p
        /\ \A i \in Runs \ {made + 1} : status'[i] = status[i] /\ parent'[i] = parent[i]
    BY <1>1, <1>2 DEF RowType
  <1>4. \A i \in Made : status'[i] = status[i] BY <1>1, <1>3, MadeRuns
  <1>5. Active' = Active \union {made + 1} BY <1>1, <1>3, <1>4 DEF Active, Ended
  <1> QED BY <1>1, <1>3, <1>5

\* What a status written to one run changes.
LEMMA StatusMove ==
  ASSUME RowType, NEW i \in Made, NEW s, status' = [status EXCEPT ![i] = s], made' = made
  PROVE  /\ i \in Runs /\ status'[i] = s /\ \A j \in Runs \ {i} : status'[j] = status[j]
         /\ s \in Ended => Active' \subseteq Active
         /\ s \notin Ended => Active' = Active \union {i}
PROOF
  <1>1. i \in Runs /\ status'[i] = s /\ \A j \in Runs \ {i} : status'[j] = status[j]
    BY MadeRuns DEF RowType
  <1>2. Made' = Made BY DEF Made
  <1>3. s \in Ended => Active' \subseteq Active BY <1>1, <1>2, MadeRuns DEF Active
  <1>4. s \notin Ended => Active' = Active \union {i} BY <1>1, <1>2, MadeRuns DEF Active
  <1> QED BY <1>1, <1>3, <1>4

\* A run at a gate is active, and is not for a worker or a request to move.
LEMMA AwaitingActive == \A g \in Released : Awaiting[g] \notin Ended
BY DEF Released, Awaiting, Ended

\* The statuses of the released gates.
LEMMA AwaitingStatus == \A g \in Released : Awaiting[g] \in Statuses \ {"QUEUED", "RUNNING"}
BY DEF Released, Awaiting, Statuses, Waiting

\* The cycle and the parent a new run gets are of their types.
LEMMA NewArguments ==
  ASSUME RowType, RequestType, Placed, NEW q \in Request, pc[q] = "branch"
  PROVE  /\ Larger(seen[q].cycle, cycle[seen[q].parent]) + 1 \in Nat
         /\ seen[q].parent \in Runs /\ seen[q].parent \in Numbers
PROOF
  <1>1. seen[q].parent \in Runs /\ seen[q].cycle \in Nat
    BY MadeRuns DEF Placed, PlacedAt, RequestType, Snapshots
  <1>2. Larger(seen[q].cycle, cycle[seen[q].parent]) + 1 \in Nat BY <1>1 DEF Larger, RowType
  <1> QED BY <1>1, <1>2, Bounds


\* Requests that make a next cycle keep their parent.
LEMMA PlacedStep ==
  ASSUME RowType, RequestType, Placed, [Next]_vars
  PROVE  Placed'
PROOF
  <1>1. ASSUME UNCHANGED <<made, parent, requests>> PROVE Placed'
    BY <1>1 DEF requests, Placed, PlacedAt, Made
  <1>2. ASSUME NEW q \in Request, StartFresh(q) PROVE Placed'
    BY <1>2, CyclesAssumption DEF StartFresh, Goto, NoneActive, rows, project, worker, requests, history,
       Placed, PlacedAt, Made, Runs, Numbers, RowType, RequestType, Snapshots, Pcs
  <1>3. ASSUME NEW q \in Request, StartAgain(q) PROVE Placed'
    BY <1>3, CyclesAssumption DEF StartAgain, Goto, rows, project, worker, requests, history, Placed,
       PlacedAt, Made, Runs, Numbers, RowType, RequestType, Snapshots, Pcs
  <1>4. ASSUME NEW q \in Request, DropDuplicates(q) PROVE Placed'
    BY <1>4, CyclesAssumption DEF DropDuplicates, Goto, rows, project, worker, requests, history, Placed,
       PlacedAt, Made, Runs, Numbers, RowType, RequestType, Snapshots, Pcs
  <1>5. ASSUME NEW q \in Request, Resume(q) PROVE Placed'
    BY <1>5, CyclesAssumption DEF Resume, Done, StillQueued, rows, project, worker, requests, history,
       Placed, PlacedAt, Made, Runs, Numbers, RowType, RequestType, Snapshots, Pcs
  <1>6. ASSUME NEW q \in Request, Create(q) PROVE Placed'
    <2>1. PICK c \in Nat, p \in Numbers : NewRun(q, c, p) /\ (pc[q] = "branch" => p \in Runs)
      BY <1>6, NewArguments, Bounds DEF Create
    <2>2. /\ Made \subseteq Made' /\ parent'[made + 1] = p
          /\ \A i \in Made : parent'[i] = parent[i]
      BY <2>1, Newcomer, MadeRuns
    <2>3. /\ pc' = [pc EXCEPT ![q] = "reset"] /\ seen' = seen
          /\ run' = [run EXCEPT ![q] = made + 1]
      BY <1>6, <2>1 DEF Create, NewRun, Goto
    <2>4. ASSUME NEW r \in Request PROVE PlacedAt(r)'
      <3>1. CASE r = q
        BY <1>6, <2>1, <2>2, <2>3, <3>1 DEF PlacedAt, Create, RequestType
      <3>2. CASE r # q
        <4>1. pc'[r] = pc[r] /\ run'[r] = run[r] /\ seen'[r] = seen[r]
          BY <2>3, <3>2 DEF RequestType
        <4>2. pc[r] \in {"copy", "copying", "advance"} => run[r] \in Made
          BY AboutMade DEF About
        <4> QED BY <2>2, <4>1, <4>2 DEF Placed, PlacedAt
      <3> QED BY <3>1, <3>2
    <2> QED BY <2>4 DEF Placed
  <1>7. ASSUME NEW q \in Request, Reset(q) PROVE Placed'
    BY <1>7, CyclesAssumption DEF Reset, Goto, Withdrawn, rows, project, worker, requests, history,
       Placed, PlacedAt, Made, Runs, Numbers, RowType, RequestType, Snapshots, Pcs
  <1>8. ASSUME NEW q \in Request, NextLoad(q) PROVE Placed'
    BY <1>8, CyclesAssumption DEF NextLoad, Goto, rows, project, worker, requests, history, Placed,
       PlacedAt, Made, Runs, Numbers, RowType, RequestType, Snapshots, Pcs
  <1>9. ASSUME NEW q \in Request, NextCheck(q) PROVE Placed'
    <2>1. CASE Done(q) BY <1>9, <2>1 DEF NextCheck, Done, Placed, PlacedAt, Made, rows, RequestType
    <2>2. CASE NoneActive /\ made > 0
      <3>1. PICK i \in Made : seen' = [seen EXCEPT ![q].parent = i] BY <1>9, <2>2 DEF NextCheck
      <3>2. seen[q] \in Snapshots /\ seen'[q] = [seen[q] EXCEPT !.parent = i] BY <3>1 DEF RequestType
      <3>3. seen'[q].parent = i BY <3>2 DEF Snapshots
      <3>4. pc'[q] = "branch" /\ run' = run BY <1>9, <2>2 DEF NextCheck, Goto, RequestType
      <3>5. \A r \in Request \ {q} : pc'[r] = pc[r] /\ seen'[r] = seen[r]
        BY <1>9, <2>2, <3>1 DEF NextCheck, Goto, RequestType
      <3> QED BY <1>9, <3>3, <3>4, <3>5 DEF NextCheck, Placed, PlacedAt, Made, rows
    <2> QED BY <1>9, <2>1, <2>2 DEF NextCheck
  <1>10. ASSUME NEW q \in Request, Branch(q) PROVE Placed'
    <2>1. PICK c \in Nat, p \in Numbers : NewRun(q, c, p) /\ (pc[q] = "branch" => p \in Runs)
      BY <1>10, NewArguments, Bounds DEF Branch
    <2>2. /\ Made \subseteq Made' /\ parent'[made + 1] = p
          /\ \A i \in Made : parent'[i] = parent[i]
      BY <2>1, Newcomer, MadeRuns
    <2>3. /\ pc' = [pc EXCEPT ![q] = "copy"] /\ seen' = seen
          /\ run' = [run EXCEPT ![q] = made + 1]
      BY <1>10, <2>1 DEF Branch, NewRun, Goto
    <2>4. ASSUME NEW r \in Request PROVE PlacedAt(r)'
      <3>1. CASE r = q
        BY <1>10, <2>1, <2>2, <2>3, <3>1 DEF PlacedAt, Branch, RequestType
      <3>2. CASE r # q
        <4>1. pc'[r] = pc[r] /\ run'[r] = run[r] /\ seen'[r] = seen[r]
          BY <2>3, <3>2 DEF RequestType
        <4>2. pc[r] \in {"copy", "copying", "advance"} => run[r] \in Made
          BY AboutMade DEF About
        <4> QED BY <2>2, <4>1, <4>2 DEF Placed, PlacedAt
      <3> QED BY <3>1, <3>2
    <2> QED BY <2>4 DEF Placed
  <1>11. ASSUME NEW q \in Request, CopyFirst(q) PROVE Placed'
    BY <1>11, CyclesAssumption DEF CopyFirst, Goto, rows, project, worker, requests, history, Placed,
       PlacedAt, Made, Runs, Numbers, RowType, RequestType, Snapshots, Pcs
  <1>12. ASSUME NEW q \in Request, CopyRest(q) PROVE Placed'
    BY <1>12, CyclesAssumption DEF CopyRest, Goto, rows, project, worker, requests, history, Placed,
       PlacedAt, Made, Runs, Numbers, RowType, RequestType, Snapshots, Pcs
  <1>13. ASSUME NEW q \in Request, Advance(q) PROVE Placed'
    BY <1>13, CyclesAssumption DEF Advance, Goto, NextCycleApprovals, rows, project, worker, requests,
       history, Placed, PlacedAt, Made, Runs, Numbers, RowType, RequestType, Snapshots, Pcs
  <1>14. ASSUME NEW q \in Request, Enqueue(q) PROVE Placed'
    BY <1>14, CyclesAssumption DEF Enqueue, Done, rows, project, worker, requests, history, Placed,
       PlacedAt, Made, Runs, Numbers, RowType, RequestType, Snapshots, Pcs
  <1>15. ASSUME NEW q \in Request, Die(q) PROVE Placed'
    BY <1>15, CyclesAssumption DEF Die, Done, rows, project, worker, requests, history, Placed, PlacedAt,
       Made, Runs, Numbers, RowType, RequestType, Snapshots, Pcs
  <1>16. ASSUME NEW q \in Request, NEW i \in Made, NEW g \in Released, Approve(q, i, g) PROVE Placed'
    BY <1>16, CyclesAssumption DEF Approve, Goto, rows, project, worker, requests, history, Placed,
       PlacedAt, Made, Runs, Numbers, RowType, RequestType, Snapshots, Pcs
  <1>17. ASSUME NEW i \in Made, Take(i) \/ Design(i) \/ Execute(i) \/ Fail(i) \/ SignOff(i)
     \/ Cancel(i) PROVE Placed'
    BY <1>1, <1>17 DEF Take, Design, StopsAt, Unapproved, Execute, Fail, AttemptLeft, SignOff, Cancel,
       rows, project, worker, requests, history
  <1>18. CASE Withdraw \/ ClearAll \/ ApproveRequirements
    BY <1>1, <1>18 DEF Withdraw, Withdrawn, ClearAll, NoApproval, ApproveRequirements, rows, project,
       worker, requests, history
  <1>19. ASSUME NEW i \in Made, NEW g \in Released, Prepare(i, g) PROVE Placed'
    BY <1>1, <1>19 DEF Prepare, StopsAt, Unapproved, rows, project, worker, requests, history
  <1>20. CASE UNCHANGED vars BY <1>1, <1>20 DEF vars, rows, project, worker, requests, history
  <1> QED
    BY <1>2, <1>3, <1>4, <1>5, <1>6, <1>7, <1>8, <1>9, <1>10, <1>11, <1>12, <1>13, <1>14, <1>15, <1>16,
       <1>17, <1>18, <1>19, <1>20
    DEF Next, RequestStep, StartStep, NextCycleStep, WorkerStep, Released

\* Only runs that exist are settled.
LEMMA SettledStep ==
  ASSUME RowType, RequestType, HistoryType, SettledMade, [Next]_vars
  PROVE  SettledMade'
PROOF
  <1>1. ASSUME UNCHANGED <<made, settled>> PROVE SettledMade'
    BY <1>1 DEF SettledMade, Made
  <1>2. ASSUME NEW q \in Request, Create(q) PROVE SettledMade'
    BY <1>2, CyclesAssumption DEF Create, NewRun, Goto, rows, project, worker, requests, history,
       SettledMade, Made, Runs, Numbers, RowType, HistoryType
  <1>3. ASSUME NEW q \in Request, Branch(q) PROVE SettledMade'
    BY <1>3, CyclesAssumption DEF Branch, NewRun, Goto, Larger, rows, project, worker, requests, history,
       SettledMade, Made, Runs, Numbers, RowType, HistoryType
  <1>4. ASSUME NEW q \in Request, Reset(q) PROVE SettledMade'
    <2>1. About(q) BY <1>4 DEF Reset, About
    <2>2. run[q] \in Made /\ run[q] \in Runs BY <2>1, AboutMade
    <2> QED BY <1>4, <2>2 DEF Reset, SettledMade, Made, HistoryType, rows
  <1>5. ASSUME NEW q \in Request, Advance(q) PROVE SettledMade'
    <2>1. About(q) BY <1>5 DEF Advance, About
    <2>2. run[q] \in Made /\ run[q] \in Runs BY <2>1, AboutMade
    <2> QED BY <1>5, <2>2 DEF Advance, SettledMade, Made, HistoryType, rows
  <1>6. ASSUME NEW q \in Request, StartFresh(q) \/ StartAgain(q) \/ DropDuplicates(q) \/ Resume(q)
     \/ NextLoad(q) \/ NextCheck(q) \/ CopyFirst(q) \/ CopyRest(q) \/ Enqueue(q) \/ Die(q) PROVE SettledMade'
    BY <1>1, <1>6 DEF StartFresh, Goto, NoneActive, StartAgain, DropDuplicates, Resume, Done,
       StillQueued, NextLoad, NextCheck, CopyFirst, CopyRest, Enqueue, Die, rows, project, worker,
          requests, history
  <1>7. ASSUME NEW i \in Made, Take(i) \/ Design(i) \/ Execute(i) \/ Fail(i) \/ SignOff(i)
     \/ Cancel(i) PROVE SettledMade'
    BY <1>1, <1>7 DEF Take, Design, StopsAt, Unapproved, Execute, Fail, AttemptLeft, SignOff, Cancel,
       rows, project, worker, requests, history
  <1>8. CASE Withdraw \/ ClearAll \/ ApproveRequirements
    BY <1>1, <1>8 DEF Withdraw, Withdrawn, ClearAll, NoApproval, ApproveRequirements, rows, project,
       worker, requests, history
  <1>9. ASSUME NEW q \in Request, NEW i \in Made, NEW g \in Released, Approve(q, i, g) PROVE SettledMade'
    BY <1>1, <1>9 DEF Approve, Goto, rows, project, worker, requests, history
  <1>10. ASSUME NEW i \in Made, NEW g \in Released, Prepare(i, g) PROVE SettledMade'
    BY <1>1, <1>10 DEF Prepare, StopsAt, Unapproved, rows, project, worker, requests, history
  <1>11. CASE UNCHANGED vars BY <1>1, <1>11 DEF vars, rows, project, worker, requests, history
  <1> QED
    BY <1>2, <1>3, <1>4, <1>5, <1>6, <1>7, <1>8, <1>9, <1>10, <1>11
    DEF Next, RequestStep, StartStep, NextCycleStep, WorkerStep, Released

\* Approvals stay those of runs that exist.
LEMMA AskedStep ==
  ASSUME RowType, ProjectType, AskedMade, [Next]_vars
  PROVE  AskedMade'
PROOF
  <1>1. ASSUME UNCHANGED <<made, approval>> PROVE AskedMade'
    BY <1>1 DEF AskedMade, Made
  <1>2. ASSUME NEW q \in Request, Create(q) PROVE AskedMade'
    BY <1>2, CyclesAssumption DEF Create, NewRun, Goto, rows, project, worker, requests, history,
       AskedMade, Made, Numbers, RowType, ProjectType
  <1>3. ASSUME NEW q \in Request, Branch(q) PROVE AskedMade'
    BY <1>3, CyclesAssumption DEF Branch, NewRun, Goto, Larger, rows, project, worker, requests, history,
       AskedMade, Made, Numbers, RowType, ProjectType
  <1>4. ASSUME NEW q \in Request, Reset(q) PROVE AskedMade'
    BY <1>4, CyclesAssumption DEF Reset, Goto, Withdrawn, rows, project, worker, requests, history,
       AskedMade, Made, Numbers, RowType, ProjectType
  <1>5. ASSUME NEW q \in Request, Advance(q) PROVE AskedMade'
    BY <1>5, CyclesAssumption DEF Advance, Goto, NextCycleApprovals, rows, project, worker, requests,
       history, AskedMade, Made, Numbers, RowType, ProjectType
  <1>6. ASSUME NEW q \in Request, NEW i \in Made, NEW g \in Released, Approve(q, i, g) PROVE AskedMade'
    BY <1>6, CyclesAssumption DEF Approve, Goto, rows, project, worker, requests, history, AskedMade,
       Made, Numbers, RowType, ProjectType
  <1>7. CASE Withdraw
    BY <1>7, CyclesAssumption DEF Withdraw, Withdrawn, rows, project, worker, requests, history,
       AskedMade, Made, Numbers, RowType, ProjectType
  <1>8. CASE ClearAll
    BY <1>8, CyclesAssumption DEF ClearAll, NoApproval, rows, project, worker, requests, history,
       AskedMade, Made, Numbers, RowType, ProjectType
  <1>9. ASSUME NEW q \in Request, StartFresh(q) \/ StartAgain(q) \/ DropDuplicates(q) \/ Resume(q)
     \/ NextLoad(q) \/ NextCheck(q) \/ CopyFirst(q) \/ CopyRest(q) \/ Enqueue(q) \/ Die(q) PROVE AskedMade'
    BY <1>1, <1>9 DEF StartFresh, Goto, NoneActive, StartAgain, DropDuplicates, Resume, Done,
       StillQueued, NextLoad, NextCheck, CopyFirst, CopyRest, Enqueue, Die, rows, project, worker,
          requests, history
  <1>10. ASSUME NEW i \in Made, Take(i) \/ Design(i) \/ Execute(i) \/ Fail(i) \/ SignOff(i)
     \/ Cancel(i) PROVE AskedMade'
    BY <1>1, <1>10 DEF Take, Design, StopsAt, Unapproved, Execute, Fail, AttemptLeft, SignOff, Cancel,
       rows, project, worker, requests, history
  <1>11. CASE ApproveRequirements
    BY <1>1, <1>11 DEF ApproveRequirements, rows, project, worker, requests, history
  <1>12. ASSUME NEW i \in Made, NEW g \in Released, Prepare(i, g) PROVE AskedMade'
    BY <1>1, <1>12 DEF Prepare, StopsAt, Unapproved, rows, project, worker, requests, history
  <1>13. CASE UNCHANGED vars BY <1>1, <1>13 DEF vars, rows, project, worker, requests, history
  <1> QED
    BY <1>2, <1>3, <1>4, <1>5, <1>6, <1>7, <1>8, <1>9, <1>10, <1>11, <1>12, <1>13
    DEF Next, RequestStep, StartStep, NextCycleStep, WorkerStep, Released

\* A run that is alone stays the newest.
LEMMA OneRunStep ==
  ASSUME RowType, OneRun, [Next]_vars
  PROVE  OneRun'
PROOF
  <1>1. ASSUME UNCHANGED <<made, status, crossed>> PROVE OneRun'
    BY <1>1 DEF OneRun, Active, Made
  <1>2. ASSUME NEW q \in Request, DropDuplicates(q) PROVE OneRun'
    BY <1>2, CyclesAssumption DEF DropDuplicates, Goto, rows, project, worker, requests, history, OneRun,
       Active, Made, Runs, Numbers, Ended, RowType
  <1>3. ASSUME NEW q \in Request, Create(q) PROVE OneRun'
    <2>1. PICK c, p : NewRun(q, c, p) BY <1>3 DEF Create
    <2>2. Active' = Active \union {made + 1} /\ made' = made + 1 BY <2>1, Newcomer
    <2>3. crossed' = (crossed \/ Active # {}) BY <2>1 DEF NewRun
    <2> QED BY <2>2, <2>3 DEF OneRun
  <1>4. ASSUME NEW q \in Request, Branch(q) PROVE OneRun'
    <2>1. PICK c, p : NewRun(q, c, p) BY <1>4 DEF Branch
    <2>2. Active' = Active \union {made + 1} /\ made' = made + 1 BY <2>1, Newcomer
    <2>3. crossed' = (crossed \/ Active # {}) BY <2>1 DEF NewRun
    <2> QED BY <2>2, <2>3 DEF OneRun
  <1>5. ASSUME NEW q \in Request, NEW i \in Made, NEW g \in Released, Approve(q, i, g) PROVE OneRun'
    <2>1. i \in Active BY <1>5, AwaitingActive DEF Approve, Active
    <2>2. Active' = Active \union {i} BY <1>5, StatusMove DEF Approve, Ended
    <2> QED BY <1>5, <2>1, <2>2 DEF Approve, OneRun, history
  <1>6. ASSUME NEW i \in Made, SignOff(i) PROVE OneRun'
    BY <1>6, CyclesAssumption DEF SignOff, rows, project, worker, requests, history, OneRun, Active,
       Made, Runs, Numbers, Ended, RowType
  <1>7. ASSUME NEW i \in Made, Cancel(i) PROVE OneRun'
    BY <1>7, CyclesAssumption DEF Cancel, rows, project, worker, requests, history, OneRun, Active, Made,
       Runs, Numbers, Ended, RowType
  <1>8. ASSUME NEW i \in Made, Take(i) PROVE OneRun'
    <2>1. CASE UNCHANGED <<status, crossed>> BY <1>8, <1>1, <2>1 DEF Take
    <2>2. CASE /\ status[i] \notin {"COMPLETED", "CANCELLED"} /\ status' = [status EXCEPT ![i] = "RUNNING"]
               /\ crossed' = (crossed \/ (status[i] = "FAILED" /\ (i < made \/ Active # {})))
      <3>1. Active' = Active \union {i} /\ made' = made BY <1>8, <2>2, StatusMove DEF Take, Ended
      <3>2. status[i] # "FAILED" => i \in Active BY <2>2 DEF Active, Ended
      <3>3. i < made \/ i = made BY DEF Made, RowType, Numbers
      <3> QED BY <2>2, <3>1, <3>2, <3>3 DEF OneRun
    <2> QED BY <1>8, <2>1, <2>2 DEF Take
  <1>9. ASSUME NEW i \in Made, Design(i) PROVE OneRun'
    BY <1>9, CyclesAssumption DEF Design, StopsAt, Unapproved, rows, project, worker, requests, history,
       OneRun, Active, Made, Runs, Numbers, Ended, RowType
  <1>10. ASSUME NEW i \in Made, NEW g \in Released, Prepare(i, g) PROVE OneRun'
    BY <1>10, CyclesAssumption DEF Prepare, StopsAt, Unapproved, rows, project, worker, requests,
       history, OneRun, Active, Made, Runs, Numbers, Ended, RowType
  <1>11. ASSUME NEW i \in Made, Execute(i) PROVE OneRun'
    BY <1>11, CyclesAssumption DEF Execute, Unapproved, rows, project, worker, requests, history, OneRun,
       Active, Made, Runs, Numbers, Ended, RowType
  <1>12. ASSUME NEW i \in Made, Fail(i) PROVE OneRun'
    BY <1>12, CyclesAssumption DEF Fail, AttemptLeft, rows, project, worker, requests, history, OneRun,
       Active, Made, Runs, Numbers, Ended, RowType
  <1>13. ASSUME NEW q \in Request, StartFresh(q) \/ StartAgain(q) \/ Resume(q) \/ Reset(q)
     \/ NextLoad(q) \/ NextCheck(q) \/ CopyFirst(q) \/ CopyRest(q) \/ Advance(q) \/ Enqueue(q) \/ Die(q) PROVE OneRun'
    BY <1>1, <1>13 DEF StartFresh, Goto, NoneActive, StartAgain, Resume, Done, StillQueued, Reset,
       Withdrawn, NextLoad, NextCheck, CopyFirst, CopyRest, Advance, NextCycleApprovals, Enqueue, Die,
          rows, project, worker, requests, history
  <1>14. CASE Withdraw \/ ClearAll \/ ApproveRequirements
    BY <1>1, <1>14 DEF Withdraw, Withdrawn, ClearAll, NoApproval, ApproveRequirements, rows, project,
       worker, requests, history
  <1>15. CASE UNCHANGED vars BY <1>1, <1>15 DEF vars, rows, project, worker, requests, history
  <1> QED
    BY <1>2, <1>3, <1>4, <1>5, <1>6, <1>7, <1>8, <1>9, <1>10, <1>11, <1>12, <1>13, <1>14, <1>15
    DEF Next, RequestStep, StartStep, NextCycleStep, WorkerStep, Released

\* Approvals the newest run can rely on are cleared or its own.
LEMMA PickedStep ==
  ASSUME RowType, RequestType, ProjectType, HistoryType, Placed, SettledMade, OneRun, Picked, [Next]_vars
  PROVE  Picked'
PROOF
  <1>1. ASSUME UNCHANGED <<made, parent, approval, settled, crossed>> PROVE Picked'
    BY <1>1 DEF Picked
  <1>2. ASSUME NEW q \in Request, Create(q) PROVE Picked'
    <2>1. PICK c, p : NewRun(q, c, p) BY <1>2 DEF Create
    <2>2. made' = made + 1 /\ made + 1 \in Runs /\ made + 1 \notin Made BY <2>1, Newcomer
    <2>3. ~settled'[made'] BY <2>1, <2>2 DEF NewRun, SettledMade
    <2> QED BY <2>3 DEF Picked
  <1>3. ASSUME NEW q \in Request, Branch(q) PROVE Picked'
    <2>1. PICK c, p : NewRun(q, c, p) BY <1>3 DEF Branch
    <2>2. made' = made + 1 /\ made + 1 \in Runs /\ made + 1 \notin Made BY <2>1, Newcomer
    <2>3. ~settled'[made'] BY <2>1, <2>2 DEF NewRun, SettledMade
    <2> QED BY <2>3 DEF Picked
  <1>4. ASSUME NEW q \in Request, Reset(q) PROVE Picked'
    BY <1>4, CyclesAssumption DEF Reset, Goto, Withdrawn, rows, project, worker, requests, history,
       Picked, Made, Runs, Numbers, Released, RowType, ProjectType, HistoryType
  <1>5. ASSUME NEW q \in Request, Advance(q) PROVE Picked'
    <2>1. About(q) BY <1>5 DEF Advance, About
    <2>2. run[q] \in Runs /\ parent[run[q]] # 0
      BY <1>5, <2>1, AboutMade DEF Advance, Placed, PlacedAt, Runs
    <2>3. approval'["DATA"] = 0 /\ approval'["DESIGN"] = approval["DESIGN"]
      BY <1>5 DEF Advance, NextCycleApprovals, ProjectType, Released
    <2>4. \A i \in Runs \ {run[q]} : settled'[i] = settled[i] BY <1>5, <2>2 DEF Advance, HistoryType
    <2>5. made' = made /\ parent' = parent /\ crossed' = crossed BY <1>5 DEF Advance, rows
    <2> QED BY <2>2, <2>3, <2>4, <2>5 DEF Picked
  <1>6. ASSUME NEW q \in Request, NEW i \in Made, NEW g \in Released, Approve(q, i, g) PROVE Picked'
    <2>1. i \in Active BY <1>6, AwaitingActive DEF Approve, Active
    <2>2. \A h \in Released : approval'[h] = IF h = g THEN i ELSE approval[h]
      BY <1>6 DEF Approve, ProjectType
    <2>3. UNCHANGED <<made, parent, settled, crossed>> BY <1>6 DEF Approve, history
    <2>4. "DATA" \in Released /\ "DESIGN" \in Released BY DEF Released
    <2> QED BY <2>1, <2>2, <2>3, <2>4 DEF Picked, OneRun
  <1>7. ASSUME NEW i \in Made, Take(i) PROVE Picked'
    BY <1>7, CyclesAssumption DEF Take, rows, project, worker, requests, history, Picked, Made, Runs,
       Numbers, Released, RowType, ProjectType, HistoryType
  <1>8. CASE Withdraw
    BY <1>8, CyclesAssumption DEF Withdraw, Withdrawn, rows, project, worker, requests, history, Picked,
       Made, Runs, Numbers, Released, RowType, ProjectType, HistoryType
  <1>9. CASE ClearAll
    BY <1>9, CyclesAssumption DEF ClearAll, NoApproval, rows, project, worker, requests, history, Picked,
       Made, Runs, Numbers, Released, RowType, ProjectType, HistoryType
  <1>10. ASSUME NEW q \in Request, StartFresh(q) \/ StartAgain(q) \/ DropDuplicates(q) \/ Resume(q)
     \/ NextLoad(q) \/ NextCheck(q) \/ CopyFirst(q) \/ CopyRest(q) \/ Enqueue(q) \/ Die(q) PROVE Picked'
    BY <1>1, <1>10 DEF StartFresh, Goto, NoneActive, StartAgain, DropDuplicates, Resume, Done,
       StillQueued, NextLoad, NextCheck, CopyFirst, CopyRest, Enqueue, Die, rows, project, worker,
          requests, history
  <1>11. ASSUME NEW i \in Made, Design(i) \/ Execute(i) \/ Fail(i) \/ SignOff(i) \/ Cancel(i) PROVE Picked'
    BY <1>1, <1>11 DEF Design, StopsAt, Unapproved, Execute, Fail, AttemptLeft, SignOff, Cancel, rows,
       project, worker, requests, history
  <1>12. CASE ApproveRequirements
    BY <1>1, <1>12 DEF ApproveRequirements, rows, project, worker, requests, history
  <1>13. ASSUME NEW i \in Made, NEW g \in Released, Prepare(i, g) PROVE Picked'
    BY <1>1, <1>13 DEF Prepare, StopsAt, Unapproved, rows, project, worker, requests, history
  <1>14. CASE UNCHANGED vars BY <1>1, <1>14 DEF vars, rows, project, worker, requests, history
  <1> QED
    BY <1>2, <1>3, <1>4, <1>5, <1>6, <1>7, <1>8, <1>9, <1>10, <1>11, <1>12, <1>13, <1>14
    DEF Next, RequestStep, StartStep, NextCycleStep, WorkerStep, Released

\* A reviewed design stays the run's own.
LEMMA SourcedStep ==
  ASSUME RowType, RequestType, ProjectType, Placed, AskedMade, Sourced, [Next]_vars
  PROVE  Sourced'
PROOF
  <1>1. ASSUME UNCHANGED <<parent, status, approval, cases>> PROVE Sourced'
    BY <1>1 DEF Sourced, SourcedAt, Own
  <1>2. ASSUME NEW q \in Request, DropDuplicates(q) PROVE Sourced'
    BY <1>2, CyclesAssumption DEF DropDuplicates, Goto, rows, project, worker, requests, history,
       Sourced, SourcedAt, Own, Made, Runs, Numbers, RowType, ProjectType
  <1>3. ASSUME NEW q \in Request, Create(q) PROVE Sourced'
    <2>1. PICK c, p : NewRun(q, c, p) BY <1>3 DEF Create
    <2>2. /\ made + 1 \in Runs /\ made + 1 \notin Made /\ made + 1 # 0 /\ status'[made + 1] = "QUEUED"
          /\ \A i \in Runs \ {made + 1} : status'[i] = status[i] /\ parent'[i] = parent[i]
      BY <2>1, Newcomer
    <2>3. approval["DESIGN"] # made + 1 BY <2>2 DEF AskedMade, Released
    <2>4. approval' = approval /\ cases' = cases BY <1>3, <2>1 DEF Create, NewRun, project
    <2> QED BY <2>2, <2>3, <2>4 DEF Sourced, SourcedAt, Own
  <1>4. ASSUME NEW q \in Request, Branch(q) PROVE Sourced'
    <2>1. PICK c, p : NewRun(q, c, p) BY <1>4 DEF Branch
    <2>2. /\ made + 1 \in Runs /\ made + 1 \notin Made /\ made + 1 # 0 /\ status'[made + 1] = "QUEUED"
          /\ \A i \in Runs \ {made + 1} : status'[i] = status[i] /\ parent'[i] = parent[i]
      BY <2>1, Newcomer
    <2>3. approval["DESIGN"] # made + 1 BY <2>2 DEF AskedMade, Released
    <2>4. approval' = approval /\ cases' = cases BY <1>4, <2>1 DEF Branch, NewRun, project
    <2> QED BY <2>2, <2>3, <2>4 DEF Sourced, SourcedAt, Own
  <1>5. ASSUME NEW q \in Request, CopyFirst(q) PROVE Sourced'
    <2>1. About(q) BY <1>5 DEF CopyFirst, About
    <2>2. run[q] \in Runs /\ parent[run[q]] # 0
      BY <1>5, <2>1, AboutMade DEF CopyFirst, Placed, PlacedAt, Runs
    <2>3. \A i \in Runs \ {run[q]} : cases'[i] = cases[i] BY <1>5, <2>2 DEF CopyFirst, RowType
    <2>4. UNCHANGED <<parent, status, approval>> BY <1>5 DEF CopyFirst, project
    <2> QED BY <2>2, <2>3, <2>4 DEF Sourced, SourcedAt, Own
  <1>6. ASSUME NEW q \in Request, CopyRest(q) PROVE Sourced'
    <2>1. About(q) BY <1>6 DEF CopyRest, About
    <2>2. run[q] \in Runs /\ parent[run[q]] # 0
      BY <1>6, <2>1, AboutMade DEF CopyRest, Placed, PlacedAt, Runs
    <2>3. \A i \in Runs \ {run[q]} : cases'[i] = cases[i] BY <1>6, <2>2 DEF CopyRest, RowType
    <2>4. UNCHANGED <<parent, status, approval>> BY <1>6 DEF CopyRest, project
    <2> QED BY <2>2, <2>3, <2>4 DEF Sourced, SourcedAt, Own
  <1>7. ASSUME NEW q \in Request, Reset(q) PROVE Sourced'
    <2>1. approval'["DESIGN"] = 0 BY <1>7 DEF Reset, Withdrawn, Released
    <2>2. UNCHANGED <<parent, status, cases>> BY <1>7 DEF Reset, rows
    <2>3. \A i \in Runs : i # 0 BY DEF Runs
    <2> QED BY <2>1, <2>2, <2>3 DEF Sourced, SourcedAt, Own
  <1>8. ASSUME NEW q \in Request, Advance(q) PROVE Sourced'
    <2>1. approval'["DESIGN"] = approval["DESIGN"]
      BY <1>8 DEF Advance, NextCycleApprovals, ProjectType, Released
    <2> QED BY <1>8, <2>1 DEF Advance, Sourced, SourcedAt, Own, rows
  <1>9. ASSUME NEW q \in Request, NEW i \in Made, NEW g \in Released, Approve(q, i, g) PROVE Sourced'
    <2>1. i \in Runs /\ status'[i] = "RUNNING" /\ \A j \in Runs \ {i} : status'[j] = status[j]
      BY <1>9, StatusMove DEF Approve
    <2>2. approval'["DESIGN"] = IF g = "DESIGN" THEN i ELSE approval["DESIGN"]
      BY <1>9 DEF Approve, ProjectType, Released
    <2>3. g = "DESIGN" => status[i] = "AWAITING_DESIGN" BY <1>9 DEF Approve, Awaiting
    <2>4. UNCHANGED <<parent, cases>> BY <1>9 DEF Approve
    <2> QED BY <2>1, <2>2, <2>3, <2>4 DEF Sourced, SourcedAt, Own
  <1>10. ASSUME NEW i \in Made, SignOff(i) PROVE Sourced'
    BY <1>10, CyclesAssumption DEF SignOff, rows, project, worker, requests, history, Sourced, SourcedAt,
       Own, Made, Runs, Numbers, RowType, ProjectType
  <1>11. ASSUME NEW i \in Made, Cancel(i) PROVE Sourced'
    BY <1>11, CyclesAssumption DEF Cancel, rows, project, worker, requests, history, Sourced, SourcedAt,
       Own, Made, Runs, Numbers, RowType, ProjectType
  <1>12. ASSUME NEW i \in Made, Take(i) PROVE Sourced'
    BY <1>12, CyclesAssumption DEF Take, rows, project, worker, requests, history, Sourced, SourcedAt,
       Own, Made, Runs, Numbers, RowType, ProjectType
  <1>13. ASSUME NEW i \in Made, Design(i) PROVE Sourced'
    BY <1>13, CyclesAssumption DEF Design, StopsAt, Unapproved, rows, project, worker, requests, history,
       Sourced, SourcedAt, Own, Made, Runs, Numbers, RowType, ProjectType
  <1>14. ASSUME NEW i \in Made, NEW g \in Released, Prepare(i, g) PROVE Sourced'
    <2>1. status' = [status EXCEPT ![i] = Awaiting[g]] /\ Awaiting[g] # "AWAITING_DESIGN"
      BY <1>14 DEF Prepare, StopsAt, Awaiting
    <2>2. UNCHANGED <<made, parent, cases, approval>> BY <1>14 DEF Prepare, project
    <2>3. i \in Runs /\ status'[i] # "AWAITING_DESIGN" /\ \A j \in Runs \ {i} : status'[j] = status[j]
      BY <2>1, <2>2, StatusMove
    <2> QED BY <2>2, <2>3 DEF Sourced, SourcedAt, Own
  <1>15. ASSUME NEW i \in Made, Execute(i) PROVE Sourced'
    BY <1>15, CyclesAssumption DEF Execute, Unapproved, rows, project, worker, requests, history,
       Sourced, SourcedAt, Own, Made, Runs, Numbers, RowType, ProjectType
  <1>16. ASSUME NEW i \in Made, Fail(i) PROVE Sourced'
    BY <1>16, CyclesAssumption DEF Fail, AttemptLeft, rows, project, worker, requests, history, Sourced,
       SourcedAt, Own, Made, Runs, Numbers, RowType, ProjectType
  <1>17. CASE Withdraw
    <2>1. approval'["DESIGN"] = 0 BY <1>17 DEF Withdraw, Withdrawn, Released
    <2>2. UNCHANGED <<parent, status, cases>> BY <1>17 DEF Withdraw, rows
    <2>3. \A i \in Runs : i # 0 BY DEF Runs
    <2> QED BY <2>1, <2>2, <2>3 DEF Sourced, SourcedAt, Own
  <1>18. CASE ClearAll
    <2>1. approval'["DESIGN"] = 0 BY <1>18 DEF ClearAll, NoApproval, Released
    <2>2. UNCHANGED <<parent, status, cases>> BY <1>18 DEF ClearAll, rows
    <2>3. \A i \in Runs : i # 0 BY DEF Runs
    <2> QED BY <2>1, <2>2, <2>3 DEF Sourced, SourcedAt, Own
  <1>19. ASSUME NEW q \in Request, StartFresh(q) \/ StartAgain(q) \/ Resume(q) \/ NextLoad(q)
     \/ NextCheck(q) \/ Enqueue(q) \/ Die(q) PROVE Sourced'
    BY <1>1, <1>19 DEF StartFresh, Goto, NoneActive, StartAgain, Resume, Done, StillQueued, NextLoad,
       NextCheck, Enqueue, Die, rows, project, worker, requests, history
  <1>20. CASE ApproveRequirements
    BY <1>1, <1>20 DEF ApproveRequirements, rows, project, worker, requests, history
  <1>21. CASE UNCHANGED vars BY <1>1, <1>21 DEF vars, rows, project, worker, requests, history
  <1> QED
    BY <1>2, <1>3, <1>4, <1>5, <1>6, <1>7, <1>8, <1>9, <1>10, <1>11, <1>12, <1>13, <1>14, <1>15, <1>16,
       <1>17, <1>18, <1>19, <1>20, <1>21
    DEF Next, RequestStep, StartStep, NextCycleStep, WorkerStep, Released

\* A run that is queued or running has somebody who moves it.
LEMMA MovedStep ==
  ASSUME RowType, RequestType, WorkerType, AllMoved, [Next]_vars
  PROVE  AllMoved'
PROOF
  <1>1. ASSUME UNCHANGED <<made, status, jobs, driving, lost, pc, run>> PROVE AllMoved'
    BY <1>1 DEF AllMoved, Moved, Moves, Made
  <1>2. ASSUME NEW q \in Request, StartFresh(q) PROVE AllMoved'
    <2>1. pc \in [Request -> Pcs] /\ run \in [Request -> Numbers] BY DEF RequestType
    <2>2. ASSUME NEW j \in Made, Moved(j) PROVE Moved(j)'
      BY <1>2, <2>1, <2>2 DEF StartFresh, Goto, NoneActive, rows, worker, history, Moved, Moves
    <2> QED BY <1>2, <2>2 DEF StartFresh, AllMoved, Made, rows
  <1>3. ASSUME NEW q \in Request, StartAgain(q) PROVE AllMoved'
    <2>1. pc \in [Request -> Pcs] /\ run \in [Request -> Numbers] BY DEF RequestType
    <2>2. ASSUME NEW j \in Made, Moved(j) PROVE Moved(j)'
      BY <1>3, <2>1, <2>2 DEF StartAgain, Goto, rows, worker, history, Moved, Moves
    <2> QED BY <1>3, <2>2 DEF StartAgain, AllMoved, Made, rows
  <1>4. ASSUME NEW q \in Request, DropDuplicates(q) PROVE AllMoved'
    <2>1. pc \in [Request -> Pcs] /\ run \in [Request -> Numbers] BY DEF RequestType
    <2>2. ASSUME NEW j \in Made, Moved(j) PROVE Moved(j)'
      BY <1>4, <2>1, <2>2 DEF DropDuplicates, Goto, worker, history, Moved, Moves
    <2>3. \A j \in Made : status'[j] = status[j] \/ status'[j] = "CANCELLED"
      BY <1>4, MadeRuns DEF DropDuplicates
    <2> QED BY <1>4, <2>2, <2>3 DEF DropDuplicates, AllMoved, Made
  <1>5. ASSUME NEW q \in Request, Resume(q) PROVE AllMoved'
    <2>1. pc \in [Request -> Pcs] /\ run \in [Request -> Numbers] BY DEF RequestType
    <2>2. ASSUME NEW j \in Made, Moved(j) PROVE Moved(j)'
      BY <1>5, <2>1, <2>2 DEF Resume, Done, StillQueued, rows, worker, history, Moved, Moves
    <2> QED BY <1>5, <2>2 DEF Resume, AllMoved, Made, rows
  <1>6. ASSUME NEW q \in Request, Create(q) PROVE AllMoved'
    <2>1. PICK c, p : NewRun(q, c, p) BY <1>6 DEF Create
    <2>2. /\ Made' = Made \union {made + 1} /\ made + 1 \notin Made
          /\ \A i \in Runs \ {made + 1} : status'[i] = status[i]
      BY <2>1, Newcomer
    <2>3. run'[q] = made + 1 /\ pc'[q] \in {"reset", "copy"}
      BY <1>6, <2>1 DEF Create, NewRun, Goto, RequestType
    <2>4. \A r \in Request \ {q} : run'[r] = run[r] /\ pc'[r] = pc[r]
      BY <1>6, <2>1 DEF Create, NewRun, Goto, RequestType
    <2>5. pc[q] \in {"create", "branch"} /\ jobs' = jobs /\ driving' = driving /\ lost' = lost
      BY <1>6, <2>1 DEF Create, NewRun, worker
    <2>6. ASSUME NEW j, j = made + 1 PROVE Moved(j)' BY <2>3, <2>6 DEF Moved, Moves
    <2>7. ASSUME NEW j \in Made, Moved(j) PROVE Moved(j)' BY <2>4, <2>5, <2>7 DEF Moved, Moves
    <2> QED BY <2>2, <2>6, <2>7, MadeRuns DEF AllMoved
  <1>7. ASSUME NEW q \in Request, Reset(q) PROVE AllMoved'
    <2>1. pc \in [Request -> Pcs] /\ run \in [Request -> Numbers] BY DEF RequestType
    <2>2. ASSUME NEW j \in Made, Moved(j) PROVE Moved(j)'
      BY <1>7, <2>1, <2>2 DEF Reset, Goto, Withdrawn, rows, worker, history, Moved, Moves
    <2> QED BY <1>7, <2>2 DEF Reset, AllMoved, Made, rows
  <1>8. ASSUME NEW q \in Request, NextLoad(q) PROVE AllMoved'
    <2>1. pc \in [Request -> Pcs] /\ run \in [Request -> Numbers] BY DEF RequestType
    <2>2. ASSUME NEW j \in Made, Moved(j) PROVE Moved(j)'
      BY <1>8, <2>1, <2>2 DEF NextLoad, Goto, rows, worker, history, Moved, Moves
    <2> QED BY <1>8, <2>2 DEF NextLoad, AllMoved, Made, rows
  <1>9. ASSUME NEW q \in Request, NextCheck(q) PROVE AllMoved'
    <2>1. pc \in [Request -> Pcs] /\ run \in [Request -> Numbers] BY DEF RequestType
    <2>2. ASSUME NEW j \in Made, Moved(j) PROVE Moved(j)'
      BY <1>9, <2>1, <2>2 DEF NextCheck, Goto, Done, rows, worker, history, Moved, Moves
    <2> QED BY <1>9, <2>2 DEF NextCheck, AllMoved, Made, rows
  <1>10. ASSUME NEW q \in Request, Branch(q) PROVE AllMoved'
    <2>1. PICK c, p : NewRun(q, c, p) BY <1>10 DEF Branch
    <2>2. /\ Made' = Made \union {made + 1} /\ made + 1 \notin Made
          /\ \A i \in Runs \ {made + 1} : status'[i] = status[i]
      BY <2>1, Newcomer
    <2>3. run'[q] = made + 1 /\ pc'[q] \in {"reset", "copy"}
      BY <1>10, <2>1 DEF Branch, NewRun, Goto, RequestType
    <2>4. \A r \in Request \ {q} : run'[r] = run[r] /\ pc'[r] = pc[r]
      BY <1>10, <2>1 DEF Branch, NewRun, Goto, RequestType
    <2>5. pc[q] \in {"create", "branch"} /\ jobs' = jobs /\ driving' = driving /\ lost' = lost
      BY <1>10, <2>1 DEF Branch, NewRun, worker
    <2>6. ASSUME NEW j, j = made + 1 PROVE Moved(j)' BY <2>3, <2>6 DEF Moved, Moves
    <2>7. ASSUME NEW j \in Made, Moved(j) PROVE Moved(j)' BY <2>4, <2>5, <2>7 DEF Moved, Moves
    <2> QED BY <2>2, <2>6, <2>7, MadeRuns DEF AllMoved
  <1>11. ASSUME NEW q \in Request, CopyFirst(q) PROVE AllMoved'
    <2>1. pc \in [Request -> Pcs] /\ run \in [Request -> Numbers] BY DEF RequestType
    <2>2. ASSUME NEW j \in Made, Moved(j) PROVE Moved(j)'
      BY <1>11, <2>1, <2>2 DEF CopyFirst, Goto, rows, worker, history, Moved, Moves
    <2> QED BY <1>11, <2>2 DEF CopyFirst, AllMoved, Made, rows
  <1>12. ASSUME NEW q \in Request, CopyRest(q) PROVE AllMoved'
    <2>1. pc \in [Request -> Pcs] /\ run \in [Request -> Numbers] BY DEF RequestType
    <2>2. ASSUME NEW j \in Made, Moved(j) PROVE Moved(j)'
      BY <1>12, <2>1, <2>2 DEF CopyRest, Goto, rows, worker, history, Moved, Moves
    <2> QED BY <1>12, <2>2 DEF CopyRest, AllMoved, Made, rows
  <1>13. ASSUME NEW q \in Request, Advance(q) PROVE AllMoved'
    <2>1. pc \in [Request -> Pcs] /\ run \in [Request -> Numbers] BY DEF RequestType
    <2>2. ASSUME NEW j \in Made, Moved(j) PROVE Moved(j)'
      BY <1>13, <2>1, <2>2 DEF Advance, Goto, NextCycleApprovals, rows, worker, history, Moved, Moves
    <2> QED BY <1>13, <2>2 DEF Advance, AllMoved, Made, rows
  <1>14. ASSUME NEW q \in Request, Enqueue(q) PROVE AllMoved'
    <2>1. pc \in [Request -> Pcs] /\ run \in [Request -> Numbers] BY DEF RequestType
    <2>2. ASSUME NEW j \in Made, Moved(j) PROVE Moved(j)'
      BY <1>14, <2>1, <2>2 DEF Enqueue, Done, rows, worker, history, Moved, Moves
    <2> QED BY <1>14, <2>2 DEF Enqueue, AllMoved, Made, rows
  <1>15. ASSUME NEW q \in Request, Die(q) PROVE AllMoved'
    <2>1. pc \in [Request -> Pcs] /\ run \in [Request -> Numbers] BY DEF RequestType
    <2>2. ASSUME NEW j \in Made, Moved(j) PROVE Moved(j)'
      BY <1>15, <2>1, <2>2 DEF Die, Done, rows, worker, history, Moved, Moves, Made
    <2> QED BY <1>15, <2>2 DEF Die, AllMoved, Made, rows
  <1>16. ASSUME NEW q \in Request, NEW i \in Made, NEW g \in Released, Approve(q, i, g) PROVE AllMoved'
    <2>1. i \in Runs /\ \A j \in Runs \ {i} : status'[j] = status[j] BY <1>16, StatusMove DEF Approve
    <2>2. Moved(i)' BY <1>16 DEF Approve, Goto, Moved, Moves, RequestType
    <2>3. ASSUME NEW j \in Made, Moved(j) PROVE Moved(j)'
      BY <1>16, <2>3 DEF Approve, Goto, worker, history, Moved, Moves, RequestType
    <2> QED BY <1>16, <2>1, <2>2, <2>3, MadeRuns DEF Approve, AllMoved, Made
  <1>17. ASSUME NEW i \in Made, Take(i) PROVE AllMoved'
    <2>1. \A j \in Made \ {i} : Moved(j) => Moved(j)'
      BY <1>17 DEF Take, requests, Moved, Moves
    <2>2. CASE status[i] \in {"COMPLETED", "CANCELLED"}
      BY <1>17, <2>1, <2>2 DEF Take, AllMoved, Made
    <2>3. CASE status[i] \notin {"COMPLETED", "CANCELLED"}
      <3>1. Moved(i)' BY <1>17, <2>3 DEF Take, Moved
      <3>2. \A j \in Runs \ {i} : status'[j] = status[j] BY <1>17, <2>3, StatusMove DEF Take
      <3> QED BY <1>17, <2>1, <3>1, <3>2, MadeRuns DEF Take, AllMoved, Made
    <2> QED BY <2>2, <2>3
  <1>18. ASSUME NEW i \in Made, Design(i) PROVE AllMoved'
    <2>1. PICK s \in Statuses \ {"QUEUED", "RUNNING"} : status' = [status EXCEPT ![i] = s]
      BY <1>18, Literals, AwaitingStatus DEF Design, StopsAt, Released
    <2>2. i \in Runs /\ status'[i] = s /\ \A j \in Runs \ {i} : status'[j] = status[j]
      BY <1>18, <2>1, StatusMove DEF Design, StopsAt
    <2>3. \A j \in Made \ {i} : Moved(j) => Moved(j)'
      BY <1>18 DEF Design, StopsAt, requests, worker, history, Moved, Moves
    <2> QED BY <1>18, <2>1, <2>2, <2>3, MadeRuns DEF Design, StopsAt, AllMoved, Made
  <1>19. ASSUME NEW i \in Made, Execute(i) PROVE AllMoved'
    BY <1>19, CyclesAssumption DEF Execute, Unapproved, rows, project, worker, requests, history,
       AllMoved, Moved, Moves, Made, Runs, Numbers, RowType, RequestType, WorkerType
  <1>20. ASSUME NEW i \in Made, Fail(i) PROVE AllMoved'
    <2>1. PICK s \in Statuses \ {"QUEUED", "RUNNING"} : status' = [status EXCEPT ![i] = s]
      BY <1>20, Literals, AwaitingStatus DEF Fail
    <2>2. i \in Runs /\ status'[i] = s /\ \A j \in Runs \ {i} : status'[j] = status[j]
      BY <1>20, <2>1, StatusMove DEF Fail
    <2>3. \A j \in Made \ {i} : Moved(j) => Moved(j)'
      BY <1>20 DEF Fail, requests, worker, history, Moved, Moves
    <2> QED BY <1>20, <2>1, <2>2, <2>3, MadeRuns DEF Fail, AllMoved, Made
  <1>21. ASSUME NEW i \in Made, SignOff(i) PROVE AllMoved'
    <2>1. PICK s \in Statuses \ {"QUEUED", "RUNNING"} : status' = [status EXCEPT ![i] = s]
      BY <1>21, Literals, AwaitingStatus DEF SignOff
    <2>2. i \in Runs /\ status'[i] = s /\ \A j \in Runs \ {i} : status'[j] = status[j]
      BY <1>21, <2>1, StatusMove DEF SignOff
    <2>3. \A j \in Made \ {i} : Moved(j) => Moved(j)'
      BY <1>21 DEF SignOff, requests, worker, history, Moved, Moves
    <2> QED BY <1>21, <2>1, <2>2, <2>3, MadeRuns DEF SignOff, AllMoved, Made
  <1>22. ASSUME NEW i \in Made, Cancel(i) PROVE AllMoved'
    <2>1. PICK s \in Statuses \ {"QUEUED", "RUNNING"} : status' = [status EXCEPT ![i] = s]
      BY <1>22, Literals, AwaitingStatus DEF Cancel
    <2>2. i \in Runs /\ status'[i] = s /\ \A j \in Runs \ {i} : status'[j] = status[j]
      BY <1>22, <2>1, StatusMove DEF Cancel
    <2>3. \A j \in Made \ {i} : Moved(j) => Moved(j)'
      BY <1>22 DEF Cancel, requests, worker, history, Moved, Moves
    <2> QED BY <1>22, <2>1, <2>2, <2>3, MadeRuns DEF Cancel, AllMoved, Made
  <1>23. ASSUME NEW i \in Made, NEW g \in Released, Prepare(i, g) PROVE AllMoved'
    <2>1. PICK s \in Statuses \ {"QUEUED", "RUNNING"} : status' = [status EXCEPT ![i] = s]
      BY <1>23, Literals, AwaitingStatus DEF Prepare, StopsAt
    <2>2. i \in Runs /\ status'[i] = s /\ \A j \in Runs \ {i} : status'[j] = status[j]
      BY <1>23, <2>1, StatusMove DEF Prepare, StopsAt
    <2>3. \A j \in Made \ {i} : Moved(j) => Moved(j)'
      BY <1>23 DEF Prepare, StopsAt, requests, worker, history, Moved, Moves
    <2> QED BY <1>23, <2>1, <2>2, <2>3, MadeRuns DEF Prepare, StopsAt, AllMoved, Made
  <1>24. CASE Withdraw \/ ClearAll \/ ApproveRequirements
    BY <1>1, <1>24 DEF Withdraw, Withdrawn, ClearAll, NoApproval, ApproveRequirements, rows, project,
       worker, requests, history
  <1>25. CASE UNCHANGED vars BY <1>1, <1>25 DEF vars, rows, project, worker, requests, history
  <1> QED
    BY <1>2, <1>3, <1>4, <1>5, <1>6, <1>7, <1>8, <1>9, <1>10, <1>11, <1>12, <1>13, <1>14, <1>15, <1>16,
       <1>17, <1>18, <1>19, <1>20, <1>21, <1>22, <1>23, <1>24, <1>25
    DEF Next, RequestStep, StartStep, NextCycleStep, WorkerStep, Released

\* Active runs and requests about to make one are finitely many.
LEMMA Counted ==
  ASSUME RowType
  PROVE  /\ IsFiniteSet(Fresh) /\ Cardinality(Fresh) \in Nat
         /\ IsFiniteSet(Creating) /\ Cardinality(Creating) \in Nat
         /\ IsFiniteSet(Request) /\ Cardinality(Request) \in Nat
PROOF
  <1>1. made \in Nat BY CyclesAssumption DEF RowType, Numbers
  <1>2. IsFiniteSet(Made) BY <1>1, FS_Interval DEF Made
  <1>3. IsFiniteSet(Fresh)
    <2>1. Fresh \subseteq Made BY DEF Fresh, Active
    <2> QED BY <1>2, <2>1, FS_Subset
  <1>4. IsFiniteSet(Request) BY CyclesAssumption
  <1>5. IsFiniteSet(Creating)
    <2>1. Creating \subseteq Request BY DEF Creating
    <2> QED BY <1>4, <2>1, FS_Subset
  <1> QED BY <1>3, <1>4, <1>5, FS_CardinalityType

\* Neither more active runs nor more about to be made.
LEMMA Counting ==
  ASSUME RowType, ActiveBounded, Fresh' \subseteq Fresh, Creating' \subseteq Creating
  PROVE  ActiveBounded'
PROOF
  <1>1. IsFiniteSet(Fresh') /\ Cardinality(Fresh') <= Cardinality(Fresh) BY Counted, FS_Subset
  <1>2. IsFiniteSet(Creating') /\ Cardinality(Creating') <= Cardinality(Creating)
    BY Counted, FS_Subset
  <1>3. Cardinality(Fresh') \in Nat /\ Cardinality(Creating') \in Nat
    BY <1>1, <1>2, FS_CardinalityType
  <1>4. Cardinality(Fresh') + Cardinality(Creating') <= Cardinality(Request)
    BY <1>1, <1>2, <1>3, Counted DEF ActiveBounded
  <1> QED BY <1>4 DEF ActiveBounded

\* No active run: each request may be about to make one.
LEMMA Starting == ASSUME RowType, Fresh' = {} PROVE ActiveBounded'
PROOF
  <1>1. Creating' \subseteq Request BY DEF Creating
  <1>2. Cardinality(Creating') <= Cardinality(Request) /\ IsFiniteSet(Creating')
    BY <1>1, Counted, FS_Subset
  <1>3. Cardinality(Creating') \in Nat BY <1>2, FS_CardinalityType
  <1>4. Cardinality(Fresh') = 0 BY FS_EmptySet
  <1>5. Cardinality(Fresh') + Cardinality(Creating') <= Cardinality(Request)
    BY <1>2, <1>3, <1>4, Counted
  <1> QED BY <1>5 DEF ActiveBounded

\* A request turns its intention into a run.
LEMMA Trading ==
  ASSUME RowType, ActiveBounded, NEW q \in Creating, Creating' = Creating \ {q},
         Fresh' \subseteq Fresh \union {made + 1}
  PROVE  ActiveBounded'
PROOF
  <1>1. Cardinality(Creating') = Cardinality(Creating) - 1 BY Counted, FS_RemoveElement
  <1>2. made + 1 \notin Fresh BY CyclesAssumption DEF Fresh, Active, Made, RowType, Numbers
  <1> DEFINE grown == Fresh \union {made + 1}
  <1>3. IsFiniteSet(grown) /\ Cardinality(grown) = Cardinality(Fresh) + 1
    BY <1>2, Counted, FS_AddElement
  <1>4. IsFiniteSet(Fresh') /\ Cardinality(Fresh') <= Cardinality(grown) BY <1>3, FS_Subset
  <1>5. Cardinality(Fresh') \in Nat BY <1>4, FS_CardinalityType
  <1>6. Cardinality(Fresh') + Cardinality(Creating') <= Cardinality(Request)
    BY <1>1, <1>3, <1>4, <1>5, Counted DEF ActiveBounded
  <1> QED BY <1>6 DEF ActiveBounded


\* Active runs stay within the requests.
LEMMA BoundStep ==
  ASSUME RowType, RequestType, HistoryType, ActiveBounded, [Next]_vars
  PROVE  ActiveBounded'
PROOF
  <1>1. ASSUME UNCHANGED <<made, status, revived, pc>> PROVE ActiveBounded'
    BY <1>1 DEF ActiveBounded, Fresh, Active, Made, Creating
  <1>2. ASSUME NEW q \in Request, StartFresh(q) PROVE ActiveBounded'
    <2>1. Fresh' = {} BY <1>2 DEF StartFresh, NoneActive, rows, history, Fresh, Active, Made
    <2> QED BY <2>1, Starting
  <1>3. ASSUME NEW q \in Request, StartAgain(q) PROVE ActiveBounded'
    <2>1. Fresh' = Fresh BY <1>3 DEF StartAgain, rows, history, Fresh, Active, Made
    <2>2. Creating' \subseteq Creating BY <1>3 DEF StartAgain, Goto, Creating, RequestType
    <2> QED BY <2>1, <2>2, Counting
  <1>4. ASSUME NEW q \in Request, DropDuplicates(q) PROVE ActiveBounded'
    <2>1. Active' \subseteq Active BY <1>4, MadeRuns DEF DropDuplicates, Active, Made, Ended
    <2>2. Fresh' \subseteq Fresh BY <1>4, <2>1 DEF DropDuplicates, Fresh, history
    <2>3. Creating' \subseteq Creating BY <1>4 DEF DropDuplicates, Goto, Creating, RequestType
    <2> QED BY <2>2, <2>3, Counting
  <1>5. ASSUME NEW q \in Request, Resume(q) PROVE ActiveBounded'
    <2>1. Fresh' = Fresh BY <1>5 DEF Resume, rows, history, Fresh, Active, Made
    <2>2. Creating' \subseteq Creating BY <1>5 DEF Resume, Done, Creating, RequestType
    <2> QED BY <2>1, <2>2, Counting
  <1>6. ASSUME NEW q \in Request, Create(q) PROVE ActiveBounded'
    <2>1. PICK c, p : NewRun(q, c, p) BY <1>6 DEF Create
    <2>2. Active' = Active \union {made + 1} BY <2>1, Newcomer
    <2>3. Fresh' \subseteq Fresh \union {made + 1} BY <2>1, <2>2 DEF NewRun, Fresh
    <2>4. q \in Creating /\ Creating' = Creating \ {q}
      BY <1>6, <2>1 DEF Create, NewRun, Goto, Creating, RequestType
    <2> QED BY <2>3, <2>4, Trading
  <1>7. ASSUME NEW q \in Request, Reset(q) PROVE ActiveBounded'
    <2>1. Fresh' = Fresh BY <1>7 DEF Reset, rows, history, Fresh, Active, Made
    <2>2. Creating' \subseteq Creating BY <1>7 DEF Reset, Goto, Creating, RequestType
    <2> QED BY <2>1, <2>2, Counting
  <1>8. ASSUME NEW q \in Request, NextLoad(q) PROVE ActiveBounded'
    <2>1. Fresh' = Fresh BY <1>8 DEF NextLoad, rows, history, Fresh, Active, Made
    <2>2. Creating' \subseteq Creating BY <1>8 DEF NextLoad, Goto, Creating, RequestType
    <2> QED BY <2>1, <2>2, Counting
  <1>9. ASSUME NEW q \in Request, NextCheck(q) PROVE ActiveBounded'
    <2>1. CASE NoneActive /\ made > 0
      <3>1. Fresh' = {} BY <1>9, <2>1 DEF NextCheck, NoneActive, rows, history, Fresh, Active, Made
      <3> QED BY <3>1, Starting
    <2>2. CASE ~(NoneActive /\ made > 0)
      <3>1. Fresh' = Fresh BY <1>9 DEF NextCheck, rows, history, Fresh, Active, Made
      <3>2. Creating' \subseteq Creating BY <1>9, <2>2 DEF NextCheck, Done, Creating, RequestType
      <3> QED BY <3>1, <3>2, Counting
    <2> QED BY <2>1, <2>2
  <1>10. ASSUME NEW q \in Request, Branch(q) PROVE ActiveBounded'
    <2>1. PICK c, p : NewRun(q, c, p) BY <1>10 DEF Branch
    <2>2. Active' = Active \union {made + 1} BY <2>1, Newcomer
    <2>3. Fresh' \subseteq Fresh \union {made + 1} BY <2>1, <2>2 DEF NewRun, Fresh
    <2>4. q \in Creating /\ Creating' = Creating \ {q}
      BY <1>10, <2>1 DEF Branch, NewRun, Goto, Creating, RequestType
    <2> QED BY <2>3, <2>4, Trading
  <1>11. ASSUME NEW q \in Request, CopyFirst(q) PROVE ActiveBounded'
    <2>1. Fresh' = Fresh BY <1>11 DEF CopyFirst, rows, history, Fresh, Active, Made
    <2>2. Creating' \subseteq Creating BY <1>11 DEF CopyFirst, Goto, Creating, RequestType
    <2> QED BY <2>1, <2>2, Counting
  <1>12. ASSUME NEW q \in Request, CopyRest(q) PROVE ActiveBounded'
    <2>1. Fresh' = Fresh BY <1>12 DEF CopyRest, rows, history, Fresh, Active, Made
    <2>2. Creating' \subseteq Creating BY <1>12 DEF CopyRest, Goto, Creating, RequestType
    <2> QED BY <2>1, <2>2, Counting
  <1>13. ASSUME NEW q \in Request, Advance(q) PROVE ActiveBounded'
    <2>1. Fresh' = Fresh BY <1>13 DEF Advance, rows, history, Fresh, Active, Made
    <2>2. Creating' \subseteq Creating BY <1>13 DEF Advance, Goto, Creating, RequestType
    <2> QED BY <2>1, <2>2, Counting
  <1>14. ASSUME NEW q \in Request, Enqueue(q) PROVE ActiveBounded'
    <2>1. Fresh' = Fresh BY <1>14 DEF Enqueue, rows, history, Fresh, Active, Made
    <2>2. Creating' \subseteq Creating BY <1>14 DEF Enqueue, Done, Creating, RequestType
    <2> QED BY <2>1, <2>2, Counting
  <1>15. ASSUME NEW q \in Request, Die(q) PROVE ActiveBounded'
    <2>1. Fresh' = Fresh BY <1>15 DEF Die, rows, history, Fresh, Active, Made
    <2>2. Creating' \subseteq Creating BY <1>15 DEF Die, Done, Creating, RequestType
    <2> QED BY <2>1, <2>2, Counting
  <1>16. ASSUME NEW q \in Request, NEW i \in Made, NEW g \in Released, Approve(q, i, g) PROVE ActiveBounded'
    <2>1. i \in Active BY <1>16, AwaitingActive DEF Approve, Active
    <2>2. Active' = Active \union {i} BY <1>16, StatusMove DEF Approve, Ended
    <2>3. Fresh' = Fresh BY <1>16, <2>1, <2>2 DEF Approve, Fresh, history
    <2>4. Creating' \subseteq Creating BY <1>16 DEF Approve, Goto, Creating, RequestType
    <2> QED BY <2>3, <2>4, Counting
  <1>17. ASSUME NEW i \in Made, Take(i) PROVE ActiveBounded'
    <2>1. CASE UNCHANGED <<status, revived>>
      <3>1. Fresh' = Fresh /\ Creating' = Creating
        BY <1>17, <2>1 DEF Take, Fresh, Active, Made, Creating, requests
      <3> QED BY <3>1, Counting
    <2>2. CASE /\ status[i] \notin {"COMPLETED", "CANCELLED"} /\ status' = [status EXCEPT ![i] = "RUNNING"]
               /\ revived' = [revived EXCEPT ![i] = @ \/ status[i] = "FAILED"]
      <3>1. Active' = Active \union {i} /\ i \in Runs BY <1>17, <2>2, StatusMove DEF Take, Ended
      <3>2. i \in Active \/ status[i] = "FAILED" BY <2>2 DEF Active, Ended
      <3>3. status[i] = "FAILED" => revived'[i] BY <2>2, <3>1 DEF HistoryType
      <3>4. \A j \in Runs : revived[j] => revived'[j] BY <2>2, <3>1 DEF HistoryType
      <3>5. Fresh' \subseteq Fresh
        <4>1. SUFFICES ASSUME NEW j \in Fresh' PROVE j \in Fresh OBVIOUS
        <4>2. j \in Active \union {i} /\ ~revived'[j] BY <4>1, <3>1 DEF Fresh
        <4>3. j \in Active BY <4>2, <3>2, <3>3
        <4>4. j \in Runs BY <4>3, MadeRuns DEF Active
        <4> QED BY <4>2, <4>3, <4>4, <3>4 DEF Fresh
      <3>6. Creating' = Creating BY <1>17 DEF Take, Creating, requests
      <3> QED BY <3>5, <3>6, Counting
    <2> QED BY <1>17, <2>1, <2>2 DEF Take
  <1>18. ASSUME NEW i \in Made, Design(i) PROVE ActiveBounded'
    <2>1. i \in Active BY <1>18 DEF Design, Active, Ended
    <2>2. status' = [status EXCEPT ![i] = Awaiting["DESIGN"]] /\ made' = made /\ Awaiting["DESIGN"] \notin Ended
      BY <1>18, AwaitingActive DEF Design, StopsAt, Released
    <2>3. Active' = Active \union {i} BY <2>2, StatusMove
    <2>4. Fresh' \subseteq Fresh /\ Creating' = Creating
      BY <1>18, <2>1, <2>3 DEF Design, Fresh, Creating, history, requests
    <2> QED BY <2>4, Counting
  <1>19. ASSUME NEW i \in Made, Execute(i) PROVE ActiveBounded'
    <2>1. i \in Active BY <1>19 DEF Execute, Active, Ended
    <2>2. status' = [status EXCEPT ![i] = "AWAITING_HELD"] /\ made' = made /\ "AWAITING_HELD" \notin Ended
      BY <1>19 DEF Execute, Ended
    <2>3. Active' = Active \union {i} BY <2>2, StatusMove
    <2>4. Fresh' \subseteq Fresh /\ Creating' = Creating
      BY <1>19, <2>1, <2>3 DEF Execute, Fresh, Creating, history, requests
    <2> QED BY <2>4, Counting
  <1>20. ASSUME NEW i \in Made, Fail(i) PROVE ActiveBounded'
    <2>1. status' = [status EXCEPT ![i] = "FAILED"] /\ made' = made /\ "FAILED" \in Ended
      BY <1>20 DEF Fail, Ended
    <2>2. Active' \subseteq Active BY <2>1, StatusMove
    <2>4. Fresh' \subseteq Fresh /\ Creating' = Creating
      BY <1>20, <2>2 DEF Fail, Fresh, Creating, history, requests
    <2> QED BY <2>4, Counting
  <1>21. ASSUME NEW i \in Made, SignOff(i) PROVE ActiveBounded'
    <2>1. status' = [status EXCEPT ![i] = "COMPLETED"] /\ made' = made /\ "COMPLETED" \in Ended
      BY <1>21 DEF SignOff, Ended
    <2>2. Active' \subseteq Active BY <2>1, StatusMove
    <2>4. Fresh' \subseteq Fresh /\ Creating' = Creating
      BY <1>21, <2>2 DEF SignOff, Fresh, Creating, history, requests
    <2> QED BY <2>4, Counting
  <1>22. ASSUME NEW i \in Made, Cancel(i) PROVE ActiveBounded'
    <2>1. status' = [status EXCEPT ![i] = "CANCELLED"] /\ made' = made /\ "CANCELLED" \in Ended
      BY <1>22 DEF Cancel, Ended
    <2>2. Active' \subseteq Active BY <2>1, StatusMove
    <2>4. Fresh' \subseteq Fresh /\ Creating' = Creating
      BY <1>22, <2>2 DEF Cancel, Fresh, Creating, history, requests
    <2> QED BY <2>4, Counting
  <1>23. ASSUME NEW i \in Made, NEW g \in Released, Prepare(i, g) PROVE ActiveBounded'
    <2>1. i \in Active BY <1>23 DEF Prepare, Active, Ended
    <2>2. status' = [status EXCEPT ![i] = Awaiting[g]] /\ made' = made /\ Awaiting[g] \notin Ended
      BY <1>23, AwaitingActive DEF Prepare, StopsAt, Released
    <2>3. Active' = Active \union {i} BY <2>2, StatusMove
    <2>4. Fresh' \subseteq Fresh /\ Creating' = Creating
      BY <1>23, <2>1, <2>3 DEF Prepare, Fresh, Creating, history, requests
    <2> QED BY <2>4, Counting
  <1>24. CASE Withdraw \/ ClearAll \/ ApproveRequirements
    BY <1>1, <1>24 DEF Withdraw, Withdrawn, ClearAll, NoApproval, ApproveRequirements, rows, project,
       worker, requests, history
  <1>25. CASE UNCHANGED vars BY <1>1, <1>25 DEF vars, rows, project, worker, requests, history
  <1> QED
    BY <1>2, <1>3, <1>4, <1>5, <1>6, <1>7, <1>8, <1>9, <1>10, <1>11, <1>12, <1>13, <1>14, <1>15, <1>16,
       <1>17, <1>18, <1>19, <1>20, <1>21, <1>22, <1>23, <1>24, <1>25
    DEF Next, RequestStep, StartStep, NextCycleStep, WorkerStep, Released

--------------------------------------------------------------------------------
CyclesInv ==
  /\ TypeOK /\ Placed /\ SettledMade /\ AskedMade /\ OneRun
  /\ Picked /\ Sourced /\ AllMoved /\ ActiveBounded

\* A project at rest satisfies it.
LEMMA InvInit == Init => CyclesInv
PROOF
  <1> SUFFICES ASSUME Init PROVE CyclesInv OBVIOUS
  <1>1. /\ PastCycles \in Nat /\ PastCycles <= MaxRuns /\ MaxRuns \in Nat \ {0}
        /\ MaxAttempts \in Nat \ {0} /\ MaxMishaps \in Nat
    BY CyclesAssumption
  <1>2. /\ made = PastCycles /\ made \in Numbers /\ Made \subseteq Runs
        /\ \A i \in Runs : i \in Made <=> i <= PastCycles
    BY <1>1 DEF Init, Rested, Numbers, Runs, Made
  <1>3. \A i \in Runs : status[i] = IF i \in Made THEN "COMPLETED" ELSE "NONE"
    BY <1>2 DEF Init, Rested
  <1>4. RowType
    <2>1. status \in [Runs -> Statuses] BY Literals DEF Init, Rested
    <2>2. \A i \in Runs : status[i] = "NONE" <=> i > made BY <1>1, <1>2, <1>3 DEF Runs
    <2>3. cycle \in [Runs -> Nat] BY <1>1 DEF Init, Rested, Runs
    <2>4. parent \in [Runs -> Numbers] BY <1>1 DEF Init, Rested, Runs, Numbers
    <2>5. cases \in [Runs -> [from : Numbers, whole : BOOLEAN]]
      BY <1>1 DEF Init, Rested, NoCases, Numbers, Runs
    <2> QED BY <1>2, <2>1, <2>2, <2>3, <2>4, <2>5 DEF RowType
  <1>5. ProjectType
    BY <1>1 DEF Init, Rested, ProjectType, NoApproval, Released, Numbers
  <1>6. WorkerType BY <1>1 DEF Init, WorkerType
  <1>7. RequestType
    <2>1. pc \in [Request -> Pcs] /\ run \in [Request -> Numbers] BY Bounds DEF Init, Pcs
    <2>2. seen \in [Request -> Snapshots] BY Literals DEF Init
    <2>3. \A q \in Request : pc[q] = "idle" BY DEF Init
    <2>4. \A q \in Request : pc[q] \notin {"idle", "create", "check", "branch"} => run[q] \in 1..made
      BY <2>3
    <2> QED BY <2>1, <2>2, <2>4 DEF RequestType
  <1>8. HistoryType
    <2>1. settled \in [Runs -> BOOLEAN]
      <3>1. \A i \in Runs : (i <= PastCycles) \in BOOLEAN BY SMT
      <3>2. settled = [i \in Runs |-> i <= PastCycles] BY DEF Init, Rested
      <3> QED BY <3>1, <3>2, Zenon
    <2>2. revived \in [Runs -> BOOLEAN] BY Zenon DEF Init
    <2>3. crossed \in BOOLEAN BY Zenon DEF Init
    <2>4. lost \subseteq Runs BY DEF Init
    <2>5. mishaps \in 0..MaxMishaps BY <1>1 DEF Init
    <2> QED BY <2>1, <2>2, <2>3, <2>4, <2>5 DEF HistoryType
  <1>9. Placed BY DEF Init, Placed, PlacedAt
  <1>10. SettledMade BY <1>2 DEF Init, Rested, SettledMade
  <1>11. AskedMade BY <1>1, <1>2 DEF Init, Rested, AskedMade, NoApproval, Released, Made
  <1>12. Active = {} BY <1>2, <1>3 DEF Active, Ended
  <1>13. OneRun BY <1>12 DEF OneRun
  <1>14. Picked BY <1>1, <1>2 DEF Init, Rested, Picked, Runs
  <1>15. Sourced
    <2>1. SUFFICES ASSUME NEW i \in Runs, parent[i] = 0, approval["DESIGN"] = i PROVE Own(i)
      BY <1>3 DEF Sourced, SourcedAt
    <2>2. PastCycles # 0 /\ i = 1
      BY <2>1, <1>1 DEF Init, Rested, NoApproval, Released, Runs
    <2> QED BY <1>1, <2>2 DEF Init, Rested, Own
  <1>16. AllMoved BY <1>2, <1>3 DEF AllMoved
  <1>17. ActiveBounded
    <2>1. Fresh = {} /\ Creating = {} BY <1>12 DEF Fresh, Creating, Init
    <2>2. Cardinality(Fresh) = 0 /\ Cardinality(Creating) = 0 BY <2>1, FS_EmptySet
    <2> QED BY <1>4, <2>2, Counted DEF ActiveBounded
  <1> QED BY <1>4, <1>5, <1>6, <1>7, <1>8, <1>9, <1>10, <1>11, <1>13, <1>14, <1>15, <1>16, <1>17
          DEF CyclesInv, TypeOK

\* Every step keeps it.
LEMMA InvStep == CyclesInv /\ [Next]_vars => CyclesInv'
PROOF
  <1> SUFFICES ASSUME CyclesInv, [Next]_vars PROVE CyclesInv' OBVIOUS
  <1> USE DEF CyclesInv, TypeOK
  <1>1. TypeOK' BY RowTypeStep, ProjectTypeStep, WorkerTypeStep, RequestTypeStep, HistoryTypeStep
  <1>2. Placed' /\ SettledMade' /\ AskedMade' BY PlacedStep, SettledStep, AskedStep
  <1>3. OneRun' /\ Picked' /\ Sourced' BY OneRunStep, PickedStep, SourcedStep
  <1>4. AllMoved' /\ ActiveBounded' BY MovedStep, BoundStep
  <1> QED BY <1>1, <1>2, <1>3, <1>4

\* The inductive invariant holds for every number of requests, runs, attempts and mishaps.
THEOREM CyclesInvariance == Spec => []CyclesInv
BY InvInit, InvStep, PTL DEF Spec

\* Every reachable state of a project's runs is typed.
THEOREM CyclesTyped == Spec => []TypeOK
PROOF
  <1>1. CyclesInv => TypeOK BY DEF CyclesInv
  <1> QED BY <1>1, CyclesInvariance, PTL

\* For any number of overlapping requests, apart from FAILED runs that a retry takes up, there
\* are never more active runs, made or about to be made, than requests.
THEOREM RunsBounded == Spec => []ActiveBounded
PROOF
  <1>1. CyclesInv => ActiveBounded BY DEF CyclesInv
  <1> QED BY <1>1, CyclesInvariance, PTL

\* A QUEUED or RUNNING run that nothing will move is one whose handler died.
THEOREM StrandedByDeath == Spec => []OnlyDeadHandlersStrand
PROOF
  <1>1. CyclesInv => OnlyDeadHandlersStrand
    BY DEF CyclesInv, AllMoved, Moved, Moves, OnlyDeadHandlersStrand
  <1> QED BY <1>1, CyclesInvariance, PTL

\* Only the execution stage takes a run from RUNNING to its held gates.
LEMMA OnlyExecute ==
  ASSUME RowType, [Next]_vars, NEW i \in Runs, Executes(i) PROVE i \in Made /\ Execute(i)
PROOF
  <1> USE DEF Executes
  <1>1. \A j \in Made : j \in Runs BY MadeRuns
  <1>2. ASSUME UNCHANGED status PROVE FALSE BY <1>2
  <1>3. ASSUME NEW j \in Made, NEW s, s # "AWAITING_HELD", status' = [status EXCEPT ![j] = s] PROVE FALSE
    BY <1>1, <1>3 DEF RowType
  <1>4. ASSUME NEW q \in Request, RequestStep(q) PROVE FALSE
    <2>1. CASE StartFresh(q) \/ StartAgain(q) \/ Resume(q) \/ Reset(q)
      BY <1>2, <2>1 DEF StartFresh, StartAgain, Resume, Reset, rows
    <2>2. CASE DropDuplicates(q) BY <2>2 DEF DropDuplicates
    <2>3. CASE Create(q) \/ Branch(q)
      <3>1. PICK c, p : NewRun(q, c, p) BY <2>3 DEF Create, Branch
      <3> QED BY <3>1, Newcomer
    <2>4. CASE NextLoad(q) \/ NextCheck(q) \/ CopyFirst(q) \/ CopyRest(q) \/ Advance(q)
      BY <1>2, <2>4 DEF NextLoad, NextCheck, CopyFirst, CopyRest, Advance, rows
    <2>5. CASE Enqueue(q) \/ Die(q) BY <1>2, <2>5 DEF Enqueue, Die, rows
    <2>6. CASE \E j \in Made, g \in Released : Approve(q, j, g) BY <1>3, <2>6 DEF Approve
    <2> QED BY <1>4, <2>1, <2>2, <2>3, <2>4, <2>5, <2>6 DEF RequestStep, StartStep, NextCycleStep
  <1>5. ASSUME NEW j \in Made, WorkerStep(j) \/ SignOff(j) \/ Cancel(j) PROVE i = j /\ Execute(i)
    <2>1. CASE Take(j) BY <1>2, <1>3, <2>1 DEF Take
    <2>2. CASE Design(j) BY <1>3, <2>2 DEF Design, StopsAt, Awaiting
    <2>3. ASSUME NEW g \in {"ENV", "DATA"}, Prepare(j, g) PROVE FALSE
      BY <1>3, <2>3 DEF Prepare, StopsAt, Awaiting
    <2>4. CASE Execute(j) BY <1>1, <2>4 DEF Execute, RowType
    <2>5. CASE Fail(j) \/ SignOff(j) \/ Cancel(j) BY <1>3, <2>5 DEF Fail, SignOff, Cancel
    <2> QED BY <1>5, <2>1, <2>2, <2>3, <2>4, <2>5 DEF WorkerStep
  <1>6. CASE Withdraw \/ ClearAll \/ ApproveRequirements
    BY <1>2, <1>6 DEF Withdraw, ClearAll, ApproveRequirements, rows
  <1>7. CASE UNCHANGED vars BY <1>2, <1>7 DEF vars, rows
  <1> QED BY <1>4, <1>5, <1>6, <1>7 DEF Next

\* A run that reaches execution undisturbed is the newest, with approvals that are its own.
LEMMA ExecutesOnOwn ==
  ASSUME CyclesInv, [Next]_vars, NEW i \in Runs, Executes(i), Undisturbed(i)
  PROVE  /\ approval["DATA"] = i
         /\ parent[i] = 0 => approval["DESIGN"] = i /\ Own(i)
PROOF
  <1>1. i \in Made /\ Execute(i) BY OnlyExecute DEF CyclesInv, TypeOK
  <1>2. i \in Active BY <1>1 DEF Active, Ended, Execute
  <1>3. i = made BY <1>2 DEF CyclesInv, OneRun, Undisturbed
  <1>4. approval["DATA"] # 0 /\ approval["DESIGN"] # 0 BY <1>1 DEF Execute, Unapproved, Released
  <1> QED BY <1>3, <1>4 DEF CyclesInv, Picked, Sourced, SourcedAt, Undisturbed

\* A run reaches execution on test data that was approved for it.
THEOREM DataIsOwn == Spec => DataPickedForRun
PROOF
  <1>1. CyclesInv /\ [Next]_vars =>
          [\A i \in Runs : Executes(i) /\ Undisturbed(i) => approval["DATA"] = i]_vars
    BY ExecutesOnOwn
  <1> QED BY <1>1, CyclesInvariance, PTL DEF Spec, DataPickedForRun

\* A run made by start executes the cases that its own, approved design wrote.
THEOREM DesignIsOwn == Spec => StartedRunReviewed
PROOF
  <1>1. CyclesInv /\ [Next]_vars =>
          [\A i \in Runs : Executes(i) /\ Undisturbed(i) /\ parent[i] = 0 =>
             approval["DESIGN"] = i /\ cases[i] = [from |-> i, whole |-> TRUE]]_vars
    BY ExecutesOnOwn DEF Own
  <1> QED BY <1>1, CyclesInvariance, PTL DEF Spec, StartedRunReviewed

================================================================================
