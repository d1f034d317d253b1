----------------------------- MODULE MCStlcRun ------------------------------
(***************************************************************************)
(* StlcRun on small instances.  Where two requests may be in flight, they  *)
(* are while at most one worker slot is on a run, and two slots are on a   *)
(* run while at most one request is.                                       *)
(***************************************************************************)
EXTENDS StlcRun, TLC

Symmetry == Permutations(Exec) \union Permutations(Worker) \union Permutations(Request)

\* Only EditCases, whose step the view does not show, has a guard that reads stage, cases,
\* answered or orphan; each is read for its own next value, and browser for orphan.  A run
\* whose properties do not mention them may identify states up to them.
ControlView ==
  <<row, approved, flags, queued, slots, requests, crashes>>

Busy    == {r \in Request : rpc[r] # "idle"}
Driving == {w \in Worker : wpc[w] # "idle"}

OverlapBound == Cardinality(Busy) <= 1 \/ Cardinality(Driving) <= 1
=============================================================================
