--------------------------- MODULE MCProjectCycles ---------------------------
(***************************************************************************)
(* ProjectCycles for TLC.  Two requests may overlap anywhere in start and  *)
(* startNextCycle as long as no worker is on a run, no job was retried and *)
(* nothing has died or been withdrawn; afterwards one hand acts at a time, *)
(* at any moment of what the runs do.  At most one run has its job         *)
(* retried, and none beside a mishap.                                      *)
(* Requests are interchangeable.                                           *)
(***************************************************************************)
EXTENDS ProjectCycles, TLC

Hands == Permutations(Request)

Busy == {q \in Request : pc[q] # "idle"}

Retried == {i \in Runs : tries[i] > 0}

OverlapBound ==
  /\ Cardinality(Busy) > 1 => driving = {} /\ mishaps = 0 /\ Retried = {}
  /\ Cardinality(Retried) <= IF mishaps = 0 THEN 1 ELSE 0
=============================================================================
