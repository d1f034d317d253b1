---------------------------- MODULE MCManualCycle ----------------------------
(***************************************************************************)
(* ManualCycle for TLC.  A behaviour has one of two subjects: a cycle with *)
(* one runner process, in the environment the configuration gives, or one  *)
(* with two, where no process dies and no flag expires.                    *)
(***************************************************************************)
EXTENDS ManualCycle

VARIABLE subject

Pair == INSTANCE ManualCycle WITH Runners <- {"l1", "l2"}, MaxCrashes <- 0, Hazards <- {"fault"}

CycleInit ==
  /\ subject \in {"alone", "pair"}
  /\ IF subject = "pair" THEN Pair!Init ELSE Init

CycleNext ==
  /\ UNCHANGED subject
  /\ \/ subject = "alone" /\ Next
     \/ subject = "pair" /\ Pair!Next

\* One fairness assumption for both: no handler and no executor knows the runners.
CycleSpec == CycleInit /\ [][CycleNext]_<<subject, vars>> /\ Fairness
=============================================================================
