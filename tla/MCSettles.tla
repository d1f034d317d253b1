------------------------------ MODULE MCSettles ------------------------------
(***************************************************************************)
(* Four environments of StlcRun under one fairness assumption.  A          *)
(* behaviour has one of them, chosen at the start:                         *)
(*   contested the real gates, agents that throw and are retried, and      *)
(*             cancels around a user who answers what is asked;            *)
(*   patient   the same without the cancels;                               *)
(*   cancel    a cancel at any moment, its handler as slow as it likes;    *)
(*   storm     everything the environment may do, on one slot.             *)
(* The first two are on StlcRun's own variables, on which its safety       *)
(* properties are claimed; the others, in which no property of that kind   *)
(* holds, are on variables of their own.  What is not the subject stands   *)
(* still.                                                                  *)
(***************************************************************************)
EXTENDS StlcRun

VARIABLES
  subject,
  xstatus, xgate, xapproved, xstage, xcases, xcontFlag, xcancelFlag, xqueued,
  xwpc, xwexec, xwgate, xwtry, xbrowser, xorphan, xrpc, xrop, xrexec, xrgate, xanswered, xcrashes

apart == <<xstatus, xgate, xapproved, xstage, xcases, xcontFlag, xcancelFlag, xqueued,
           xwpc, xwexec, xwgate, xwtry, xbrowser, xorphan, xrpc, xrop, xrexec, xrgate, xanswered, xcrashes>>
everything == <<subject, vars, apart>>

\* The configuration gives StlcRun's constants the values of contested.
Patient == INSTANCE StlcRun WITH Hazards <- {"fault"}

Cancel == INSTANCE StlcRun
  WITH LastReleased <- 2, LastGate <- 5, MaxAttempts <- 2, Hazards <- {"fault", "cancel", "slow"},
       status <- xstatus, gate <- xgate, approved <- xapproved, stage <- xstage, cases <- xcases,
       contFlag <- xcontFlag, cancelFlag <- xcancelFlag, queued <- xqueued,
       wpc <- xwpc, wexec <- xwexec, wgate <- xwgate, wtry <- xwtry,
       browser <- xbrowser, orphan <- xorphan,
       rpc <- xrpc, rop <- xrop, rexec <- xrexec, rgate <- xrgate,
       answered <- xanswered, crashes <- xcrashes
Storm == INSTANCE StlcRun
  WITH Worker <- {"w1"}, LastReleased <- 2, LastGate <- 5, MaxAttempts <- 1, MaxCrashes <- 1,
       Hazards <- AllHazards \ {"edit"},
       status <- xstatus, gate <- xgate, approved <- xapproved, stage <- xstage, cases <- xcases,
       contFlag <- xcontFlag, cancelFlag <- xcancelFlag, queued <- xqueued,
       wpc <- xwpc, wexec <- xwexec, wgate <- xwgate, wtry <- xwtry,
       browser <- xbrowser, orphan <- xorphan,
       rpc <- xrpc, rop <- xrop, rexec <- xrexec, rgate <- xrgate,
       answered <- xanswered, crashes <- xcrashes

SettlesInit ==
  /\ subject \in {"contested", "patient", "cancel", "storm"}
  /\ Init
  /\ IF subject = "storm" THEN Storm!Init ELSE Cancel!Init

SettlesNext ==
  /\ UNCHANGED subject
  /\ \/ subject = "contested" /\ Next /\ UNCHANGED apart
     \/ subject = "patient" /\ Patient!Next /\ UNCHANGED apart
     \/ subject = "cancel" /\ Cancel!Next /\ UNCHANGED vars
     \/ subject = "storm" /\ Storm!Next /\ UNCHANGED vars

\* StlcRun's Fairness, for the environment that was chosen.
SettlesFair ==
  /\ \A w \in Worker :
       /\ WF_vars(subject = "patient" /\ Patient!Drive(w))
       /\ WF_apart(subject = "cancel" /\ Cancel!Drive(w))
  /\ WF_vars(subject = "patient" /\ \E w \in Worker : Patient!ClaimAny(w))
  /\ WF_apart(subject = "cancel" /\ \E w \in Worker : Cancel!ClaimAny(w))
  /\ WF_apart(subject = "storm" /\ Storm!Drive("w1"))
  /\ WF_apart(subject = "storm" /\ Storm!WaitTimeout("w1"))
  /\ WF_apart(subject = "storm" /\ Storm!ClaimAny("w1"))
  /\ \A r \in Request :
       /\ WF_vars(subject = "patient" /\ Patient!Handle(r))
       /\ WF_apart(subject = "cancel" /\ Cancel!Handle(r))
       /\ WF_apart(subject = "storm" /\ Storm!Handle(r))

SettlesSpec == SettlesInit /\ [][SettlesNext]_everything /\ SettlesFair

--------------------------------------------------------------------------------
(* The safety properties are StlcRun's own; its liveness properties, each in the environment  *)
(* it is claimed for.                                                                         *)

\* See StlcRun: a run reaches a gate or an end.
RunReachesGateOrEnd == subject = "patient" => RunSettles
\* See StlcRun: a cancel frees the slot.  Storm's instance of the formula speaks of the slot w1,
\* which both environments have; w2 is its twin.
CancelFreesItsSlot == subject = "cancel" => Storm!CancelFreesSlot
\* See StlcRun: no job keeps its slot for ever.
EverySlotFreed == subject = "storm" => Storm!SlotFreed
=============================================================================
