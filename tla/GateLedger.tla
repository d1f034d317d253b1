----------------------------- MODULE GateLedger -----------------------------
(***************************************************************************)
(* What the human-gated pipeline promises, without queue, worker or Redis: *)
(* a gate is put to a human only when every earlier gate has been granted, *)
(* and only a gate that was put to a human is ever granted.  The contract  *)
(* is the one the project columns document in schema.prisma ("Human gate   *)
(* after Stage N - required before ...").                                  *)
(***************************************************************************)
EXTENDS Naturals

CONSTANT Gate                 \* the gates in question, numbered in pipeline order

VARIABLES open,               \* gates put to a human, or whose answer is being recorded
          granted             \* gates whose approval is on record

ledger == <<open, granted>>

Before(g) == {h \in Gate : h < g}

TypeOK == open \subseteq Gate /\ granted \subseteq Gate

Init == open = {} /\ granted = {}

\* Opening a gate may close others: the row shows one gate at a time.
Open(g) ==
  /\ Before(g) \subseteq granted
  /\ \E closed \in SUBSET open : open' = (open \ closed) \union {g}
  /\ UNCHANGED granted

Close ==
  /\ \E closed \in SUBSET open : open' = open \ closed
  /\ UNCHANGED granted

Grant(g) ==
  /\ g \in open
  /\ granted' = granted \union {g}
  /\ \E closed \in SUBSET open : open' = open \ closed

Next == Close \/ \E g \in Gate : Open(g) \/ Grant(g)

Spec == Init /\ [][Next]_ledger

(* No gate is granted ahead of an earlier one. *)
InOrder == \A g \in granted : Before(g) \subseteq granted
=============================================================================
