-------------------------- MODULE GateLedgerProofs ---------------------------
(***************************************************************************)
(* The abstract ledger grants its gates in order, for any set of gates.    *)
(***************************************************************************)
EXTENDS GateLedger, TLAPS

\* An open gate's predecessors are granted, and so are a granted gate's.
LedgerInv == TypeOK /\ InOrder /\ \A g \in open : Before(g) \subseteq granted

(* The ledger never holds a gate granted ahead of an earlier one: with *)
(* RefinesReleasedLedger this is what the pipeline's approvals inherit. *)
THEOREM LedgerInOrder == Spec => []InOrder
<1>1. Init => LedgerInv
  BY DEF Init, LedgerInv, TypeOK, InOrder
<1>2. LedgerInv /\ [Next]_ledger => LedgerInv'
  <2> SUFFICES ASSUME LedgerInv, [Next]_ledger PROVE LedgerInv'
    OBVIOUS
  <2>1. CASE Close
    BY <2>1 DEF Close, LedgerInv, TypeOK, InOrder, Before
  <2>2. ASSUME NEW g \in Gate, Open(g) PROVE LedgerInv'
    BY <2>2 DEF Open, LedgerInv, TypeOK, InOrder, Before
  <2>3. ASSUME NEW g \in Gate, Grant(g) PROVE LedgerInv'
    BY <2>3 DEF Grant, LedgerInv, TypeOK, InOrder, Before
  <2>4. CASE UNCHANGED ledger
    BY <2>4 DEF ledger, LedgerInv, TypeOK, InOrder, Before
  <2> QED BY <2>1, <2>2, <2>3, <2>4 DEF Next
<1>3. LedgerInv => InOrder
  BY DEF LedgerInv
<1> QED BY <1>1, <1>2, <1>3, PTL DEF Spec
=============================================================================
