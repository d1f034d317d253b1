------------------------------ MODULE PlanUsage ------------------------------
(***************************************************************************)
(* The monthly limit of one usage type of one organisation.  A metered     *)
(* operation asks assertPlanLimit first, does its work, and writes its     *)
(* usage event last (or in the transaction of its own row), so the sum     *)
(* that the check reads does not know of the operations that are between   *)
(* the two.                                                                *)
(***************************************************************************)
EXTENDS Integers, FiniteSets

CONSTANTS
  Request,         \* requests of the organisation's members that may be in flight at once
  Exempt,          \* the requests made by an OWNER
  Limit,           \* the plan's limit, negative for unlimited
  MaxQuantity,     \* bound: units one request may use (cases of one execution)
  MaxUsed          \* bound: units recorded in one month

ASSUME UsageAssumption ==
  /\ IsFiniteSet(Request) /\ Request # {}
  /\ Exempt \subseteq Request
  /\ Limit \in Int
  /\ MaxQuantity \in Nat \ {0}
  /\ MaxUsed \in Nat

VARIABLES
  used,            \* sum of the usage events of this month
  upc,             \* request: idle, checked (allowed, still working), worked (done, not recorded)
  quantity         \* units the request asked for

usageVars == <<used, upc, quantity>>

Unlimited  == Limit < 0
Quantities == 1..MaxQuantity

UsageType ==
  /\ used \in Nat
  /\ upc \in [Request -> {"idle", "checked", "worked"}]
  /\ quantity \in [Request -> Quantities]

UsageInit ==
  /\ used = 0
  /\ upc = [r \in Request |-> "idle"]
  /\ quantity = [r \in Request |-> 1]

\* Slip: the units of the request itself are left out.
UsedBelow(n) == used <= Limit

checkPlanLimit(n) == used + n <= Limit

assertPlanLimit(r, n) ==
  /\ upc[r] = "idle"
  /\ r \in Exempt \/ Unlimited \/ checkPlanLimit(n)
  /\ upc' = [upc EXCEPT ![r] = "checked"]
  /\ quantity' = [quantity EXCEPT ![r] = n]
  /\ UNCHANGED used

\* The operation's own rows are written: an execution, the cases of a generation, a plan.
Perform(r) ==
  /\ upc[r] = "checked"
  /\ upc' = [upc EXCEPT ![r] = "worked"]
  /\ UNCHANGED <<used, quantity>>

recordUsage(r) ==
  /\ upc[r] = "worked"
  /\ used + quantity[r] <= MaxUsed
  /\ used' = used + quantity[r]
  /\ upc' = [upc EXCEPT ![r] = "idle"]
  /\ UNCHANGED quantity

\* executions.create writes the row and the usage event in one transaction.
PerformAndRecord(r) ==
  /\ upc[r] = "checked"
  /\ used + quantity[r] <= MaxUsed
  /\ used' = used + quantity[r]
  /\ upc' = [upc EXCEPT ![r] = "idle"]
  /\ UNCHANGED quantity

\* An AI generate run is checked and never recorded.
startAiGenerateRun(r) ==
  /\ upc[r] = "checked" /\ quantity[r] = 1
  /\ upc' = [upc EXCEPT ![r] = "idle"]
  /\ UNCHANGED <<used, quantity>>

\* The operation throws or its process dies, before or after its work.
GiveUp(r) ==
  /\ upc[r] # "idle"
  /\ upc' = [upc EXCEPT ![r] = "idle"]
  /\ UNCHANGED <<used, quantity>>

\* A new UTC month: sumUsage counts from its first day.
MonthTurns ==
  /\ used > 0
  /\ used' = 0
  /\ UNCHANGED <<upc, quantity>>

UsageStep(r) ==
  \/ \E n \in Quantities : assertPlanLimit(r, n)
  \/ Perform(r) \/ recordUsage(r) \/ PerformAndRecord(r) \/ startAiGenerateRun(r) \/ GiveUp(r)

UsageNext == (\E r \in Request : UsageStep(r)) \/ MonthTurns

UsageSpec == UsageInit /\ [][UsageNext]_usageVars

--------------------------------------------------------------------------------
\* With one request at a time the month's usage stays within the plan; requests that overlap
\* may each add what one request may use, and never more (assertPlanLimit and recordUsage are
\* two steps, with the whole operation between them).
OverrunBounded ==
  Exempt = {} /\ ~Unlimited => used <= Limit + MaxQuantity * (Cardinality(Request) - 1)
=============================================================================
