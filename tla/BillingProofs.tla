----------------------------- MODULE BillingProofs -----------------------------
(***************************************************************************)
(* What an organisation may use and what it pays for: how far requests     *)
(* that overlap may carry a month's usage past the plan, and that the plan *)
(* follows Stripe.                                                         *)
(***************************************************************************)
EXTENDS PlanUsage, Subscription, FiniteSetTheorems, TLAPS

--------------------------------------------------------------------------------
(* The usage.  The bound is not inductive: a request between its check and its record will     *)
(* still add its units.  Covered counts them: each request in flight for all it may ask, but   *)
(* one, whose own units are counted as they are.                                               *)

Pending == {r \in Request : upc[r] # "idle"}
Flight  == Cardinality(Pending)
Ceiling == Limit + MaxQuantity * (Cardinality(Request) - 1)

Covered ==
  \/ used + MaxQuantity * Flight <= Ceiling
  \/ \E r \in Pending : used + quantity[r] + MaxQuantity * (Flight - 1) <= Ceiling

OverrunInv == UsageType /\ (Exempt = {} /\ ~Unlimited => Covered)

\* Products with MaxQuantity grow with their other factor, by MaxQuantity a step.
LEMMA Products ==
  ASSUME NEW a \in Int, NEW b \in Int
  PROVE  /\ MaxQuantity * a \in Int
         /\ MaxQuantity * (a - 1) = MaxQuantity * a - MaxQuantity
         /\ a <= b => MaxQuantity * a <= MaxQuantity * b
         /\ a >= 0 => MaxQuantity * a >= 0
PROOF
  <1>1. MaxQuantity \in Nat BY UsageAssumption
  <1>2. MaxQuantity * a \in Int BY <1>1, SMT
  <1>3. MaxQuantity * (a - 1) = MaxQuantity * a - MaxQuantity BY <1>1, SMT
  <1>4. a <= b => MaxQuantity * a <= MaxQuantity * b
    <2>1. SUFFICES ASSUME a <= b PROVE MaxQuantity * a <= MaxQuantity * b
      OBVIOUS
    <2>2. MaxQuantity * (b - a) >= 0 BY <1>1, <2>1, SMT
    <2>3. MaxQuantity * (b - a) = MaxQuantity * b - MaxQuantity * a BY <1>1, SMT
    <2>4. MaxQuantity * b \in Int BY <1>1, SMT
    <2> QED BY <1>2, <2>2, <2>3, <2>4, SMT
  <1>5. a >= 0 => MaxQuantity * a >= 0 BY <1>1, SMT
  <1> QED BY <1>2, <1>3, <1>4, <1>5

\* The requests in flight are finitely many, and no more than there are.
LEMMA FlightBound ==
  ASSUME UsageType
  PROVE  /\ IsFiniteSet(Pending) /\ Flight \in Nat
         /\ Cardinality(Request) \in Nat /\ Flight <= Cardinality(Request)
         /\ Pending # {} => Flight >= 1
PROOF
  <1>1. IsFiniteSet(Request) BY UsageAssumption
  <1>2. Pending \subseteq Request BY DEF Pending
  <1>3. IsFiniteSet(Pending) /\ Flight <= Cardinality(Request)
    BY <1>1, <1>2, FS_Subset DEF Flight
  <1>4. Flight \in Nat /\ Cardinality(Request) \in Nat
    BY <1>1, <1>3, FS_CardinalityType DEF Flight
  <1>5. Pending # {} => Flight # 0
    BY <1>3, FS_EmptySet DEF Flight
  <1> QED BY <1>3, <1>4, <1>5

\* Types are kept by every step.
LEMMA UsageTypeStep == ASSUME UsageType, [UsageNext]_usageVars PROVE UsageType'
PROOF
  <1> USE UsageAssumption DEF UsageType
  <1>1. CASE UNCHANGED usageVars BY <1>1 DEF usageVars
  <1>2. CASE MonthTurns BY <1>2 DEF MonthTurns
  <1>3. ASSUME NEW r \in Request, UsageStep(r) PROVE UsageType'
    <2>1. ASSUME NEW n \in Quantities, assertPlanLimit(r, n) PROVE UsageType'
      BY <2>1 DEF assertPlanLimit
    <2>2. CASE Perform(r) BY <2>2 DEF Perform
    <2>3. quantity[r] \in Nat BY DEF Quantities
    <2>4. CASE recordUsage(r) BY <2>3, <2>4 DEF recordUsage
    <2>5. CASE PerformAndRecord(r) BY <2>3, <2>5 DEF PerformAndRecord
    <2>6. CASE startAiGenerateRun(r) BY <2>6 DEF startAiGenerateRun
    <2>7. CASE GiveUp(r) BY <2>7 DEF GiveUp
    <2> QED BY <1>3, <2>1, <2>2, <2>4, <2>5, <2>6, <2>7 DEF UsageStep
  <1> QED BY <1>1, <1>2, <1>3 DEF UsageNext

\* A request that leaves without recording takes its units out of the count.
LEMMA Leaving ==
  ASSUME UsageType, NEW r \in Pending, Covered,
         upc' = [upc EXCEPT ![r] = "idle"], quantity' = quantity, used' \in Int,
         used' = used \/ used' = used + quantity[r]
  PROVE  Covered'
PROOF
  <1>1. IsFiniteSet(Pending) /\ Flight \in Nat /\ Flight >= 1 BY FlightBound
  <1>2. Pending' = Pending \ {r} BY DEF Pending, UsageType
  <1>3. Flight' = Flight - 1 BY <1>1, <1>2, FS_RemoveElement DEF Flight
  <1>4. Ceiling' = Ceiling BY DEF Ceiling
  <1> DEFINE load == MaxQuantity * Flight
             less == MaxQuantity * (Flight - 1)
             least == MaxQuantity * (Flight - 2)
  <1>5. load \in Int /\ less = load - MaxQuantity /\ least = less - MaxQuantity
    <2>1. (Flight - 1) - 1 = Flight - 2 /\ Flight - 1 \in Int BY <1>1
    <2> QED BY <1>1, <2>1, Products
  <1>6. \A s \in Request : quantity[s] \in 1..MaxQuantity BY DEF UsageType, Quantities
  <1>7. MaxQuantity \in Nat /\ used \in Nat BY UsageAssumption DEF UsageType
  <1>8. Ceiling \in Int
    <2>1. Cardinality(Request) - 1 \in Int BY FlightBound
    <2> QED BY <2>1, Products, UsageAssumption DEF Ceiling
  <1>9. r \in Request BY DEF Pending
  <1>10. CASE used + load <= Ceiling
    <2>1. used' + less <= Ceiling BY <1>5, <1>6, <1>7, <1>8, <1>9, <1>10
    <2> QED BY <1>3, <1>4, <2>1 DEF Covered
  <1>11. ASSUME NEW s \in Pending, used + quantity[s] + less <= Ceiling PROVE Covered'
    <2>1. s \in Request BY DEF Pending
    <2>2. CASE s = r
      <3>1. used' + less <= Ceiling BY <1>5, <1>6, <1>7, <1>8, <1>9, <1>11, <2>2
      <3> QED BY <1>3, <1>4, <3>1 DEF Covered
    <2>3. CASE s # r
      <3>1. used' + quantity[s] + least <= Ceiling BY <1>5, <1>6, <1>7, <1>8, <1>9, <1>11, <2>1
      <3>2. s \in Pending' BY <1>2, <2>3
      <3>3. Flight' - 1 = Flight - 2 BY <1>1, <1>3
      <3>4. used' + quantity'[s] + MaxQuantity * (Flight' - 1) <= Ceiling' BY <1>4, <3>1, <3>3
      <3> QED BY <3>2, <3>4 DEF Covered
    <2> QED BY <2>2, <2>3
  <1> QED BY <1>10, <1>11 DEF Covered

\* Steps keep what is in flight covered.
LEMMA CoveredStep ==
  ASSUME UsageType, Exempt = {}, ~Unlimited, Covered, [UsageNext]_usageVars
  PROVE  Covered'
PROOF
  <1>1. ASSUME upc' = upc, quantity' = quantity, used' \in Int, used' <= used PROVE Covered'
    <2>1. Pending' = Pending /\ Flight' = Flight /\ Ceiling' = Ceiling
      BY <1>1 DEF Pending, Flight, Ceiling
    <2>2. MaxQuantity * Flight \in Int /\ MaxQuantity * (Flight - 1) \in Int /\ Ceiling \in Int
      BY FlightBound, Products, UsageAssumption DEF Ceiling
    <2>3. used \in Nat /\ \A s \in Pending : quantity[s] \in Int
      BY DEF UsageType, Quantities, Pending
    <2> QED BY <1>1, <2>1, <2>2, <2>3 DEF Covered
  <1>2. used \in Nat BY DEF UsageType
  <1>3. CASE UNCHANGED usageVars BY <1>1, <1>2, <1>3 DEF usageVars
  <1>4. CASE MonthTurns BY <1>1, <1>2, <1>4 DEF MonthTurns
  <1>5. ASSUME NEW r \in Request, UsageStep(r) PROVE Covered'
    <2>1. ASSUME NEW n \in Quantities, assertPlanLimit(r, n) PROVE Covered'
      <3>1. upc[r] = "idle" /\ used + n <= Limit BY <2>1 DEF assertPlanLimit, checkPlanLimit
      <3>2. Pending' = Pending \union {r} /\ r \notin Pending
        BY <2>1, <3>1 DEF assertPlanLimit, Pending, UsageType
      <3>3. Flight' = Flight + 1 BY <3>2, FlightBound, FS_AddElement DEF Flight
      <3>4. UsageType' BY UsageTypeStep, <1>5 DEF UsageNext
      <3>5. Flight <= Cardinality(Request) - 1
        <4>1. Pending' \subseteq Request BY <3>2 DEF Pending
        <4>2. Flight' <= Cardinality(Request)
          BY <4>1, FS_Subset, UsageAssumption DEF Flight
        <4> QED BY <3>3, <4>2, FlightBound
      <3>6. MaxQuantity * Flight <= MaxQuantity * (Cardinality(Request) - 1)
        BY <3>5, FlightBound, Products
      <3>7. MaxQuantity * Flight \in Int /\ MaxQuantity * (Cardinality(Request) - 1) \in Int
        BY FlightBound, Products
      <3>8. used' = used /\ quantity'[r] = n BY <2>1 DEF assertPlanLimit, UsageType
      <3>9. used + n + MaxQuantity * Flight <= Ceiling
        BY <1>2, <3>1, <3>6, <3>7, UsageAssumption DEF Ceiling, Quantities
      <3>10. Flight' - 1 = Flight BY <3>3, FlightBound
      <3>11. used' + quantity'[r] + MaxQuantity * (Flight' - 1) <= Ceiling'
        BY <3>8, <3>9, <3>10 DEF Ceiling
      <3> QED BY <3>2, <3>11 DEF Covered
    <2>2. CASE Perform(r)
      <3>1. Pending' = Pending BY <2>2 DEF Perform, Pending, UsageType
      <3> QED BY <2>2, <3>1 DEF Perform, Covered, Flight, Ceiling
    <2>3. quantity[r] \in Nat BY DEF UsageType, Quantities
    <2>4. CASE recordUsage(r)
      <3>1. r \in Pending BY <2>4 DEF recordUsage, Pending
      <3>2. upc' = [upc EXCEPT ![r] = "idle"] /\ quantity' = quantity BY <2>4 DEF recordUsage
      <3>3. used' \in Int /\ used' = used + quantity[r] BY <1>2, <2>3, <2>4 DEF recordUsage
      <3> QED BY <3>1, <3>2, <3>3, Leaving
    <2>5. CASE PerformAndRecord(r)
      <3>1. r \in Pending BY <2>5 DEF PerformAndRecord, Pending
      <3>2. upc' = [upc EXCEPT ![r] = "idle"] /\ quantity' = quantity BY <2>5 DEF PerformAndRecord
      <3>3. used' \in Int /\ used' = used + quantity[r] BY <1>2, <2>3, <2>5 DEF PerformAndRecord
      <3> QED BY <3>1, <3>2, <3>3, Leaving
    <2>6. CASE startAiGenerateRun(r)
      <3>1. r \in Pending BY <2>6 DEF startAiGenerateRun, Pending
      <3>2. upc' = [upc EXCEPT ![r] = "idle"] /\ quantity' = quantity BY <2>6 DEF startAiGenerateRun
      <3>3. used' \in Int /\ used' = used BY <1>2, <2>6 DEF startAiGenerateRun
      <3> QED BY <3>1, <3>2, <3>3, Leaving
    <2>7. CASE GiveUp(r)
      <3>1. r \in Pending BY <2>7 DEF GiveUp, Pending
      <3>2. upc' = [upc EXCEPT ![r] = "idle"] /\ quantity' = quantity BY <2>7 DEF GiveUp
      <3>3. used' \in Int /\ used' = used BY <1>2, <2>7 DEF GiveUp
      <3> QED BY <3>1, <3>2, <3>3, Leaving
    <2> QED BY <1>5, <2>1, <2>2, <2>4, <2>5, <2>6, <2>7 DEF UsageStep
  <1> QED BY <1>3, <1>4, <1>5 DEF UsageNext

\* The month's usage, its requests and what they asked for stay in their types.
THEOREM UsageTypeCorrect == UsageSpec => []UsageType
PROOF
  <1>1. UsageInit => UsageType BY UsageAssumption DEF UsageInit, UsageType, Quantities
  <1>2. UsageType /\ [UsageNext]_usageVars => UsageType' BY UsageTypeStep
  <1> QED BY <1>1, <1>2, PTL DEF UsageSpec

\* For every plan limit and any number of overlapping requests: usage passes the limit by at
\* most what all of them but one may ask for, so by nothing when they do not overlap.
THEOREM UsageBounded == UsageSpec => []OverrunBounded
PROOF
  <1>1. UsageInit => OverrunInv
    <2>1. SUFFICES ASSUME UsageInit PROVE OverrunInv OBVIOUS
    <2>2. UsageType BY <2>1, UsageAssumption DEF UsageInit, UsageType, Quantities
    <2>3. ASSUME ~Unlimited PROVE Covered
      <3>1. Pending = {} BY <2>1 DEF UsageInit, Pending
      <3>2. Flight = 0 BY <3>1, FS_EmptySet DEF Flight
      <3>3. Cardinality(Request) # 0 BY UsageAssumption, FS_EmptySet
      <3>4. Cardinality(Request) - 1 \in Nat BY <2>2, <3>3, FlightBound
      <3>5. MaxQuantity * (Cardinality(Request) - 1) \in Nat BY <3>4, Products
      <3>6. MaxQuantity * Flight = 0 BY <3>2, UsageAssumption
      <3>7. used = 0 /\ Limit >= 0 /\ Limit \in Int BY <2>1, <2>3, UsageAssumption DEF UsageInit, Unlimited
      <3> QED BY <3>5, <3>6, <3>7 DEF Covered, Ceiling
    <2> QED BY <2>2, <2>3 DEF OverrunInv
  <1>2. OverrunInv /\ [UsageNext]_usageVars => OverrunInv'
    BY UsageTypeStep, CoveredStep DEF OverrunInv, Unlimited
  <1>3. OverrunInv => OverrunBounded
    <2>1. SUFFICES ASSUME OverrunInv, Exempt = {}, ~Unlimited PROVE used <= Ceiling
      BY DEF OverrunBounded, Ceiling
    <2>2. Flight \in Nat /\ UsageType /\ Covered BY <2>1, FlightBound DEF OverrunInv
    <2>3. used \in Nat /\ \A s \in Pending : quantity[s] \in Nat
      BY <2>2 DEF UsageType, Quantities, Pending
    <2>4. MaxQuantity * Flight \in Nat BY <2>2, Products
    <2>5. Ceiling \in Int
      <3>1. Cardinality(Request) - 1 \in Int BY <2>2, FlightBound
      <3> QED BY <3>1, Products, UsageAssumption DEF Ceiling
    <2>6. CASE used + MaxQuantity * Flight <= Ceiling BY <2>3, <2>4, <2>5, <2>6
    <2>7. ASSUME NEW s \in Pending, used + quantity[s] + MaxQuantity * (Flight - 1) <= Ceiling
          PROVE  used <= Ceiling
      <3>1. Flight - 1 \in Nat BY <2>2, FlightBound
      <3>2. MaxQuantity * (Flight - 1) \in Nat BY <3>1, Products
      <3> QED BY <2>3, <2>5, <2>7, <3>2
    <2> QED BY <2>2, <2>6, <2>7 DEF Covered
  <1> QED BY <1>1, <1>2, <1>3, PTL DEF UsageSpec

--------------------------------------------------------------------------------
(* The subscription.  An event under way hides what the plan will be, and one that waits hides *)
(* what the subscription will be: the plan is right where neither is in the way (CaughtUp),    *)
(* since the last event of a subscription tells its state (LastIsCurrent), the deliveries are  *)
(* taken one at a time (OneAtATime), and never back in time (TakenInOrder).                    *)

Events == \A e \in pending : e.place \in 1..sent /\ e.sub \in Sub /\ (e.kind = "completed" => e.status = "active")
SentOnce == \A e, o \in pending : e.place = o.place => e = o

OneAtATime ==
  \A d \in Delivery : dpc[d] # "idle" =>
    /\ event[d] \in pending /\ event[d].place = seen
    /\ \A o \in Delivery : dpc[o] # "idle" => o = d

TakenInOrder == \A e \in pending : seen <= e.place

LastIsCurrent ==
  \A e \in pending :
    (\A o \in pending : o.sub = e.sub => o.place <= e.place) => stripe[e.sub] = e.status

FoundRow == \A d \in Delivery : dpc[d] = "found" => record.sub = event[d].sub

CaughtUp ==
  /\ record.sub # 0
  /\ \A e \in pending : e.sub = record.sub => e.place <= seen
  /\ \A d \in Delivery : dpc[d] # "idle" => event[d].sub # record.sub
  => (record.plan = "PRO" <=> stripe[record.sub] = "active")

Followed == OneAtATime /\ TakenInOrder /\ LastIsCurrent /\ FoundRow /\ CaughtUp

SubscriptionInv == SubscriptionType /\ Events /\ SentOnce /\ seen <= sent /\ (~reordered => Followed)

\* Stripe sends an event: it is the subscription's latest.
LEMMA SendStep ==
  ASSUME SubscriptionInv, NEW s \in Sub,
         NEW kind \in {"completed", "updated", "deleted"}, NEW status \in {"active", "past_due", "canceled"},
         kind = "completed" => status = "active", Send(kind, s, status)
  PROVE  SubscriptionInv'
PROOF
  <1> DEFINE new == [kind |-> kind, sub |-> s, status |-> status, place |-> sent + 1]
  <1>1. sent + 1 \in Place /\ sent \in Nat /\ sent' = sent + 1 /\ seen \in Nat
    BY SubscriptionAssumption DEF Send, SubscriptionInv, SubscriptionType, Place
  <1>2. new \in Event
    BY <1>1 DEF Event
  <1>3. SubscriptionType'
    BY <1>1, <1>2 DEF Send, SubscriptionInv, SubscriptionType
  <1>4. Events' /\ SentOnce' /\ (seen <= sent)'
    BY <1>1 DEF Send, SubscriptionInv, Events, SentOnce
  <1>5. ASSUME ~reordered' PROVE Followed'
    <2>1. Followed /\ pending' = pending \union {new} /\ \A e \in pending : e.place < new.place
      BY <1>1, <1>5 DEF Send, SubscriptionInv, Events
    <2>2. OneAtATime' /\ TakenInOrder' /\ FoundRow'
      BY <1>1, <2>1 DEF Send, SubscriptionInv, Followed, OneAtATime, TakenInOrder, FoundRow
    <2>3. LastIsCurrent'
      <3> SUFFICES ASSUME NEW e \in pending',
                          \A o \in pending' : o.sub = e.sub => o.place <= e.place
                   PROVE  stripe'[e.sub] = e.status
        BY DEF LastIsCurrent
      <3>1. CASE e = new
        BY <3>1 DEF Send, SubscriptionInv, SubscriptionType
      <3>2. CASE e # new
        <4>1. e \in pending /\ e.place \in Nat /\ e.place < new.place /\ new \in pending' /\ new.sub = s
          BY <1>1, <2>1, <3>2 DEF SubscriptionInv, Events
        <4>2. e.sub # s
          BY <1>1, <4>1
        <4> QED BY <2>1, <4>1, <4>2 DEF Send, Followed, LastIsCurrent, SubscriptionInv, SubscriptionType
      <3> QED BY <3>1, <3>2
    <2>4. CaughtUp'
      <3>1. CASE record.sub = s
        <4>1. new \in pending' /\ new.sub = s /\ ~(new.place <= seen) /\ record' = record /\ seen' = seen
          BY <1>1, <2>1 DEF Send, SubscriptionInv
        <4> QED BY <3>1, <4>1 DEF CaughtUp
      <3>2. CASE record.sub # s
        BY <1>1, <2>1, <3>2 DEF Send, CaughtUp, Followed, SubscriptionInv, SubscriptionType
      <3> QED BY <3>1, <3>2
    <2> QED BY <2>2, <2>3, <2>4 DEF Followed
  <1> QED BY <1>3, <1>4, <1>5 DEF SubscriptionInv

\* A delivery arrives in order only when no other is at work and every older event is done.
LEMMA ArriveStep ==
  ASSUME SubscriptionInv, NEW d \in Delivery, NEW e \in pending, Arrive(d, e)
  PROVE  SubscriptionInv'
PROOF
  <1>1. e \in Event /\ e.place \in Nat /\ seen \in Nat /\ sent \in Nat /\ e.place <= sent
    BY DEF SubscriptionInv, SubscriptionType, Events, Place
  <1>2. SubscriptionType'
    BY <1>1 DEF Arrive, SubscriptionInv, SubscriptionType, Event
  <1>3. Events' /\ SentOnce' /\ (seen <= sent)'
    BY <1>1 DEF Arrive, SubscriptionInv, Events, SentOnce
  <1>4. ASSUME ~reordered' PROVE Followed'
    <2>0. ~reordered /\ ~(e.place < seen) /\ Underway = {} /\ ~(\E o \in pending : o.place < e.place)
      BY <1>4 DEF Arrive
    <2>1. Followed /\ seen <= e.place /\ seen' = e.place /\ pending' = pending
      BY <1>1, <2>0 DEF Arrive, SubscriptionInv
    <2>2. \A x \in Delivery : dpc[x] = "idle"
      BY <2>0 DEF Underway
    <2>3. \A o \in pending : e.place <= o.place
      BY <1>1, <2>0 DEF SubscriptionInv, Events
    <2>4. /\ \A x \in Delivery : dpc'[x] # "idle" => x = d
          /\ event'[d] = e /\ dpc'[d] = "arrived"
      BY <2>2 DEF Arrive, SubscriptionInv, SubscriptionType
    <2>5. OneAtATime'
      BY <2>1, <2>4 DEF OneAtATime
    <2>6. TakenInOrder' /\ LastIsCurrent' /\ FoundRow'
      BY <2>1, <2>3, <2>4 DEF Arrive, Followed, TakenInOrder, LastIsCurrent, FoundRow
    <2>7. CaughtUp'
      <3> SUFFICES ASSUME record.sub # 0, e.sub # record.sub,
                          \A o \in pending : o.sub = record.sub => o.place <= e.place
                   PROVE  record.plan = "PRO" <=> stripe[record.sub] = "active"
        BY <2>1, <2>4 DEF Arrive, CaughtUp
      <3>1. ASSUME NEW o \in pending, o.sub = record.sub PROVE o.place <= seen
        BY <2>3, <3>1, <1>1 DEF SubscriptionInv, SentOnce, Events
      <3> QED BY <2>1, <2>2, <3>1 DEF Followed, CaughtUp
    <2> QED BY <2>5, <2>6, <2>7 DEF Followed
  <1> QED BY <1>2, <1>3, <1>4 DEF SubscriptionInv

\* Whether or not the acknowledgement arrives, the events that remain are in order.
LEMMA Acknowledged ==
  ASSUME SubscriptionInv, Followed, NEW d \in Delivery, dpc[d] # "idle", Acknowledge(d),
         UNCHANGED <<stripe, sent, event, seen, reordered>>
  PROVE  /\ \A x \in Delivery : dpc'[x] = "idle"
         /\ \A e \in pending : e \in pending' \/ e = event[d]
         /\ pending' \subseteq pending
         /\ OneAtATime' /\ TakenInOrder' /\ LastIsCurrent' /\ FoundRow'
PROOF
  <1>1. \A x \in Delivery : dpc'[x] = "idle"
    BY DEF Acknowledge, SubscriptionInv, SubscriptionType, Followed, OneAtATime
  <1>2. pending' \subseteq pending /\ \A e \in pending : e \in pending' \/ e = event[d]
    BY DEF Acknowledge
  <1>3. OneAtATime' /\ FoundRow' /\ TakenInOrder'
    BY <1>1, <1>2 DEF OneAtATime, FoundRow, TakenInOrder, Followed
  <1>4. LastIsCurrent'
    <2> SUFFICES ASSUME NEW e \in pending',
                        \A o \in pending' : o.sub = e.sub => o.place <= e.place
                 PROVE  stripe[e.sub] = e.status
      BY DEF LastIsCurrent
    <2>1. e \in pending /\ event[d] \in pending /\ event[d].place <= e.place
      BY <1>2 DEF Followed, OneAtATime, TakenInOrder
    <2>2. \A o \in pending : o.sub = e.sub => o.place <= e.place
      BY <1>2, <2>1
    <2> QED BY <2>1, <2>2 DEF Followed, LastIsCurrent
  <1> QED BY <1>1, <1>2, <1>3, <1>4

\* The types and the order of the events do not depend on what a delivery does.
LEMMA DeliveryTyped ==
  ASSUME SubscriptionInv, NEW d \in Delivery, Complete(d) \/ Find(d) \/ Update(d)
  PROVE  SubscriptionType' /\ Events' /\ SentOnce' /\ (seen <= sent)'
PROOF
  <1>1. pending' \subseteq pending /\ UNCHANGED <<stripe, sent, event, seen, reordered>>
    BY DEF Complete, Find, Update, Acknowledge
  <1>2. event[d] \in Event
    BY DEF SubscriptionInv, SubscriptionType
  <1>3. record' \in [sub : Sub \union {0}, plan : {"FREE", "PRO"}]
    BY <1>2 DEF Complete, Find, Update, PlanOf, Event, SubscriptionInv, SubscriptionType
  <1>4. dpc' \in [Delivery -> {"idle", "arrived", "found"}]
    BY DEF Complete, Find, Update, Acknowledge, SubscriptionInv, SubscriptionType
  <1> QED BY <1>1, <1>3, <1>4 DEF SubscriptionInv, SubscriptionType, Events, SentOnce

\* The last event of a subscription that the plan was set by leaves the plan right.
LEMMA SetBy ==
  ASSUME SubscriptionInv, Followed, NEW d \in Delivery, dpc[d] # "idle", Acknowledge(d),
         UNCHANGED <<stripe, sent, event, seen, reordered>>,
         record'.sub = event[d].sub, record'.plan = "PRO" <=> event[d].status = "active"
  PROVE  CaughtUp'
PROOF
  <1> DEFINE e == event[d]
  <1>1. e \in pending /\ e.place = seen
    BY DEF Followed, OneAtATime
  <1>2. ASSUME \A o \in pending' : o.sub = record'.sub => o.place <= seen
        PROVE  \A o \in pending : o.sub = e.sub => o.place <= e.place
    BY <1>1, <1>2, Acknowledged DEF SubscriptionInv, Events
  <1> QED BY <1>1, <1>2 DEF Followed, LastIsCurrent, CaughtUp

LEMMA DeliveryStep ==
  ASSUME SubscriptionInv, NEW d \in Delivery, Complete(d) \/ Find(d) \/ Update(d)
  PROVE  SubscriptionInv'
PROOF
  <1> SUFFICES ASSUME ~reordered' PROVE Followed'
    BY DeliveryTyped DEF SubscriptionInv
  <1>1. Followed /\ dpc[d] # "idle" /\ UNCHANGED <<stripe, sent, event, seen, reordered>>
    BY DEF Complete, Find, Update, SubscriptionInv
  <1>2. event[d] \in pending /\ event[d] \in Event /\ event[d].place = seen
    BY <1>1 DEF Followed, OneAtATime, SubscriptionInv, SubscriptionType
  <1>3. CASE Complete(d)
    <2>1. record'.sub = event[d].sub /\ record'.plan = "PRO" /\ event[d].status = "active" /\ Acknowledge(d)
      BY <1>2, <1>3 DEF Complete, SubscriptionInv, Events
    <2> QED BY <1>1, <2>1, Acknowledged, SetBy DEF Followed
  <1>4. CASE Update(d)
    <2>1. record'.sub = event[d].sub /\ Acknowledge(d)
      BY <1>1, <1>4 DEF Update, Followed, FoundRow, SubscriptionInv, SubscriptionType
    <2>2. record'.plan = "PRO" <=> event[d].status = "active"
      BY <1>4 DEF Update, PlanOf, SubscriptionInv, SubscriptionType
    <2> QED BY <1>1, <2>1, <2>2, Acknowledged, SetBy DEF Followed
  <1>5. CASE Find(d) /\ Existing(event[d].sub)
    BY <1>1, <1>5 DEF Find, Existing, Followed, OneAtATime, TakenInOrder, LastIsCurrent, FoundRow, CaughtUp,
                      SubscriptionInv, SubscriptionType
  <1>6. CASE Find(d) /\ ~Existing(event[d].sub)
    <2>1. Acknowledge(d) /\ record' = record /\ record.sub # event[d].sub
      BY <1>6 DEF Find, Existing
    <2>2. /\ OneAtATime' /\ TakenInOrder' /\ LastIsCurrent' /\ FoundRow'
          /\ \A e \in pending : e \in pending' \/ e = event[d]
      BY <1>1, <2>1, Acknowledged
    <2>3. \A x \in Delivery : dpc[x] # "idle" => event[x].sub # record.sub
      BY <1>1, <2>1 DEF Followed, OneAtATime
    <2>4. CaughtUp'
      BY <1>1, <2>1, <2>2, <2>3 DEF Followed, CaughtUp
    <2> QED BY <2>2, <2>4 DEF Followed
  <1> QED BY <1>3, <1>4, <1>5, <1>6

LEMMA SubscriptionInvariance == SubscriptionSpec => []SubscriptionInv
PROOF
  <1>1. SubscriptionInit => SubscriptionInv
    <2> SUFFICES ASSUME SubscriptionInit PROVE SubscriptionInv
      OBVIOUS
    <2>1. 0 \in Place /\ NoEvent \in Event
      BY SubscriptionAssumption DEF Place, Event, NoEvent
    <2>2. SubscriptionType
      BY <2>1 DEF SubscriptionInit, SubscriptionType
    <2>3. Events /\ SentOnce /\ seen <= sent
      BY DEF SubscriptionInit, Events, SentOnce
    <2>4. Followed
      BY DEF SubscriptionInit, Followed, OneAtATime, TakenInOrder, LastIsCurrent, FoundRow, CaughtUp
    <2> QED BY <2>2, <2>3, <2>4 DEF SubscriptionInv
  <1>2. SubscriptionInv /\ [SubscriptionNext]_subscriptionVars => SubscriptionInv'
    <2> SUFFICES ASSUME SubscriptionInv, [SubscriptionNext]_subscriptionVars PROVE SubscriptionInv'
      OBVIOUS
    <2>1. ASSUME NEW s \in Sub, CheckoutCompleted(s) \/ PaymentFails(s) \/ Recovers(s) \/ Cancelled(s)
          PROVE  SubscriptionInv'
      BY <2>1, SendStep DEF CheckoutCompleted, PaymentFails, Recovers, Cancelled
    <2>2. ASSUME NEW d \in Delivery, NEW e \in pending, Arrive(d, e) PROVE SubscriptionInv'
      BY <2>2, ArriveStep
    <2>3. ASSUME NEW d \in Delivery, Complete(d) \/ Find(d) \/ Update(d) PROVE SubscriptionInv'
      BY <2>3, DeliveryStep
    <2>4. CASE UNCHANGED subscriptionVars
      BY <2>4 DEF subscriptionVars, SubscriptionInv, SubscriptionType, Events, SentOnce, Followed,
                  OneAtATime, TakenInOrder, LastIsCurrent, FoundRow, CaughtUp
    <2> QED BY <2>1, <2>2, <2>3, <2>4 DEF SubscriptionNext
  <1> QED BY <1>1, <1>2, PTL DEF SubscriptionSpec

(* Every variable of the subscription keeps its type, however many events Stripe sends. *)
THEOREM SubscriptionTyped == SubscriptionSpec => []SubscriptionType
PROOF
  <1>1. SubscriptionInv => SubscriptionType BY DEF SubscriptionInv
  <1> QED BY <1>1, SubscriptionInvariance, PTL

(* handleWebhook: once the events are acknowledged the plan is paid exactly when the       *)
(* subscription the row names is active, for any number of subscriptions, deliveries and   *)
(* events delivered again, provided that no event overtook another.                        *)
THEOREM PlanFollows == SubscriptionSpec => []PlanFollowsStripe
PROOF
  <1>1. SubscriptionInv => PlanFollowsStripe
    BY DEF SubscriptionInv, PlanFollowsStripe, Followed, OneAtATime, CaughtUp
  <1> QED BY <1>1, SubscriptionInvariance, PTL
=============================================================================
