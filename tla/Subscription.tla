----------------------------- MODULE Subscription -----------------------------
(***************************************************************************)
(* The plan of one organisation follows Stripe through webhooks.  Stripe   *)
(* keeps the subscriptions; an event carries a subscription's state of the *)
(* moment it was sent, may be delivered late, and is delivered again when  *)
(* the answer to it was lost.  Two deliveries may be handled at once.      *)
(***************************************************************************)
EXTENDS Integers

CONSTANTS
  Sub,          \* subscriptions Stripe may create for the organisation, positive numbers
  Delivery,     \* webhook requests that may be in flight at once
  MaxChanges    \* bound: changes Stripe makes to subscriptions

ASSUME SubscriptionAssumption == MaxChanges \in Nat

VARIABLES
  stripe,       \* Stripe: new, active, past_due or canceled
  pending,      \* events sent and not acknowledged, each with its place in the order
  sent,         \* number of events sent
  record,       \* subscription row: stripeSubId (0: none), plan
  dpc, event,   \* delivery: idle, arrived or found; its event
  seen,         \* history: the latest event that was taken
  reordered     \* history: an event was taken while an older one was under way, or after a newer one

subscriptionVars == <<stripe, pending, sent, record, dpc, event, seen, reordered>>

Place == 0..MaxChanges
Event == [kind : {"completed", "updated", "deleted"}, sub : Sub \union {0},
          status : {"active", "past_due", "canceled"}, place : Place]
NoEvent == [kind |-> "updated", sub |-> 0, status |-> "canceled", place |-> 0]

SubscriptionType ==
  /\ stripe \in [Sub -> {"new", "active", "past_due", "canceled"}]
  /\ pending \subseteq Event
  /\ sent \in Place /\ seen \in Place
  /\ record \in [sub : Sub \union {0}, plan : {"FREE", "PRO"}]
  /\ dpc \in [Delivery -> {"idle", "arrived", "found"}]
  /\ event \in [Delivery -> Event]
  /\ reordered \in BOOLEAN

SubscriptionInit ==
  /\ stripe = [s \in Sub |-> "new"]
  /\ pending = {} /\ sent = 0 /\ seen = 0
  /\ record = [sub |-> 0, plan |-> "FREE"]
  /\ dpc = [d \in Delivery |-> "idle"]
  /\ event = [d \in Delivery |-> NoEvent]
  /\ reordered = FALSE

--------------------------------------------------------------------------------
(* Stripe *)

Send(kind, s, status) ==
  /\ sent < MaxChanges
  /\ sent' = sent + 1
  /\ stripe' = [stripe EXCEPT ![s] = status]
  /\ pending' = pending \union {[kind |-> kind, sub |-> s, status |-> status, place |-> sent + 1]}
  /\ UNCHANGED <<record, dpc, event, seen, reordered>>

\* An owner finishes a checkout session: a subscription of its own for each.
CheckoutCompleted(s) == stripe[s] = "new" /\ Send("completed", s, "active")

PaymentFails(s) == stripe[s] = "active" /\ Send("updated", s, "past_due")
Recovers(s)     == stripe[s] = "past_due" /\ Send("updated", s, "active")
Cancelled(s)    == stripe[s] \in {"active", "past_due"} /\ Send("deleted", s, "canceled")

--------------------------------------------------------------------------------
(* handleWebhook *)

Underway == {event[d].place : d \in {x \in Delivery : dpc[x] # "idle"}}

Arrive(d, e) ==
  /\ dpc[d] = "idle" /\ e \in pending /\ e.place \notin Underway
  /\ dpc' = [dpc EXCEPT ![d] = "arrived"]
  /\ event' = [event EXCEPT ![d] = e]
  /\ reordered' = (reordered \/ e.place < seen \/ Underway # {} \/ \E o \in pending : o.place < e.place)
  /\ seen' = IF e.place > seen THEN e.place ELSE seen
  /\ UNCHANGED <<stripe, pending, sent, record>>

PlanOf(status) == IF status = "active" THEN "PRO" ELSE "FREE"

\* The answer to the webhook reaches Stripe, or it does not and the event stays to be sent again.
Acknowledge(d) ==
  /\ dpc' = [dpc EXCEPT ![d] = "idle"]
  /\ pending' \in {pending, pending \ {event[d]}}

\* checkout.session.completed: the row is upserted with the session's subscription.
Complete(d) ==
  /\ dpc[d] = "arrived" /\ event[d].kind = "completed"
  /\ record' = [sub |-> event[d].sub, plan |-> "PRO"]
  /\ Acknowledge(d)
  /\ UNCHANGED <<stripe, sent, event, seen, reordered>>

\* Slip: the organisation's row, whichever subscription it names.
AnyRow(s) == record.sub # 0

Existing(s) == record.sub = s

\* customer.subscription.updated and deleted: the row that names the subscription, if any.
Find(d) ==
  /\ dpc[d] = "arrived" /\ event[d].kind # "completed"
  /\ IF Existing(event[d].sub)
       THEN dpc' = [dpc EXCEPT ![d] = "found"] /\ UNCHANGED pending
       ELSE Acknowledge(d)
  /\ UNCHANGED <<stripe, sent, record, event, seen, reordered>>

\* update by the row's id: the subscription it names now may be another.
Update(d) ==
  /\ dpc[d] = "found"
  /\ record' = [record EXCEPT !.plan = PlanOf(event[d].status)]
  /\ Acknowledge(d)
  /\ UNCHANGED <<stripe, sent, event, seen, reordered>>

SubscriptionNext ==
  \/ \E s \in Sub : CheckoutCompleted(s) \/ PaymentFails(s) \/ Recovers(s) \/ Cancelled(s)
  \/ \E d \in Delivery : (\E e \in pending : Arrive(d, e)) \/ Complete(d) \/ Find(d) \/ Update(d)

SubscriptionSpec == SubscriptionInit /\ [][SubscriptionNext]_subscriptionVars

--------------------------------------------------------------------------------
\* Once Stripe has no event left to deliver, the plan is paid exactly when the subscription
\* the row names is active, however many subscriptions were opened and however often an event
\* came again, provided that no event overtook another.
PlanFollowsStripe ==
  pending = {} /\ ~reordered /\ record.sub # 0 =>
    (record.plan = "PRO" <=> stripe[record.sub] = "active")
=============================================================================
